----------------------------- MODULE DayTracker -----------------------------
(* The Day of YourCo module of the sidebar (components/DayTracker.tsx,         *)
(* components/day-tracker.ts, core/daytrack-prefs.ts): the cities it shows and *)
(* the one celebration of a milestone.  A load asks for the profile and the    *)
(* overview, and either may fail, while another load is under way.  Lists are  *)
(* kept in the browser and sent to the server by calls nobody waits for: they  *)
(* may be lost, refused or overtake each other.                                *)
EXTENDS Naturals, Sequences, SequencesExt

CONSTANTS
  Tabs,          \* of one browser
  DemoCast,      \* the cities shown before anybody is synced, home first
  Rankings,      \* city lists an overview may have
  Homes,         \* keys flagged as home
  MilestoneKeys,
  MaxChanges,    \* bound: changes of the overview
  MaxPicks,      \* bound: cities added or removed
  MaxReloads,    \* bound
  Loads          \* loads under way in a tab at once

VARIABLES
  overview,      \* the server's: [users, cities, milestone]
  config,        \* its prefs: [shown, celebrated]
  local,         \* localStorage: the same two
  tab,           \* by tab: the refs and the painted snapshot
  loading,       \* by tab and load: the two answers so far
  patches,       \* PATCHes of the config under way
  fired, picked, blind,   \* history: celebrations by key; by tab its last pick;
                          \* a tab celebrated before it ever had a profile
  changes, picks, reloads
dayVars == <<overview, config, local, tab, loading, patches, fired, picked, blind, changes, picks, reloads>>

Unset == <<"unset">>      \* undefined and null alike: no list was ever chosen
DEFAULT_SHOWN == 3
NoOverview == [users |-> FALSE, cities |-> <<>>, milestone |-> "none"]
NoPrefs == [shown |-> Unset, celebrated |-> {}]
Mounted == [shown |-> Unset, celebrated |-> {}, claimed |-> {}, known |-> FALSE, profile |-> NoPrefs,
            overview |-> NoOverview, snap |-> FALSE, cities |-> <<>>, keys |-> <<>>, milestone |-> "none"]
Quiet == [pc |-> "idle", profile |-> NoPrefs, got |-> FALSE, overview |-> NoOverview, saw |-> FALSE]

Init ==
  /\ overview \in {NoOverview} \cup [users : {TRUE}, cities : Rankings, milestone : {"none"}]
  /\ config = NoPrefs /\ local = NoPrefs /\ patches = {}
  /\ tab = [t \in Tabs |-> Mounted] /\ loading = [t \in Tabs |-> [l \in Loads |-> Quiet]]
  /\ fired = [k \in MilestoneKeys |-> 0] /\ picked = [t \in Tabs |-> Unset] /\ blind = FALSE
  /\ changes = 0 /\ picks = 0 /\ reloads = 0

-----------------------------------------------------------------------------
(* Which cities: home first, then those asked for that exist.                  *)
citiesOf(o) == IF o.users THEN o.cities ELSE DemoCast
(* filter: the elements of s that are in S, in their order.                    *)
Only(s, S) ==
  LET kept[i \in 0..Len(s)] ==
        IF i = 0 THEN <<>> ELSE IF s[i] \in S THEN Append(kept[i - 1], s[i]) ELSE kept[i - 1]
  IN kept[Len(s)]
HomeOf(cities) == Only(cities, Homes)
First(s) == IF s = <<>> THEN <<>> ELSE <<s[1]>>
defaultShownKeys(cities) ==
  LET home == First(HomeOf(cities) \o cities)
      ranked == home \o Only(cities, Range(cities) \ Range(home))
  IN SubSeq(ranked, 1, IF Len(ranked) < DEFAULT_SHOWN THEN Len(ranked) ELSE DEFAULT_SHOWN)
(* Mutant: home is put in front of a list that has it.                         *)
BugHomeTwice(requested, cities) ==
  IF requested = Unset \/ cities = <<>> THEN defaultShownKeys(cities)
  ELSE First(HomeOf(cities)) \o Only(requested, Range(cities))
resolveShownKeys(requested, cities) ==
  LET home == First(HomeOf(cities))
      rest == Only(requested, Range(cities) \ Range(home))
  IN IF requested = Unset \/ home \o rest = <<>> THEN defaultShownKeys(cities) ELSE home \o rest

shouldFireCelebration(key, celebrated) == key # "none" /\ key \notin celebrated
(* One paint of tab t, with the tab as the load or the pick left it.  A paint  *)
(* that would change nothing the signature has is skipped.  The effect on the  *)
(* milestone runs when its key changes.                                        *)
paint(t, was, p, moved) ==
  LET cities == citiesOf(p.overview)
      keys == resolveShownKeys(p.shown, cities)
      ref == IF p.shown = Unset THEN keys ELSE p.shown
      skipped == was.snap /\ ~moved /\ keys = was.keys
      q == IF skipped THEN [p EXCEPT !.shown = ref]
           ELSE [p EXCEPT !.shown = ref, !.snap = TRUE, !.cities = cities, !.keys = keys,
                          !.milestone = p.overview.milestone]
      key == q.milestone
      fires == key # was.milestone /\ key \notin q.claimed /\ shouldFireCelebration(key, q.celebrated)
  IN /\ tab' = [tab EXCEPT ![t] = IF fires THEN [q EXCEPT !.claimed = @ \cup {key}, !.celebrated = @ \cup {key}] ELSE q]
     /\ fired' = IF fires THEN [fired EXCEPT ![key] = @ + 1] ELSE fired
     /\ local' = IF fires THEN [local EXCEPT !.celebrated = tab'[t].celebrated] ELSE local
     /\ patches' = IF fires THEN patches \cup {[NoPrefs EXCEPT !.celebrated = tab'[t].celebrated]} ELSE patches

-----------------------------------------------------------------------------
(* A load: the ticker's, each minute and when the tab shows again, or that of  *)
(* a stamp that moved.                                                         *)
Fetch(t, l) ==
  /\ loading[t][l] = Quiet
  /\ loading' = [loading EXCEPT ![t][l].pc = "asked"]
  /\ UNCHANGED <<overview, config, local, tab, patches, fired, picked, blind, changes, picks, reloads>>
(* Both requests are answered, or one is not ok, or the load fails.            *)
Answer(t, l, gotProfile, gotOverview) ==
  /\ loading[t][l].pc = "asked"
  /\ loading' = [loading EXCEPT ![t][l] =
       [pc |-> "answered", got |-> gotProfile, saw |-> gotOverview,
        profile |-> IF gotProfile THEN config ELSE NoPrefs,
        overview |-> IF gotOverview THEN overview ELSE NoOverview]]
  /\ UNCHANGED <<overview, config, local, tab, patches, fired, picked, blind, changes, picks, reloads>>
Rejected(t, l) ==
  /\ loading[t][l].pc # "idle" /\ loading' = [loading EXCEPT ![t][l] = Quiet]
  /\ UNCHANGED <<overview, config, local, tab, patches, fired, picked, blind, changes, picks, reloads>>
(* A profile's lists: what was celebrated is the server's and this browser's;  *)
(* the shown list is the server's, else this browser's, once per mount.        *)
TakeProfile(p, stored) ==
  [p EXCEPT !.celebrated = p.profile.celebrated \cup stored.celebrated,
            !.shown = IF p.shown # Unset THEN p.shown
                      ELSE IF p.profile.shown # Unset THEN p.profile.shown ELSE stored.shown]
load(t, l, moved) ==
  LET a == loading[t][l]
      p == [tab[t] EXCEPT !.profile = IF a.got THEN a.profile ELSE @, !.known = a.got \/ @,
                          !.overview = IF a.saw THEN a.overview ELSE @]
  IN /\ a.pc = "answered"
     /\ paint(t, tab[t], IF p.known THEN TakeProfile(p, local) ELSE p, moved)
     /\ loading' = [loading EXCEPT ![t][l] = Quiet]
     /\ blind' = (blind \/ (~p.known /\ fired' # fired))
     /\ UNCHANGED <<overview, config, picked, changes, picks, reloads>>

(* The picker: a city of the painted list is added, or any but home removed.   *)
applyShown(t, next) ==
  LET p == tab[t]
      resolved == resolveShownKeys(next, p.cities)
      q == [p EXCEPT !.shown = resolved, !.snap = TRUE, !.cities = citiesOf(p.overview),
                     !.keys = resolveShownKeys(resolved, citiesOf(p.overview)), !.milestone = p.overview.milestone]
  IN /\ p.snap /\ picks < MaxPicks /\ picks' = picks + 1
     /\ tab' = [tab EXCEPT ![t] = q] /\ picked' = [picked EXCEPT ![t] = resolved]
     /\ local' = [local EXCEPT !.shown = resolved]
     /\ patches' = patches \cup {[NoPrefs EXCEPT !.shown = resolved]}
     /\ UNCHANGED <<overview, config, loading, fired, blind, changes, reloads>>
addCity(t, key) ==
  /\ key \in Range(tab[t].cities) \ Range(tab[t].keys)
  /\ applyShown(t, Append(tab[t].shown, key))
removeCity(t, key) ==
  /\ key \in Range(tab[t].keys) \ Homes
  /\ LET next == Only(tab[t].shown, Range(tab[t].shown) \ {key})
     IN applyShown(t, IF next = <<>> THEN defaultShownKeys(tab[t].cities) ELSE next)
(* The page is loaded anew.                                                    *)
Reset(t) ==
  /\ reloads < MaxReloads /\ reloads' = reloads + 1
  /\ tab' = [tab EXCEPT ![t] = Mounted] /\ loading' = [loading EXCEPT ![t] = [l \in Loads |-> Quiet]]
  /\ picked' = [picked EXCEPT ![t] = Unset]
  /\ UNCHANGED <<overview, config, local, patches, fired, blind, changes, picks>>

(* PATCH /api/v1/config stores a list, or is lost or refused.                  *)
Patch(p, stored) ==
  /\ patches' = patches \ {p}
  /\ config' = IF ~stored THEN config
               ELSE IF p.shown # Unset THEN [config EXCEPT !.shown = p.shown]
               ELSE [config EXCEPT !.celebrated = p.celebrated]
  /\ UNCHANGED <<overview, local, tab, loading, fired, picked, blind, changes, picks, reloads>>
(* People are synced or move; the day turns.                                   *)
Change(o) ==
  /\ changes < MaxChanges /\ changes' = changes + 1 /\ o # overview /\ overview' = o
  /\ UNCHANGED <<config, local, tab, loading, patches, fired, picked, blind, picks, reloads>>

AllCities == Range(DemoCast) \cup UNION {Range(c) : c \in Rankings}
Next ==
  \/ \E t \in Tabs :
       \/ Reset(t)
       \/ \E k \in AllCities : addCity(t, k) \/ removeCity(t, k)
       \/ \E l \in Loads :
            \/ Fetch(t, l) \/ Rejected(t, l)
            \/ \E gotProfile, gotOverview \in BOOLEAN : Answer(t, l, gotProfile, gotOverview)
            \/ \E moved \in BOOLEAN : load(t, l, moved)
  \/ \E p \in patches, stored \in BOOLEAN : Patch(p, stored)
  \/ \E c \in Rankings, m \in MilestoneKeys \cup {"none"} :
       Change([users |-> TRUE, cities |-> c, milestone |-> m])

-----------------------------------------------------------------------------
(* Home leads, no city comes twice, none is shown that the overview lacks, and *)
(* nothing is hidden altogether (resolveShownKeys, over addCity, removeCity,   *)
(* loads and reloads); what was picked stays for the life of the page.         *)
ShownIsWhole ==
  \A t \in Tabs : LET p == tab[t] IN
    /\ p.snap =>
         /\ Range(p.keys) \subseteq Range(p.cities) /\ IsInjective(p.keys)
         /\ p.cities # <<>> => p.keys # <<>>
         /\ HomeOf(p.cities) # <<>> => p.keys[1] \in Homes
    /\ picked[t] # Unset => p.shown = picked[t]
(* A milestone is celebrated once in a browser with one tab, whatever is lost  *)
(* or reloaded, unless the page has no profile yet                            *)
(* (shouldFireCelebration, claimedRef, localStorage).                          *)
CelebratedOnce == ~blind => \A k \in MilestoneKeys : fired[k] <= 1
=============================================================================
