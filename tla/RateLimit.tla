------------------------------- MODULE RateLimit -------------------------------
(* The fixed-window limiter in front of the ingest and import routes           *)
(* (src/src/core/rate-limit.ts): one window per client key, in process memory, *)
(* swept only when the map is full.  Time is in ticks; a Retry-After is in     *)
(* whole seconds.                                                              *)
EXTENDS Integers, Sequences, FiniteSets

CONSTANTS
  Clients,   \* client keys
  Limit,     \* requests a window admits
  Second,    \* ticks in a second
  Width,     \* ticks in a window (WINDOW_MS)
  Full,      \* entries at which prune sweeps
  MaxTime,   \* bound: ticks
  MaxAsks    \* bound: requests counted in one window

ASSUME RateAssumption ==
  /\ Limit \in Nat \ {0} /\ Second \in Nat \ {0} /\ Width \in Nat \ {0}
  /\ Full \in Nat /\ MaxTime \in Nat /\ MaxAsks \in Nat

VARIABLES
  now,
  windows,   \* client -> its window: count and resetAt; count 0 is no entry
  admitted,  \* history: client -> the requests admitted: when, and in which
             \* window (by its opening) as its nth
  returnAt   \* history: client -> when its last refusal said to come back
rateVars == <<now, windows, admitted, returnAt>>

NoWindow == [count |-> 0, resetAt |-> 0]
RateInit ==
  /\ now = 0 /\ windows = [c \in Clients |-> NoWindow]
  /\ admitted = [c \in Clients |-> <<>>]
  /\ returnAt = [c \in Clients |-> 0]

BugPruneAll(ws) == [c \in Clients |-> NoWindow]
prune(ws) ==
  IF Cardinality({c \in Clients : ws[c] # NoWindow}) < Full THEN ws
  ELSE [c \in Clients |-> IF ws[c].resetAt <= now THEN NoWindow ELSE ws[c]]

CeilDiv(a, b) == (a + b - 1) \div b
RetryAfter(w) == LET s == CeilDiv(w.resetAt - now, Second) IN IF s < 1 THEN 1 ELSE s

Admit(c) ==
  admitted' = [admitted EXCEPT ![c] = Append(@,
    [at |-> now, opened |-> windows'[c].resetAt - Width, nth |-> windows'[c].count])]
Open(c, ws) ==
  /\ ws[c] = NoWindow \/ ws[c].resetAt <= now
  /\ windows' = [ws EXCEPT ![c] = [count |-> 1, resetAt |-> now + Width]]
  /\ Admit(c) /\ UNCHANGED returnAt
Count(c, ws) ==
  /\ ws[c] # NoWindow /\ ws[c].resetAt > now /\ ws[c].count < MaxAsks
  /\ windows' = [ws EXCEPT ![c].count = @ + 1]
  /\ IF ws[c].count + 1 > Limit
     THEN returnAt' = [returnAt EXCEPT ![c] = now + Second * RetryAfter(ws[c])] /\ UNCHANGED admitted
     ELSE Admit(c) /\ UNCHANGED returnAt

rateLimit(c) == LET ws == prune(windows) IN (Open(c, ws) \/ Count(c, ws)) /\ UNCHANGED now
Tick == now < MaxTime /\ now' = now + 1 /\ UNCHANGED <<windows, admitted, returnAt>>

RateNext == Tick \/ \E c \in Clients : rateLimit(c)
RateSpec == RateInit /\ [][RateNext]_rateVars

-----------------------------------------------------------------------------
(* However the windows fall, no stretch as long as a window admits more than   *)
(* two windows' worth: the sweep of a full map must not hand out a fresh one.  *)
Within(c, t) == {n \in 1..Len(admitted[c]) : t <= admitted[c][n].at /\ admitted[c][n].at < t + Width}
AtMostTwoWindows == \A c \in Clients, t \in 0..MaxTime : Cardinality(Within(c, t)) <= 2 * Limit
(* A client that comes back when its last refusal told it to finds the window  *)
(* that refused it over.                                                       *)
RetryAfterIsEnough ==
  \A c \in Clients : windows[c].count > Limit => windows[c].resetAt <= returnAt[c]
(* A client asks at most twice the limit in any window, and who waits as long  *)
(* as Retry-After says is let in (rateLimit).                                  *)
LimitHolds == AtMostTwoWindows /\ RetryAfterIsEnough

(* Behind LimitHolds: a window admits its first Limit requests while it is     *)
(* open, the next one opens when it is over, and an entry is dropped only then.*)
RateTypeOK ==
  /\ now \in 0..MaxTime
  /\ windows \in [Clients -> [count : Nat, resetAt : Nat]]
  /\ admitted \in [Clients -> Seq([at : Nat, opened : Nat, nth : 1..Limit])]
  /\ returnAt \in [Clients -> Nat]
Apart(a, b) == (a.opened = b.opened /\ a.nth < b.nth) \/ a.opened + Width <= b.opened
InOrder(c) ==
  \A n \in 1..Len(admitted[c]) :
    LET a == admitted[c][n] IN
    /\ a.opened <= a.at /\ a.at < a.opened + Width /\ a.at <= now
    /\ \A m \in 1..(n - 1) : Apart(admitted[c][m], a)
    /\ IF windows[c] = NoWindow THEN a.opened + Width <= now
       ELSE /\ a.opened + Width <= windows[c].resetAt
            /\ a.opened + Width = windows[c].resetAt => a.nth <= windows[c].count
            /\ a.opened + Width = windows[c].resetAt \/ a.opened + 2 * Width <= windows[c].resetAt
OpenWindows ==
  \A c \in Clients : windows[c] # NoWindow =>
    windows[c].count >= 1 /\ windows[c].resetAt >= Width /\ windows[c].resetAt <= now + Width
RateInv == RateTypeOK /\ OpenWindows /\ (\A c \in Clients : InOrder(c)) /\ RetryAfterIsEnough
=============================================================================
