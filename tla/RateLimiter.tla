----------------------------- MODULE RateLimiter -----------------------------
(***************************************************************************)
(* The fixed-window counter in front of signing in and of signing up: how  *)
(* many attempts an address is allowed, and when it is told to try later.  *)
(*                                                                         *)
(* allow() holds the mutex from reading the clock to returning, so a call  *)
(* is one action at the current instant.  The windows are in the memory of *)
(* the process: a restart forgets them.                                    *)
(***************************************************************************)
EXTENDS Integers, FiniteSets

CONSTANTS
  Addresses,   (* what remoteIP gives                                        *)
  Limit,       (* server.go: 10 sign-ins, 2 sign-ups                         *)
  Window,      (* server.go: 3 minutes, 5 minutes                            *)
  MaxCount,    (* bound: attempts counted in one window                      *)
  MaxLives,    (* bound: processes that run one after the other              *)
  Horizon      (* bound: the last moment looked at                           *)

ASSUME RateLimiterAssumption ==
  /\ Limit \in Nat \ {0} /\ Window \in Nat \ {0}
  /\ MaxCount \in Nat /\ MaxLives \in Nat \ {0} /\ Horizon \in Nat

VARIABLES
  windows,     (* the map, by address                                        *)
  now,         (* the clock                                                  *)
  life,        (* history: which process it is                               *)
  admitted     (* history: the attempts that were let through                *)

vars == <<windows, now, life, admitted>>

-----------------------------------------------------------------------------
\* Faulty: a window ends one moment early, or one moment late.
EndsEarly(w) == now - w.startedAt >= Window - 1
EndsLate(w) == now - w.startedAt > Window
\* A window has run out.
Expired(w) == now - w.startedAt >= Window

\* prune.
Prune == [a \in {b \in DOMAIN windows : ~Expired(windows[b])} |-> windows[a]]
Put(map, address, w) ==
  [a \in DOMAIN map \cup {address} |-> IF a = address THEN w ELSE map[a]]

LetThrough(address, w) ==
  admitted' = admitted \cup
    {[address |-> address, life |-> life, at |-> now, began |-> w.startedAt, count |-> w.count]}

\* allow, when the address has no window or one that has run out.
Begin(address) ==
  LET fresh == [count |-> 1, startedAt |-> now]
  IN  /\ address \in DOMAIN Prune => Expired(windows[address])
      /\ windows' = Put(Prune, address, fresh)
      /\ LetThrough(address, fresh)
      /\ UNCHANGED <<now, life>>

\* allow, within a window: the attempt is counted whether it is let through.
Counted(address) == [windows[address] EXCEPT !.count = @ + 1]
Count(address) ==
  /\ address \in DOMAIN Prune /\ ~Expired(windows[address])
  /\ windows[address].count < MaxCount
  /\ windows' = Put(Prune, address, Counted(address))
  /\ UNCHANGED <<now, life>>
Admit(address) ==
  /\ Count(address)
  /\ Counted(address).count <= Limit
  /\ LetThrough(address, Counted(address))
Refuse(address) ==
  /\ Count(address)
  /\ Counted(address).count > Limit
  /\ UNCHANGED admitted

\* newLimiter, in the next process: "it resets on deploy".
Restart ==
  /\ life < MaxLives
  /\ life' = life + 1
  /\ windows' = [a \in {} |-> 0]
  /\ UNCHANGED <<now, admitted>>

Tick ==
  /\ now < Horizon
  /\ now' = now + 1
  /\ UNCHANGED <<windows, life, admitted>>

Init ==
  /\ windows = [a \in {} |-> 0]
  /\ now = 0 /\ life = 1
  /\ admitted = {}

Next ==
  \/ \E a \in Addresses : Begin(a) \/ Admit(a) \/ Refuse(a)
  \/ Restart
  \/ Tick

Spec == Init /\ [][Next]_vars

-----------------------------------------------------------------------------
(* Properties.                                                             *)

WindowType == [count : 1 .. MaxCount + 1, startedAt : 0 .. Horizon]
AttemptType == [address : Addresses, life : 1 .. MaxLives, at : 0 .. Horizon,
                began : 0 .. Horizon, count : 1 .. MaxCount + 1]
TypeOK ==
  /\ DOMAIN windows \subseteq Addresses
  /\ windows \in [DOMAIN windows -> WindowType]
  /\ now \in 0 .. Horizon /\ life \in 1 .. MaxLives
  /\ admitted \subseteq AttemptType

\* The attempts one process let through from `from` to `to`, both included.
Let(address, l, from, to) ==
  {x \in admitted : x.address = address /\ x.life = l /\ from <= x.at /\ x.at <= to}

\* "Someone can send the whole allowance at the end of one window, and again at
\* the start of the next.  So the real worst case is twice the limit" (limiter):
\* whenever one looks, no address gets more than that past one process within
\* the length of a window, both of its ends included, though windows are not
\* aligned to anything but the first attempt in them.
AtMostTwice ==
  \A a \in Addresses, l \in 1 .. MaxLives, t \in 0 .. Horizon :
    Cardinality(Let(a, l, t, t + Window)) <= 2 * Limit

\* Whoever is told to try again later had the whole allowance less than one
\* window ago: attempts that were refused do not keep an address out, neither
\* does a window that has just run out, and nobody uses up somebody else's.
RefusedForAReason ==
  [][\A a \in Addresses :
       Refuse(a) => Cardinality(Let(a, life, now - Window + 1, now)) >= Limit]_vars
=============================================================================
