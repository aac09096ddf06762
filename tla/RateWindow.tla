----------------------------- MODULE RateWindow -----------------------------
(***************************************************************************)
(* What requests_per_minute and burst promise together: over ANY stretch   *)
(* of time in which the rate history is not reset, a scope admits at most  *)
(* its burst plus what the rate earns in that time.                        *)
(*                                                                         *)
(* LimitStore with an observer.  The observer counts the admissions        *)
(* through every key since a moment of its choice; it never influences the *)
(* store.  A window opens with the first request and with every clear:     *)
(* after a reload a bucket is full again, which is what the code intends.  *)
(* On the keys of Watched the observer opens one whenever it likes.        *)
(***************************************************************************)
EXTENDS LimitStore

CONSTANT Watched  \* the keys on which windows open at any time

ASSUME WatchedAssumption == Watched \subseteq Keys

VARIABLE window  \* per key, [start, taken]: when the window was opened and
                 \* how many rated admissions it has seen

wvars == <<vars, window>>

WInit == Init /\ window = [k \in Keys |-> [start |-> 0, taken |-> 0]]

OpenWindow(k) ==
  /\ window' = [window EXCEPT ![k] = [start |-> clock, taken |-> 0]]
  /\ UNCHANGED vars

WAdmit(h, c) ==
  /\ Admit(h, c)
  /\ window' = [k \in Keys |->
                  IF Rated(c, k)
                  THEN [window[k] EXCEPT !.taken = @ + 1] ELSE window[k]]

WClear ==
  /\ Clear
  /\ window' = [k \in Keys |-> [start |-> clock, taken |-> 0]]

WNext ==
  \/ \E h \in Holders, c \in Calls : WAdmit(h, c)
  \/ \E c \in Calls : Refuse(c) /\ UNCHANGED window
  \/ \E h \in Holders : Release(h) /\ UNCHANGED window
  \/ WClear
  \/ Tick /\ UNCHANGED window
  \/ \E k \in Watched : OpenWindow(k)

WSpec == WInit /\ [][WNext]_wvars

WTypeOK == TypeOK /\ window \in [Keys -> [start: Nat, taken: Nat]]

-----------------------------------------------------------------------------
Full(k) == Ceiling[k].burst * Unit

(***************************************************************************)
(* The rate limit as a user reads it: no window of length t on a key sees  *)
(* more than burst + rpm * t admissions (in units; limiter.go:54-79), no   *)
(* matter where the window starts, how the calls are spread inside it, how *)
(* many were refused, or what share of the limit each configuration gave.  *)
(***************************************************************************)
RateBounded ==
  \A k \in Keys :
    window[k].taken * Unit
      <= Full(k) + Ceiling[k].rpm * (clock - window[k].start)

(* The part of a window that lies before the bucket's last update. *)
Earned(k) ==
  IF buckets[k].updated < window[k].start
  THEN 0 ELSE Ceiling[k].rpm * (buckets[k].updated - window[k].start)

(***************************************************************************)
(* Why RateBounded holds: a bucket's content and what the window took from *)
(* it never exceed the burst and what was earned up to the last update. A  *)
(* bucket not touched since the window was opened has given it nothing.    *)
(***************************************************************************)
BucketAccounts ==
  /\ \A k \in Keys : window[k].start <= clock
  /\ \A k \in DOMAIN buckets :
       /\ buckets[k].updated <= clock
       /\ buckets[k].tokens <= Full(k)
       /\ buckets[k].updated < window[k].start => window[k].taken = 0
       /\ window[k].taken * Unit + buckets[k].tokens <= Full(k) + Earned(k)
  /\ \A k \in Keys \ DOMAIN buckets : window[k].taken = 0
=============================================================================
