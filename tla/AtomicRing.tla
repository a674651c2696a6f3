----------------------------- MODULE AtomicRing -----------------------------
(***************************************************************************)
(* What one level of the ring buffer promises to its readers, without any  *)
(* memory layout, lock or retry: samples are published one after another,  *)
(* and a reader that gets an answer gets, in one instant, whole samples    *)
(* that end at the newest one published at that instant.                   *)
(*                                                                         *)
(* Samples are numbered from 1 in the order in which they are published.   *)
(* SeqlockRing implements this specification.                              *)
(***************************************************************************)
EXTENDS Integers

CONSTANTS
  Readers,   \* processes that map the live file read-only
  Words,     \* number of words a stored sample is made of
  Capacity,  \* slots of the level
  MaxCount,  \* longest history a reader asks for
  MaxWrites  \* bound on the number of samples published

VARIABLES
  published, \* number of samples published so far
  answer     \* answer[r]: what reader r's call returned, Pending before that

vars == <<published, answer>>

Pending == [kind |-> "pending"]
NoData  == [kind |-> "nodata"]
Stale   == [kind |-> "stale"]

\* A sample none of whose words comes from another sample.
Whole(s) == [w \in 1..Words |-> s]

\* The n newest of the first p samples, oldest first.
Newest(p, n) ==
  [kind |-> "ok", samples |-> [i \in 0..(n - 1) |-> Whole(p - n + 1 + i)]]

Init ==
  /\ published = 0
  /\ answer = [r \in Readers |-> Pending]

Publish ==
  /\ published < MaxWrites
  /\ published' = published + 1
  /\ UNCHANGED answer

Answer(r) ==
  /\ answer[r] = Pending
  /\ \/ /\ published = 0
        /\ answer' = [answer EXCEPT ![r] = NoData]
     \/ answer' = [answer EXCEPT ![r] = Stale]
     \/ \E n \in 1..MaxCount :
          /\ n <= published /\ n <= Capacity
          /\ answer' = [answer EXCEPT ![r] = Newest(published, n)]
  /\ UNCHANGED published

\* The caller consumes the answer and may call again.
Consume(r) ==
  /\ answer[r] # Pending
  /\ answer' = [answer EXCEPT ![r] = Pending]
  /\ UNCHANGED published

Next == Publish \/ \E r \in Readers : Answer(r) \/ Consume(r)

Spec == Init /\ [][Next]_vars
=============================================================================
