---------------------------- MODULE RecentlyUsed ----------------------------
(***************************************************************************)
(* What a cache of bounded size promises: it remembers the keys that were  *)
(* used last, each with the value set last, for as long as maxAge says.    *)
(* Whether a key that is asked for is remembered for longer is left open.  *)
(***************************************************************************)
EXTENDS Naturals, Sequences

CONSTANTS Key, Value, Nothing, MaxItems, MaxAge, MaxTime

VARIABLES recent,  \* sequence of [key, value, since], least recently used first
          now, answer

vars == <<recent, now, answer>>

(* A key is remembered at most once.                                       *)
Without(k) ==
  LET place == {n \in DOMAIN recent : recent[n].key = k}
      n == CHOOSE n \in place : TRUE
  IN IF place = {} THEN recent ELSE SubSeq(recent, 1, n - 1) \o SubSeq(recent, n + 1, Len(recent))

Stamp == IF MaxAge > 0 THEN now ELSE 0

Fresh(e) == MaxAge > 0 => now - e.since <= MaxAge

Init == recent = <<>> /\ now = 0 /\ answer = <<"", Nothing>>

Put(k, v) ==
  LET all == Append(Without(k), [key |-> k, value |-> v, since |-> Stamp])
  IN recent' = IF Len(all) > MaxItems THEN Tail(all) ELSE all

Set(k, v) ==
  /\ answer' = <<"set", Nothing>>
  /\ UNCHANGED now
  /\ Put(k, v)

(* What is remembered of k, if that is not too old.                        *)
Has(k) == {n \in DOMAIN recent : recent[n].key = k /\ Fresh(recent[n])}

Get(k) ==
  /\ answer' \in {<<"get", v>> : v \in Value \cup {Nothing}}
  /\ UNCHANGED now
  /\ \/ \E n \in Has(k), keep \in BOOLEAN :
          /\ answer' = <<"get", recent[n].value>>
          /\ recent' = Append(Without(k), [recent[n] EXCEPT !.since = IF keep THEN @ ELSE Stamp])
     \/ Has(k) = {} /\ answer' = <<"get", Nothing>> /\ UNCHANGED recent

(* Get and then set, answering what was there. *)
Use(k, v) ==
  /\ answer' \in {<<"use", w>> : w \in Value \cup {Nothing}}
  /\ UNCHANGED now
  /\ \/ Has(k) = {} /\ answer'[2] = Nothing
     \/ \E n \in Has(k) : answer'[2] = recent[n].value
  /\ Put(k, v)

Tick == now < MaxTime /\ now' = now + 1 /\ UNCHANGED <<recent, answer>>

Forget == recent' = <<>> /\ answer' = <<"clear", Nothing>> /\ UNCHANGED now

Next == (\E k \in Key : Get(k) \/ \E v \in Value : Set(k, v) \/ Use(k, v)) \/ Tick \/ Forget

Spec == Init /\ [][Next]_vars
=============================================================================
