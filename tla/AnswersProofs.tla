----------------------------- MODULE AnswersProofs -----------------------------
(***************************************************************************)
(* Proofs about the answers MCAnswers runs side by side: the Responses     *)
(* API, for any number of turns, attempts and events; the prompt cache,    *)
(* for any accounts, requests and prompts; and the streams, for any cut of *)
(* the text into chunks, any tools and any numbers of attempts.            *)
(***************************************************************************)
EXTENDS Responses, PromptCache, Streams, SumsProofs, FiniteSetTheorems, SequenceTheorems

(***************************************************************************)
(* Histories: sequences of whatever.                                       *)
(***************************************************************************)
IsHistory(q) == q \in Seq({q[i] : i \in DOMAIN q})

(* A sequence over any set is one.                                         *)
LEMMA HistoryOf ==
    ASSUME NEW S, NEW q \in Seq(S)
    PROVE  IsHistory(q)
<1>1. Len(q) \in Nat /\ DOMAIN q = 1..Len(q) /\ q \in [1..Len(q) -> S]
  BY LenProperties
<1>2. q \in [1..Len(q) -> {q[i] : i \in DOMAIN q}]
  BY <1>1
<1> QED
  BY <1>1, <1>2, SeqDef DEF IsHistory

(* An element at its end, and the elements before it.                      *)
LEMMA HistoryAppend ==
    ASSUME NEW q, NEW e, IsHistory(q)
    PROVE  /\ IsHistory(Append(q, e))
           /\ Len(q) \in Nat /\ DOMAIN q = 1..Len(q)
           /\ Len(Append(q, e)) = Len(q) + 1
           /\ DOMAIN Append(q, e) = 1..Len(q) + 1
           /\ Append(q, e)[Len(q) + 1] = e
           /\ \A i \in 1..Len(q) : Append(q, e)[i] = q[i]
<1> DEFINE S == {q[i] : i \in DOMAIN q} \cup {e}
<1>1. q \in Seq(S)
  <2>1. Len(q) \in Nat /\ DOMAIN q = 1..Len(q) /\ q \in [1..Len(q) -> {q[i] : i \in DOMAIN q}]
    BY LenProperties DEF IsHistory
  <2>2. q \in [1..Len(q) -> S]
    BY <2>1
  <2> QED
    BY <2>1, <2>2, SeqDef
<1>2. e \in S
  OBVIOUS
<1> HIDE DEF S
<1>3. Append(q, e) \in Seq(S)
  BY <1>1, <1>2, AppendProperties
<1>4. IsHistory(Append(q, e))
  BY <1>3, HistoryOf
<1>5. Len(q) \in Nat /\ DOMAIN q = 1..Len(q)
  BY <1>1, LenProperties
<1>6. /\ Len(Append(q, e)) = Len(q) + 1
      /\ DOMAIN Append(q, e) = 1..Len(q) + 1
      /\ Append(q, e)[Len(q) + 1] = e
      /\ \A i \in 1..Len(q) : Append(q, e)[i] = q[i]
  BY <1>1, <1>2, AppendProperties
<1> QED
  BY <1>4, <1>5, <1>6


(* The places before i, and those of one kind of event.                    *)
Under(i, S) == {k \in S : k < i}
Kind(q, ev) == {i \in DOMAIN q : q[i].ev = ev}

(* What an event at the end changes of them.                               *)
LEMMA EventAppended ==
    ASSUME NEW q, NEW e, IsHistory(q)
    PROVE  /\ \A ev : Kind(Append(q, e), ev) = Kind(q, ev) \cup (IF e.ev = ev THEN {Len(q) + 1} ELSE {})
           /\ \A ev : Len(q) + 1 \notin Kind(q, ev)
           /\ \A ev : \A i \in 1..Len(q) : Under(i, Kind(Append(q, e), ev)) = Under(i, Kind(q, ev))
           /\ \A ev : Under(Len(q) + 1, Kind(Append(q, e), ev)) = Kind(q, ev)
           /\ \A ev : IsFiniteSet(Kind(q, ev)) /\ Cardinality(Kind(q, ev)) \in Nat
           /\ \A ev : Cardinality(Kind(Append(q, e), ev)) =
                         Cardinality(Kind(q, ev)) + (IF e.ev = ev THEN 1 ELSE 0)
<1> DEFINE r == Append(q, e)
           n == Len(q)
<1>1. /\ n \in Nat /\ DOMAIN q = 1..n /\ DOMAIN r = 1..n + 1
      /\ r[n + 1] = e /\ \A i \in 1..n : r[i] = q[i]
  BY HistoryAppend
<1> HIDE DEF r, n
<1>2. 1..n + 1 = 1..n \cup {n + 1} /\ n + 1 \notin 1..n
  BY <1>1
<1>3. \A ev : Kind(r, ev) = Kind(q, ev) \cup (IF e.ev = ev THEN {n + 1} ELSE {})
  BY <1>1, <1>2 DEF Kind
<1>4. \A ev : n + 1 \notin Kind(q, ev) /\ Kind(q, ev) \subseteq 1..n
  BY <1>1, <1>2 DEF Kind
<1>5. \A ev : \A i \in 1..n : Under(i, Kind(r, ev)) = Under(i, Kind(q, ev))
  BY <1>1, <1>3 DEF Under
<1>6. \A ev : Under(n + 1, Kind(r, ev)) = Kind(q, ev)
  BY <1>1, <1>3, <1>4 DEF Under
<1>7. \A ev : IsFiniteSet(Kind(q, ev)) /\ Cardinality(Kind(q, ev)) \in Nat
  <2>1. 1 \in Int /\ n \in Int
    BY <1>1
  <2>2. IsFiniteSet(1..n)
    BY <2>1, FS_Interval
  <2> QED
    BY <1>4, <2>2, FS_Subset, FS_CardinalityType
<1>8. \A ev : Cardinality(Kind(r, ev)) =
                 Cardinality(Kind(q, ev)) + (IF e.ev = ev THEN 1 ELSE 0)
  <2> SUFFICES ASSUME NEW ev
               PROVE  Cardinality(Kind(r, ev)) =
                        Cardinality(Kind(q, ev)) + (IF e.ev = ev THEN 1 ELSE 0)
    OBVIOUS
  <2>1. CASE e.ev = ev
    <3>1. Kind(r, ev) = Kind(q, ev) \cup {n + 1}
      BY <1>3, <2>1
    <3>2. IsFiniteSet(Kind(q, ev)) /\ n + 1 \notin Kind(q, ev)
      BY <1>4, <1>7
    <3> QED
      BY <2>1, <3>1, <3>2, FS_AddElement
  <2>2. CASE e.ev # ev
    BY <1>3, <1>7, <2>2
  <2> QED
    BY <2>1, <2>2
<1> QED
  BY <1>3, <1>4, <1>5, <1>6, <1>7, <1>8 DEF r, n

(***************************************************************************)
(* Items.                                                                  *)
(***************************************************************************)
(* Whether an item is open just before place i.                            *)
OpenBefore(q, i) ==
    /\ Under(i, Kind(q, "item_added")) # {}
    /\ Cardinality(Under(i, Kind(q, "item_added"))) = Cardinality(Under(i, Kind(q, "item_done"))) + 1

(* Each event of an item is in its place.                                  *)
Nested(q) ==
    \A i \in DOMAIN q :
       /\ q[i].ev = "item_added" =>
             q[i].index = Cardinality(Under(i, Kind(q, "item_added"))) /\ ~OpenBefore(q, i)
       /\ q[i].index >= 0 /\ q[i].ev # "item_added" =>
             OpenBefore(q, i) /\ q[i].index = Cardinality(Under(i, Kind(q, "item_added"))) - 1

(* n items are over, and another one is open or not; the turn goes on.     *)
Items(q, n, open) ==
    /\ IsHistory(q) /\ n \in Nat /\ open \in BOOLEAN
    /\ Nested(q)
    /\ Cardinality(Kind(q, "item_added")) = n + (IF open THEN 1 ELSE 0)
    /\ Cardinality(Kind(q, "item_done")) = n
    /\ \A i \in DOMAIN q : q[i].ev \notin {"completed", "failed"}

(* What a client was told of a turn that is over or goes on.               *)
Heard(q) ==
    /\ Nested(q)
    /\ Kind(q, "completed") # {} =>
          Cardinality(Kind(q, "item_added")) = Cardinality(Kind(q, "item_done"))
    /\ \A i \in Kind(q, "completed") \cup Kind(q, "failed") : i = Len(q)

(* In these terms, the events a client received are well formed.           *)
LEMMA HeardIsWellFormed == Heard(heard) => ItemsWellFormed
<1> SUFFICES ASSUME Heard(heard)
             PROVE  ItemsWellFormed
  OBVIOUS
<1>1. \A ev : HeardAt(ev) = Kind(heard, ev)
  BY DEF HeardAt, Kind
<1>2. \A ev : Kind(heard, ev) \subseteq DOMAIN heard /\ \A i \in DOMAIN heard : i \in Kind(heard, ev) <=> heard[i].ev = ev
  BY DEF Kind
<1> QED
  BY <1>1, <1>2 DEF Heard, Nested, OpenBefore, Under, ItemsWellFormed

(* An event that is in its place after all that was heard.                 *)
LEMMA NestedAppend ==
    ASSUME NEW q, NEW e, IsHistory(q), Nested(q),
           e.ev = "item_added" =>
              /\ e.index = Cardinality(Kind(q, "item_added"))
              /\ Cardinality(Kind(q, "item_added")) = Cardinality(Kind(q, "item_done")),
           e.index >= 0 /\ e.ev # "item_added" =>
              /\ e.index = Cardinality(Kind(q, "item_added")) - 1
              /\ Cardinality(Kind(q, "item_added")) = Cardinality(Kind(q, "item_done")) + 1
    PROVE  Nested(Append(q, e))
<1> DEFINE r == Append(q, e)
           n == Len(q)
           A == Kind(q, "item_added")
           D == Kind(q, "item_done")
<1>1. /\ n \in Nat /\ DOMAIN q = 1..n /\ DOMAIN r = 1..n + 1
      /\ r[n + 1] = e /\ \A i \in 1..n : r[i] = q[i]
  BY HistoryAppend
<1>2. /\ \A ev : \A i \in 1..n : Under(i, Kind(r, ev)) = Under(i, Kind(q, ev))
      /\ \A ev : Under(n + 1, Kind(r, ev)) = Kind(q, ev)
      /\ Cardinality(A) \in Nat /\ Cardinality(D) \in Nat
  BY EventAppended
<1> HIDE DEF r, n
<1>3. ASSUME NEW i \in 1..n
      PROVE  /\ r[i].ev = "item_added" =>
                   r[i].index = Cardinality(Under(i, Kind(r, "item_added"))) /\ ~OpenBefore(r, i)
             /\ r[i].index >= 0 /\ r[i].ev # "item_added" =>
                   OpenBefore(r, i) /\ r[i].index = Cardinality(Under(i, Kind(r, "item_added"))) - 1
  <2>1. OpenBefore(r, i) = OpenBefore(q, i)
    BY <1>2 DEF OpenBefore
  <2> QED
    BY <1>1, <1>2, <2>1 DEF Nested
<1>4. OpenBefore(r, n + 1) <=> Cardinality(A) = Cardinality(D) + 1
  <2>1. OpenBefore(r, n + 1) <=> A # {} /\ Cardinality(A) = Cardinality(D) + 1
    BY <1>2 DEF OpenBefore
  <2>2. A = {} => Cardinality(A) = 0
    BY FS_EmptySet
  <2> QED
    BY <1>2, <2>1, <2>2
<1>5. /\ r[n + 1].ev = "item_added" =>
            r[n + 1].index = Cardinality(Under(n + 1, Kind(r, "item_added"))) /\ ~OpenBefore(r, n + 1)
      /\ r[n + 1].index >= 0 /\ r[n + 1].ev # "item_added" =>
            OpenBefore(r, n + 1) /\ r[n + 1].index = Cardinality(Under(n + 1, Kind(r, "item_added"))) - 1
  BY <1>1, <1>2, <1>4
<1>6. \A i \in DOMAIN r : i \in 1..n \/ i = n + 1
  BY <1>1
<1> QED
  BY <1>3, <1>5, <1>6 DEF Nested, r

(* An item opens, something happens in it, it is over; and what belongs to *)
(* no item.                                                                *)
LEMMA ItemAppended ==
    ASSUME NEW q, NEW n, NEW open, NEW e, Items(q, n, open), e.ev \notin {"completed", "failed"}
    PROVE  /\ e.ev = "item_added" /\ e.index = n /\ ~open => Items(Append(q, e), n, TRUE)
           /\ e.ev \notin {"item_added", "item_done"} /\ e.index = n /\ open =>
                 Items(Append(q, e), n, TRUE)
           /\ e.ev = "item_done" /\ e.index = n /\ open => Items(Append(q, e), n + 1, FALSE)
           /\ e.ev \notin {"item_added", "item_done"} /\ e.index = -1 =>
                 Items(Append(q, e), n, open)
<1> DEFINE r == Append(q, e)
           A == Cardinality(Kind(q, "item_added"))
           D == Cardinality(Kind(q, "item_done"))
<1>1. /\ IsHistory(q) /\ n \in Nat /\ open \in BOOLEAN /\ Nested(q)
      /\ A = n + (IF open THEN 1 ELSE 0) /\ D = n
  BY DEF Items
<1>2. IsHistory(r) /\ \A i \in DOMAIN r : r[i].ev \notin {"completed", "failed"}
  <2>1. /\ IsHistory(r) /\ DOMAIN q = 1..Len(q) /\ DOMAIN r = 1..Len(q) + 1 /\ Len(q) \in Nat
        /\ r[Len(q) + 1] = e /\ \A i \in 1..Len(q) : r[i] = q[i]
    BY <1>1, HistoryAppend
  <2>2. \A i \in DOMAIN r : i \in 1..Len(q) \/ i = Len(q) + 1
    BY <2>1
  <2> HIDE DEF r
  <2> QED
    BY <2>1, <2>2 DEF Items
<1>3. /\ Cardinality(Kind(r, "item_added")) = A + (IF e.ev = "item_added" THEN 1 ELSE 0)
      /\ Cardinality(Kind(r, "item_done")) = D + (IF e.ev = "item_done" THEN 1 ELSE 0)
  BY <1>1, EventAppended
<1>4. ASSUME e.ev = "item_added", e.index = n, ~open
      PROVE  Items(r, n, TRUE)
  <2>1. Nested(r)
    BY <1>1, <1>4, NestedAppend
  <2> HIDE DEF r, A, D
  <2> QED
    BY <1>1, <1>2, <1>3, <1>4, <2>1 DEF Items
<1>5. ASSUME e.ev \notin {"item_added", "item_done"}, e.index = n, open
      PROVE  Items(r, n, TRUE)
  <2>1. Nested(r)
    BY <1>1, <1>5, NestedAppend
  <2> HIDE DEF r, A, D
  <2> QED
    BY <1>1, <1>2, <1>3, <1>5, <2>1 DEF Items
<1>6. ASSUME e.ev = "item_done", e.index = n, open
      PROVE  Items(r, n + 1, FALSE)
  <2>1. Nested(r)
    BY <1>1, <1>6, NestedAppend
  <2> HIDE DEF r, A, D
  <2> QED
    BY <1>1, <1>2, <1>3, <1>6, <2>1 DEF Items
<1>7. ASSUME e.ev \notin {"item_added", "item_done"}, e.index = -1
      PROVE  Items(r, n, open)
  <2>1. Nested(r)
    BY <1>1, <1>7, NestedAppend
  <2> HIDE DEF r, A, D
  <2> QED
    BY <1>1, <1>2, <1>3, <1>7, <2>1 DEF Items
<1> QED
  BY <1>4, <1>5, <1>6, <1>7

(* What goes on is well formed.                                            *)
LEMMA ItemsAreHeard ==
    ASSUME NEW q, NEW n, NEW open, Items(q, n, open)
    PROVE  Heard(q)
BY DEF Items, Heard, Kind

(* It stays so when the turn ends: at any time when it fails, between two  *)
(* items when it is completed.                                             *)
LEMMA TurnEnds ==
    ASSUME NEW q, NEW n, NEW open, NEW e, Items(q, n, open), e.index = -1,
           e.ev = "failed" \/ (e.ev = "completed" /\ ~open)
    PROVE  Heard(Append(q, e))
<1> DEFINE r == Append(q, e)
<1>1. IsHistory(q) /\ n \in Nat /\ Nested(q)
  BY DEF Items
<1>2. /\ DOMAIN q = 1..Len(q) /\ DOMAIN r = 1..Len(q) + 1 /\ Len(q) \in Nat
      /\ Len(r) = Len(q) + 1 /\ \A i \in 1..Len(q) : r[i] = q[i]
  BY <1>1, HistoryAppend
<1>3. Nested(r)
  BY <1>1, NestedAppend
<1>4. /\ \A ev : Kind(r, ev) = Kind(q, ev) \cup (IF e.ev = ev THEN {Len(q) + 1} ELSE {})
      /\ \A ev : Cardinality(Kind(q, ev)) \in Nat
      /\ \A ev : Cardinality(Kind(r, ev)) = Cardinality(Kind(q, ev)) + (IF e.ev = ev THEN 1 ELSE 0)
  BY <1>1, EventAppended
<1>5. Kind(q, "completed") = {} /\ Kind(q, "failed") = {}
  BY DEF Items, Kind
<1> HIDE DEF r
<1>6. Kind(r, "completed") # {} => e.ev = "completed"
  BY <1>4, <1>5
<1>7. e.ev = "completed" => Cardinality(Kind(r, "item_added")) = Cardinality(Kind(r, "item_done"))
  BY <1>4 DEF Items
<1>8. \A i \in Kind(r, "completed") \cup Kind(r, "failed") : i = Len(r)
  BY <1>2, <1>4, <1>5
<1> QED
  BY <1>3, <1>6, <1>7, <1>8 DEF Heard, r

(* The client of a turn that begins has heard of no item.                  *)
LEMMA NoItems ==
    /\ Items(<<>>, 0, FALSE)
    /\ \A e : e.ev \notin {"item_added", "item_done", "completed", "failed"} /\ e.index = -1 =>
          Items(<<e>>, 0, FALSE)
<1>1. Items(<<>>, 0, FALSE)
  <2>1. IsHistory(<<>>)
    <3>1. <<>> \in Seq({})
      OBVIOUS
    <3> QED
      BY <3>1, HistoryOf
  <2>2. \A ev : Kind(<<>>, ev) = {}
    BY DEF Kind
  <2> QED
    BY <2>1, <2>2, FS_EmptySet DEF Items, Nested
<1>2. ASSUME NEW e, e.ev \notin {"item_added", "item_done", "completed", "failed"}, e.index = -1
      PROVE  Items(<<e>>, 0, FALSE)
  <2>1. Items(Append(<<>>, e), 0, FALSE)
    BY <1>1, <1>2, ItemAppended
  <2>2. Append(<<>>, e) = <<e>>
    OBVIOUS
  <2> QED
    BY <2>1, <2>2
<1> QED
  BY <1>1, <1>2

(* A history is a sequence over any set with its elements.                 *)
LEMMA HistoryIn ==
    ASSUME NEW q, IsHistory(q), NEW T
    PROVE  q \in Seq({q[i] : i \in DOMAIN q} \cup T)
<1> DEFINE S == {q[i] : i \in DOMAIN q} \cup T
<1>1. Len(q) \in Nat /\ DOMAIN q = 1..Len(q) /\ q \in [1..Len(q) -> {q[i] : i \in DOMAIN q}]
  BY LenProperties DEF IsHistory
<1>2. q \in [1..Len(q) -> S]
  BY <1>1
<1> QED
  BY <1>1, <1>2, SeqDef

(* Events that are told together come one after the other: one event.     *)
LEMMA Together1 ==
    ASSUME NEW q, IsHistory(q), NEW c
    PROVE  /\ q \o <<c>> = Append(q, c)
           /\ q \o (<<>> \o <<c>>) = Append(q, c)
<1> DEFINE S == {q[i] : i \in DOMAIN q} \cup {c}
<1>1. q \in Seq(S) /\ c \in S
  BY HistoryIn
<1> HIDE DEF S
<1>2. q \o (<<>> \o <<c>>) = (q \o <<>>) \o <<c>>
  BY <1>1, ConcatAssociative
<1>3. q \o <<>> = q
  BY <1>1, ConcatEmptySeq
<1> QED
  BY <1>1, <1>2, <1>3

(* Three.                                                                  *)
LEMMA Together3 ==
    ASSUME NEW q, IsHistory(q), NEW a, NEW b, NEW c
    PROVE  /\ q \o (<<>> \o <<a, b, c>>) = Append(Append(Append(q, a), b), c)
           /\ q \o (<<a, b>> \o <<c>>) = Append(Append(Append(q, a), b), c)
<1> DEFINE S == {q[i] : i \in DOMAIN q} \cup {a, b, c}
<1>1. q \in Seq(S) /\ a \in S /\ b \in S /\ c \in S
  BY HistoryIn
<1> HIDE DEF S
<1>2. /\ q \o (<<>> \o <<a, b, c>>) = (q \o <<>>) \o <<a, b, c>>
      /\ q \o (<<a, b>> \o <<c>>) = (q \o <<a, b>>) \o <<c>>
  BY <1>1, ConcatAssociative
<1>3. q \o <<>> = q
  BY <1>1, ConcatEmptySeq
<1>4. /\ q \o <<a, b>> = Append(Append(q, a), b)
      /\ q \o <<a, b, c>> = Append(Append(Append(q, a), b), c)
  OBVIOUS
<1>5. \A r : r \o <<c>> = Append(r, c)
  OBVIOUS
<1> QED
  BY <1>2, <1>3, <1>4, <1>5

(* Five.                                                                   *)
LEMMA Together5 ==
    ASSUME NEW q, IsHistory(q), NEW a, NEW b, NEW c, NEW d, NEW e
    PROVE  q \o (<<a, b>> \o <<c, d, e>>) = Append(Append(Append(Append(Append(q, a), b), c), d), e)
<1> DEFINE S == {q[i] : i \in DOMAIN q} \cup {a, b, c, d, e}
<1>1. q \in Seq(S) /\ {a, b, c, d, e} \subseteq S
  BY HistoryIn
<1> HIDE DEF S
<1>2. q \o (<<a, b>> \o <<c, d, e>>) = (q \o <<a, b>>) \o <<c, d, e>>
  BY <1>1, ConcatAssociative
<1>3. q \o <<a, b>> = Append(Append(q, a), b)
  OBVIOUS
<1>4. \A r : r \o <<c, d, e>> = Append(Append(Append(r, c), d), e)
  OBVIOUS
<1> QED
  BY <1>2, <1>3, <1>4

(***************************************************************************)
(* What one attempt says.                                                  *)
(***************************************************************************)
Speaks(q, attempt) == \A i \in DOMAIN q : q[i].content # <<>> => q[i].attempt = attempt

(* An attempt that says more is still the one that speaks.                 *)
LEMMA SpeaksAppend ==
    ASSUME NEW q, NEW e, NEW attempt, IsHistory(q), Speaks(q, attempt),
           e.content # <<>> => e.attempt = attempt
    PROVE  Speaks(Append(q, e), attempt)
<1> DEFINE r == Append(q, e)
<1>1. /\ DOMAIN q = 1..Len(q) /\ DOMAIN r = 1..Len(q) + 1 /\ Len(q) \in Nat
      /\ r[Len(q) + 1] = e /\ \A i \in 1..Len(q) : r[i] = q[i]
  BY HistoryAppend
<1>2. \A i \in DOMAIN r : i \in 1..Len(q) \/ i = Len(q) + 1
  BY <1>1
<1> HIDE DEF r
<1> QED
  BY <1>1, <1>2 DEF Speaks, r

(* Whatever account attempts fail, what a client hears is of one of them.  *)
LEMMA OneSpeaks == Speaks(heard, turn.attempt) => ReplyFromOneAttempt
<1> SUFFICES ASSUME Speaks(heard, turn.attempt)
             PROVE  ReplyFromOneAttempt
  OBVIOUS
<1> DEFINE T == {heard[i].attempt : i \in {k \in DOMAIN heard : heard[k].content # <<>>}}
<1>1. T \subseteq {turn.attempt}
  BY DEF Speaks
<1>2. Cardinality({turn.attempt}) = 1 /\ IsFiniteSet({turn.attempt})
  BY FS_Singleton
<1> HIDE DEF T
<1>3. Cardinality(T) <= 1
  BY <1>1, <1>2, FS_Subset
<1> QED
  BY <1>3 DEF ReplyFromOneAttempt, T

(***************************************************************************)
(* The invariant.                                                          *)
(***************************************************************************)
TurnOK ==
    /\ DOMAIN turn = DOMAIN NoTurn /\ DOMAIN reply = DOMAIN FreshReply
    /\ turn.at \in {"idle", "rejected", "pick", "call", "completed", "failed"}
    /\ turn.id \in 0..MaxTurns /\ turn.attempt \in 0..ReplyAttempts
    /\ turn.started \in BOOLEAN
    /\ pieces \in 0..MaxPieces /\ day \in 0..MaxDay

(* A document that is there is one of a turn that was completed and kept.  *)
DocsOK ==
    /\ DOMAIN docs = 1..MaxTurns /\ IsHistory(spoken)
    /\ \A i \in DOMAIN docs :
          docs[i] # NoDoc => \E k \in DOMAIN spoken : spoken[k].id = i /\ spoken[k].kept

(* What the client has been told: before an account is asked of no item    *)
(* and by no attempt; then of the items the attempt at hand has counted,   *)
(* and by that attempt; and of nothing at all if it waits for the whole.   *)
TurnHeard ==
    /\ turn.at = "pick" => /\ ~turn.started
                           /\ turn.ask.stream => Items(heard, 0, FALSE)
    /\ turn.at = "call" => /\ ~turn.started => reply.index = 0 /\ ~reply.open
                           /\ turn.ask.stream => Items(heard, reply.index, reply.open)
    /\ turn.at \in {"pick", "call"} =>
          /\ ~turn.ask.stream => heard = <<>>
          /\ ~turn.started => \A i \in DOMAIN heard : heard[i].content = <<>>
    /\ Heard(heard)
    /\ Speaks(heard, turn.attempt)

ReplyInv == TurnOK /\ DocsOK /\ TurnHeard

(* No events are well formed, and of every attempt.                        *)
LEMMA NothingHeard ==
    ASSUME NEW attempt
    PROVE  Heard(<<>>) /\ Speaks(<<>>, attempt)
<1>1. Items(<<>>, 0, FALSE)
  BY NoItems
<1>2. Heard(<<>>)
  BY <1>1, ItemsAreHeard
<1>3. Speaks(<<>>, attempt)
  BY DEF Speaks
<1> QED
  BY <1>2, <1>3

(* At the start there are at most the former turns, all kept.              *)
LEMMA RepliesStart == ResponsesInit => ReplyInv
<1> SUFFICES ASSUME ResponsesInit
             PROVE  ReplyInv
  OBVIOUS
<1>1. PICK n \in 0..MaxTurns :
         \E asked \in [1..n -> {a \in TurnAsks : a.store /\ ~Refused(a, 0)}] :
            /\ docs = [i \in 1..MaxTurns |->
                  IF i > n THEN NoDoc
                  ELSE [prev |-> i - 1, instructions |-> asked[i].instructions,
                        input |-> asked[i].input, output |-> ResponseOutput(<<"x">>, <<>>), at |-> 0]]
            /\ spoken = [i \in 1..n |->
                  [id |-> i, prev |-> i - 1, day |-> 0, kept |-> TRUE, ask |-> asked[i],
                   text |-> <<"x">>, tools |-> <<>>]]
            /\ turn = [NoTurn EXCEPT !.id = n]
  BY DEF ResponsesInit
<1>2. n \in Nat /\ {ReplyAttempts, MaxTurns, MaxPieces} \subseteq Nat
  BY ResponsesAssumption
<1>3. turn.at = "idle" /\ turn.id = n /\ turn.attempt = 0 /\ turn.started = FALSE /\ DOMAIN turn = DOMAIN NoTurn
  BY <1>1 DEF NoTurn
<1>4. reply = FreshReply /\ heard = <<>> /\ pieces = 0 /\ day \in 0..MaxDay
  BY DEF ResponsesInit
<1>5. TurnOK
  <2>1. /\ turn.at \in {"idle", "rejected", "pick", "call", "completed", "failed"}
        /\ turn.id \in 0..MaxTurns /\ turn.attempt \in 0..ReplyAttempts /\ turn.started \in BOOLEAN
    <3>1. 0 \in 0..ReplyAttempts
      BY <1>2
    <3> QED
      BY <1>3, <3>1
  <2>2. pieces \in 0..MaxPieces /\ day \in 0..MaxDay
    BY <1>2, <1>4
  <2> QED
    BY <1>3, <1>4, <2>1, <2>2 DEF TurnOK
<1>6. IsHistory(spoken)
  <2>1. spoken \in Seq({spoken[i] : i \in DOMAIN spoken})
    BY <1>1, <1>2
  <2> QED
    BY <2>1, HistoryOf
<1>7. DocsOK
  <2>1. DOMAIN docs = 1..MaxTurns /\ DOMAIN spoken = 1..n
    BY <1>1
  <2>2. ASSUME NEW i \in DOMAIN docs, docs[i] # NoDoc
        PROVE  i \in 1..n
    BY <1>1, <1>2, <2>1, <2>2
  <2>3. \A i \in 1..n : spoken[i].id = i /\ spoken[i].kept
    BY <1>1
  <2> QED
    BY <1>6, <2>1, <2>2, <2>3 DEF DocsOK
<1>8. TurnHeard
  BY <1>3, <1>4, NothingHeard DEF TurnHeard
<1> QED
  BY <1>5, <1>7, <1>8 DEF ReplyInv

(* The turn, the bounds and the documents, at every step.                  *)
LEMMA StepTurn ==
    ASSUME ReplyInv, [ResponsesNext]_replyVars
    PROVE  TurnOK' /\ DocsOK'
<1> USE DEF ReplyInv
<1>0. {ReplyAttempts, MaxTurns, MaxPieces} \subseteq Nat \ {0} /\ MaxDay \in Nat
  BY ResponsesAssumption
<1>1. CASE UNCHANGED replyVars
  BY <1>1 DEF replyVars, TurnOK, DocsOK
<1>2. CASE TurnBegins
  <2>1. PICK prev \in 0..turn.id : docs' = AfterLoading(prev)
    BY <1>2 DEF TurnBegins
  <2>2. DocsOK'
    <3>1. spoken' = spoken
      BY <1>2 DEF TurnBegins
    <3>2. DOMAIN docs' = DOMAIN docs /\ \A i \in DOMAIN docs : docs'[i] # NoDoc => docs[i] # NoDoc
      BY <2>1 DEF AfterLoading
    <3> QED
      BY <3>1, <3>2 DEF DocsOK
  <2>3. TurnOK'
    <3>1. /\ turn.id < MaxTurns /\ reply' = FreshReply /\ UNCHANGED <<day, pieces>>
          /\ \E asked \in TurnAsks, p \in 0..turn.id :
                LET new == [NoTurn EXCEPT !.id = turn.id + 1, !.prev = p, !.day = day]
                IN  \/ turn' = [new EXCEPT !.at = "rejected"]
                    \/ turn' = [new EXCEPT !.at = "pick", !.ask = asked, !.messages = FinalMessages(asked, p)]
      BY <1>2 DEF TurnBegins
    <3>2. /\ DOMAIN turn' = DOMAIN NoTurn /\ turn'.at \in {"rejected", "pick"}
          /\ turn'.id = turn.id + 1 /\ turn'.attempt = 0 /\ turn'.started = FALSE
      BY <3>1 DEF NoTurn
    <3>3. turn'.id \in 0..MaxTurns /\ turn'.attempt \in 0..ReplyAttempts
      BY <1>0, <3>1, <3>2 DEF TurnOK
    <3>4. DOMAIN reply' = DOMAIN FreshReply /\ pieces' \in 0..MaxPieces /\ day' \in 0..MaxDay
      BY <3>1 DEF TurnOK
    <3> QED
      BY <3>2, <3>3, <3>4 DEF TurnOK
  <2> QED
    BY <2>2, <2>3
<1>3. CASE ReplyAccountPicked
  BY <1>0, <1>3 DEF ReplyAccountPicked, TurnOK, DocsOK, NoTurn
<1>4. CASE ReplyTokenFails
  BY <1>0, <1>4 DEF ReplyTokenFails, TurnOK, DocsOK, NoTurn
<1>5. CASE ReplyGivesUp
  BY <1>0, <1>5 DEF ReplyGivesUp, TurnOK, DocsOK, NoTurn
<1>6. CASE ReplyText
  BY <1>0, <1>6 DEF ReplyText, TurnOK, DocsOK, NoTurn, FreshReply
<1>7. CASE ReplyTool
  BY <1>0, <1>7 DEF ReplyTool, TurnOK, DocsOK, NoTurn, FreshReply
<1>8. CASE ReplyBreaks
  BY <1>0, <1>8, ZenonT(30) DEF ReplyBreaks, TurnOK, DocsOK, NoTurn
<1>9. CASE ReplyCompletes
  <2> DEFINE content == FinalText(reply.text)
             output == ResponseOutput(content, reply.tools)
             doc == [prev |-> turn.prev, instructions |-> turn.ask.instructions,
                     input |-> turn.ask.input, output |-> output, at |-> day]
  <2>1. PICK saved \in {TRUE, FALSE} :
           /\ docs' = IF turn.ask.store /\ saved THEN [docs EXCEPT ![turn.id] = doc] ELSE docs
           /\ spoken' = Append(spoken,
                 [id |-> turn.id, prev |-> turn.prev, day |-> day, kept |-> turn.ask.store /\ saved,
                  ask |-> turn.ask, text |-> content, tools |-> reply.tools])
    BY <1>9 DEF ReplyCompletes
  <2> HIDE DEF content, output
  <2> DEFINE entry == [id |-> turn.id, prev |-> turn.prev, day |-> day, kept |-> turn.ask.store /\ saved,
                       ask |-> turn.ask, text |-> content, tools |-> reply.tools]
             n == Len(spoken)
  <2>2. /\ IsHistory(spoken') /\ n \in Nat /\ DOMAIN spoken = 1..n /\ DOMAIN spoken' = 1..n + 1
        /\ spoken'[n + 1] = entry /\ \A k \in 1..n : spoken'[k] = spoken[k]
    BY <2>1, HistoryAppend DEF DocsOK
  <2>3. entry.id = turn.id /\ (turn.ask.store /\ saved => entry.kept)
    OBVIOUS
  <2> HIDE DEF entry, n, doc
  <2>4. DOMAIN docs' = DOMAIN docs
    BY <2>1
  <2>5. ASSUME NEW i \in DOMAIN docs, docs'[i] # NoDoc
        PROVE  \E k \in DOMAIN spoken' : spoken'[k].id = i /\ spoken'[k].kept
    <3>1. CASE docs'[i] = docs[i]
      <4>1. PICK k \in DOMAIN spoken : spoken[k].id = i /\ spoken[k].kept
        BY <2>5, <3>1 DEF DocsOK
      <4>2. k \in DOMAIN spoken' /\ spoken'[k] = spoken[k]
        BY <2>2
      <4> QED
        BY <4>1, <4>2
    <3>2. CASE docs'[i] # docs[i]
      <4>1. turn.ask.store /\ saved /\ i = turn.id
        BY <2>1, <3>2
      <4>2. n + 1 \in DOMAIN spoken'
        BY <2>2
      <4> QED
        BY <2>2, <2>3, <4>1, <4>2
    <3> QED
      BY <3>1, <3>2
  <2>6. DocsOK'
    BY <2>2, <2>4, <2>5 DEF DocsOK
  <2>7. TurnOK'
    BY <1>0, <1>9 DEF ReplyCompletes, TurnOK, NoTurn
  <2> QED
    BY <2>6, <2>7
<1>10. CASE DayPasses
  BY <1>0, <1>10 DEF DayPasses, TurnOK, DocsOK
<1>11. CASE ResponsesPurged
  <2>1. /\ UNCHANGED <<turn, reply, heard, spoken, day, pieces>>
        /\ DOMAIN docs' = DOMAIN docs /\ \A i \in DOMAIN docs : docs'[i] # NoDoc => docs[i] # NoDoc
    BY <1>11 DEF ResponsesPurged
  <2> QED
    BY <2>1 DEF TurnOK, DocsOK
<1> QED
  BY <1>1, <1>2, <1>3, <1>4, <1>5, <1>6, <1>7, <1>8, <1>9, <1>10, <1>11 DEF ResponsesNext

(* A turn goes on: what it tells is about one item after the other.        *)
LEMMA StepTurnBegins == ReplyInv /\ TurnBegins => TurnHeard'
<1> SUFFICES ASSUME ReplyInv, TurnBegins
             PROVE  TurnHeard'
  OBVIOUS
<1>1. PICK asked \in TurnAsks, prev \in 0..turn.id :
         LET new == [NoTurn EXCEPT !.id = turn.id + 1, !.prev = prev, !.day = day]
         IN  \/ turn' = [new EXCEPT !.at = "rejected"] /\ heard' = <<>>
             \/ /\ turn' = [new EXCEPT !.at = "pick", !.ask = asked, !.messages = FinalMessages(asked, prev)]
                /\ heard' = IF asked.stream THEN <<[Say("created", -1, <<>>) EXCEPT !.attempt = 0]>> ELSE <<>>
  BY DEF TurnBegins
<1>2. CASE turn'.at = "rejected" /\ heard' = <<>>
  BY <1>2, NothingHeard DEF TurnHeard
<1>3. CASE /\ turn'.at = "pick" /\ turn'.ask = asked /\ ~turn'.started
           /\ heard' = IF asked.stream THEN <<[Say("created", -1, <<>>) EXCEPT !.attempt = 0]>> ELSE <<>>
  <2>1. CASE ~asked.stream
    <3>1. heard' = <<>> /\ turn'.at = "pick" /\ ~turn'.started /\ ~turn'.ask.stream
      BY <1>3, <2>1
    <3>2. Heard(heard') /\ Speaks(heard', turn'.attempt)
      BY <3>1, NothingHeard
    <3>3. DOMAIN heard' = {}
      BY <3>1
    <3> QED
      BY <3>1, <3>2, <3>3 DEF TurnHeard
  <2>2. CASE asked.stream
    <3> DEFINE e == [Say("created", -1, <<>>) EXCEPT !.attempt = 0]
    <3>1. e.ev = "created" /\ e.index = -1 /\ e.content = <<>>
      BY DEF Say
    <3>2. heard' = <<e>>
      BY <1>3, <2>2
    <3> HIDE DEF e
    <3>3. Items(heard', 0, FALSE)
      BY <3>1, <3>2, NoItems
    <3>4. Heard(heard')
      BY <3>3, ItemsAreHeard
    <3>5. \A i \in DOMAIN heard' : heard'[i].content = <<>>
      BY <3>1, <3>2
    <3>6. Speaks(heard', turn'.attempt)
      BY <3>5 DEF Speaks
    <3> QED
      BY <1>3, <2>2, <3>3, <3>4, <3>5, <3>6 DEF TurnHeard
  <2> QED
    BY <2>1, <2>2
<1> QED
  BY <1>1, <1>2, <1>3 DEF NoTurn

(* An account is asked: the turn is in progress, and nothing is said yet.  *)
LEMMA StepAccountPicked == ReplyInv /\ ReplyAccountPicked => TurnHeard'
<1> SUFFICES ASSUME ReplyInv, ReplyAccountPicked
             PROVE  TurnHeard'
  OBVIOUS
<1> DEFINE e == Say("in_progress", -1, <<>>)
<1>1. /\ turn.at = "pick" /\ turn'.at = "call" /\ turn'.ask = turn.ask /\ turn'.started = turn.started
      /\ reply'.index = 0 /\ reply'.open = FALSE
  BY DEF ReplyInv, TurnOK, NoTurn, ReplyAccountPicked, FreshReply
<1>2. heard' = IF turn.ask.stream THEN heard \o <<e>> ELSE heard
  BY DEF ReplyAccountPicked, Tell
<1>3. e.ev = "in_progress" /\ e.index = -1 /\ e.content = <<>>
  BY DEF Say
<1> HIDE DEF e
<1>4. /\ ~turn.started /\ \A i \in DOMAIN heard : heard[i].content = <<>>
      /\ turn.ask.stream => Items(heard, 0, FALSE)
      /\ ~turn.ask.stream => heard = <<>>
  BY <1>1 DEF ReplyInv, TurnHeard
<1>5. CASE ~turn.ask.stream
  <2>1. heard' = <<>>
    BY <1>2, <1>4, <1>5
  <2> QED
    BY <1>1, <1>5, <2>1, NothingHeard DEF TurnHeard
<1>6. CASE turn.ask.stream
  <2>1. IsHistory(heard) /\ heard' = Append(heard, e)
    BY <1>2, <1>4, <1>6, Together1, Together3, Together5 DEF Items
  <2>2. Items(heard', 0, FALSE)
    BY <1>3, <1>4, <1>6, <2>1, ItemAppended
  <2>3. Heard(heard')
    BY <2>2, ItemsAreHeard
  <2>4. \A i \in DOMAIN heard' : heard'[i].content = <<>>
    <3>1. /\ DOMAIN heard' = 1..Len(heard) + 1 /\ Len(heard) \in Nat /\ DOMAIN heard = 1..Len(heard)
          /\ heard'[Len(heard) + 1] = e /\ \A i \in 1..Len(heard) : heard'[i] = heard[i]
      BY <2>1, HistoryAppend
    <3>2. \A i \in DOMAIN heard' : i \in 1..Len(heard) \/ i = Len(heard) + 1
      BY <3>1
    <3> QED
      BY <1>3, <1>4, <3>1, <3>2
  <2>5. Speaks(heard', turn'.attempt)
    BY <2>4 DEF Speaks
  <2> QED
    BY <1>1, <1>6, <2>2, <2>3, <2>4, <2>5 DEF TurnHeard
<1> QED
  BY <1>5, <1>6

(* The turn ends without an answer, or with one.                           *)
LEMMA TurnFails ==
    ASSUME ReplyInv, turn.at \in {"pick", "call"}, turn'.at = "failed", turn'.attempt = turn.attempt,
           Tell(<<Say("failed", -1, <<>>)>>)
    PROVE  TurnHeard'
<1> DEFINE e == Say("failed", -1, <<>>)
<1>1. heard' = IF turn.ask.stream THEN heard \o <<e>> ELSE heard
  BY DEF Tell
<1>2. e.ev = "failed" /\ e.index = -1 /\ e.content = <<>>
  BY DEF Say
<1> HIDE DEF e
<1>3. Heard(heard) /\ Speaks(heard, turn.attempt)
  BY DEF ReplyInv, TurnHeard
<1>4. CASE ~turn.ask.stream
  BY <1>1, <1>3, <1>4 DEF TurnHeard
<1>5. CASE turn.ask.stream
  <2>1. PICK n, open : Items(heard, n, open)
    BY <1>5 DEF ReplyInv, TurnHeard
  <2>2. IsHistory(heard) /\ heard' = Append(heard, e)
    BY <1>1, <1>5, <2>1, Together1, Together3, Together5 DEF Items
  <2>3. Heard(heard')
    BY <1>2, <2>1, <2>2, TurnEnds
  <2>4. Speaks(heard', turn'.attempt)
    BY <1>2, <1>3, <2>2, SpeaksAppend
  <2> QED
    BY <2>3, <2>4 DEF TurnHeard
<1> QED
  BY <1>4, <1>5

(* A piece of text goes to the message that is open, or opens one.         *)
LEMMA StepText == ReplyInv /\ ReplyText => TurnHeard'
<1> SUFFICES ASSUME ReplyInv, ReplyText
             PROVE  TurnHeard'
  OBVIOUS
<1>1. PICK piece \in TextPieces :
         /\ Tell(MessageStarts \o <<Say("delta", reply.index, <<piece>>)>>)
         /\ reply' = [reply EXCEPT !.text = Append(@, piece), !.open = TRUE]
  BY DEF ReplyText
<1> DEFINE at == reply.index
           a == Say("item_added", at, <<>>)
           b == Say("part_added", at, <<>>)
           d == Say("delta", at, <<piece>>)
<1>2. /\ turn.at = "call" /\ turn'.at = "call" /\ turn'.started = TRUE
      /\ turn'.ask = turn.ask /\ turn'.attempt = turn.attempt
      /\ reply'.index = at /\ reply'.open = TRUE
  BY <1>1 DEF ReplyText, ReplyInv, TurnOK, NoTurn, FreshReply
<1>3. /\ a.ev = "item_added" /\ a.index = at /\ a.attempt = turn.attempt
      /\ b.ev = "part_added" /\ b.index = at /\ b.attempt = turn.attempt
      /\ d.ev = "delta" /\ d.index = at /\ d.attempt = turn.attempt
  BY DEF Say
<1>4. heard' = IF turn.ask.stream
               THEN heard \o ((IF reply.open THEN <<>> ELSE <<a, b>>) \o <<d>>) ELSE heard
  BY <1>1 DEF Tell, MessageStarts
<1>5. /\ Heard(heard) /\ Speaks(heard, turn.attempt) /\ (~turn.ask.stream => heard = <<>>)
      /\ turn.ask.stream => Items(heard, at, reply.open)
  BY <1>2 DEF ReplyInv, TurnHeard
<1> HIDE DEF a, b, d, at
<1>6. CASE ~turn.ask.stream
  BY <1>2, <1>4, <1>5, <1>6 DEF TurnHeard
<1>7. CASE turn.ask.stream
  <2>1. IsHistory(heard)
    BY <1>5, <1>7 DEF Items
  <2>2. Items(heard', at, TRUE) /\ Speaks(heard', turn.attempt)
    <3>1. CASE reply.open
      <4>1. heard' = Append(heard, d)
        BY <1>4, <1>7, <2>1, <3>1, Together1, Together3, Together5
      <4>2. Items(Append(heard, d), at, TRUE)
        BY <1>3, <1>5, <1>7, <3>1, ItemAppended
      <4> QED
        BY <1>3, <1>5, <2>1, <4>1, <4>2, SpeaksAppend
    <3>2. CASE ~reply.open
      <4> DEFINE h == Append(heard, a)
                 k == Append(h, b)
      <4>1. heard' = Append(k, d)
        BY <1>4, <1>7, <2>1, <3>2, Together1, Together3, Together5
      <4>2. Items(h, at, TRUE)
        BY <1>3, <1>5, <1>7, <3>2, ItemAppended
      <4>3. Speaks(h, turn.attempt)
        BY <1>3, <1>5, <2>1, SpeaksAppend
      <4> HIDE DEF h
      <4>4. IsHistory(h)
        BY <4>2 DEF Items
      <4>5. Items(k, at, TRUE)
        BY <1>3, <4>2, ItemAppended
      <4>6. Speaks(k, turn.attempt)
        BY <1>3, <4>3, <4>4, SpeaksAppend
      <4> HIDE DEF k
      <4>7. IsHistory(k)
        BY <4>5 DEF Items
      <4>8. Items(heard', at, TRUE)
        BY <1>3, <4>1, <4>5, ItemAppended
      <4>9. Speaks(heard', turn.attempt)
        BY <1>3, <4>1, <4>6, <4>7, SpeaksAppend
      <4> QED
        BY <4>8, <4>9
    <3> QED
      BY <3>1, <3>2
  <2>3. Heard(heard')
    BY <2>2, ItemsAreHeard
  <2> QED
    BY <1>2, <1>7, <2>2, <2>3 DEF TurnHeard
<1> QED
  BY <1>6, <1>7

(* The message that is open is finished, if there is one.                  *)
Finished(q, content) ==
    IF reply.open
    THEN Append(Append(q, Say("part_done", reply.index, content)), Say("item_done", reply.index, content))
    ELSE q

(* What a client hears after it.                                           *)
LEMMA MessageThen ==
    ASSUME NEW q, NEW content, IsHistory(q), NEW e
    PROVE  q \o (MessageDone(content) \o <<e>>) = Append(Finished(q, content), e)
<1>1. CASE reply.open
  BY <1>1, Together3 DEF MessageDone, Finished
<1>2. CASE ~reply.open
  BY <1>2, Together1 DEF MessageDone, Finished
<1> QED
  BY <1>1, <1>2

(* A tool after it.                                                        *)
LEMMA MessageThenTool ==
    ASSUME NEW q, NEW content, IsHistory(q), NEW c, NEW d, NEW e
    PROVE  q \o (MessageDone(content) \o <<c, d, e>>) =
             Append(Append(Append(Finished(q, content), c), d), e)
<1>1. CASE reply.open
  BY <1>1, Together5 DEF MessageDone, Finished
<1>2. CASE ~reply.open
  BY <1>2, Together3 DEF MessageDone, Finished
<1> QED
  BY <1>1, <1>2

(* It is one more item that is over, said by the same attempt.             *)
LEMMA MessageFinishes ==
    ASSUME NEW q, NEW content, Items(q, reply.index, reply.open), Speaks(q, turn.attempt)
    PROVE  /\ Items(Finished(q, content), IF reply.open THEN reply.index + 1 ELSE reply.index, FALSE)
           /\ Speaks(Finished(q, content), turn.attempt)
<1> DEFINE at == reply.index
           a == Say("part_done", at, content)
           b == Say("item_done", at, content)
<1>1. /\ a.ev = "part_done" /\ a.index = at /\ a.attempt = turn.attempt
      /\ b.ev = "item_done" /\ b.index = at /\ b.attempt = turn.attempt
  BY DEF Say
<1>2. Finished(q, content) = IF reply.open THEN Append(Append(q, a), b) ELSE q
  BY DEF Finished
<1>3. IsHistory(q)
  BY DEF Items
<1> HIDE DEF at, a, b
<1>4. CASE ~reply.open
  <2>1. reply.open = FALSE
    BY <1>4 DEF Items
  <2>2. Finished(q, content) = q
    BY <1>2, <1>4
  <2> QED
    BY <2>1, <2>2
<1>5. CASE reply.open
  <2> DEFINE h == Append(q, a)
             k == Append(h, b)
  <2>1. Items(h, at, TRUE)
    BY <1>1, <1>5, ItemAppended DEF at
  <2>2. Speaks(h, turn.attempt)
    BY <1>1, <1>3, SpeaksAppend
  <2> HIDE DEF h
  <2>3. Items(k, at + 1, FALSE)
    BY <1>1, <2>1, ItemAppended
  <2>4. Speaks(k, turn.attempt)
    <3>1. IsHistory(h)
      BY <2>1 DEF Items
    <3> QED
      BY <1>1, <2>2, <3>1, SpeaksAppend
  <2>5. Items(k, IF reply.open THEN reply.index + 1 ELSE reply.index, FALSE)
    BY <1>5, <2>3 DEF at
  <2>6. Finished(q, content) = k
    BY <1>2, <1>5 DEF h
  <2> HIDE DEF k
  <2> QED
    BY <2>4, <2>5, <2>6
<1> QED
  BY <1>4, <1>5

(* A tool is an item of its own, after the message before it.              *)
LEMMA StepTool == ReplyInv /\ ReplyTool => TurnHeard'
<1> SUFFICES ASSUME ReplyInv, ReplyTool
             PROVE  TurnHeard'
  OBVIOUS
<1> DEFINE at == IF reply.open THEN reply.index + 1 ELSE reply.index
           c == Say("item_added", at, <<>>)
           d == Say("arguments_delta", at, <<pieces>>)
           e == Say("item_done", at, <<pieces>>)
<1>1. /\ turn.at = "call" /\ turn'.at = "call" /\ turn'.started = TRUE
      /\ turn'.ask = turn.ask /\ turn'.attempt = turn.attempt
      /\ reply'.index = at + 1 /\ reply'.open = FALSE
  BY DEF ReplyTool, ReplyInv, TurnOK, NoTurn, FreshReply
<1>2. /\ c.ev = "item_added" /\ c.index = at /\ c.attempt = turn.attempt
      /\ d.ev = "arguments_delta" /\ d.index = at /\ d.attempt = turn.attempt
      /\ e.ev = "item_done" /\ e.index = at /\ e.attempt = turn.attempt
  BY DEF Say
<1>3. heard' = IF turn.ask.stream THEN heard \o (MessageDone(reply.text) \o <<c, d, e>>) ELSE heard
  BY DEF ReplyTool, Tell
<1>4. /\ Heard(heard) /\ Speaks(heard, turn.attempt) /\ (~turn.ask.stream => heard = <<>>)
      /\ turn.ask.stream => Items(heard, reply.index, reply.open)
  BY <1>1 DEF ReplyInv, TurnHeard
<1>5. CASE ~turn.ask.stream
  <2> HIDE DEF at, c, d, e
  <2> QED
    BY <1>1, <1>3, <1>4, <1>5 DEF TurnHeard
<1>6. CASE turn.ask.stream
  <2> DEFINE h == Finished(heard, reply.text)
  <2>1. /\ heard \o (MessageDone(reply.text) \o <<c, d, e>>) = Append(Append(Append(h, c), d), e)
        /\ Items(h, at, FALSE) /\ Speaks(h, turn.attempt)
    <3> HIDE DEF c, d, e
    <3>1. Items(h, at, FALSE) /\ Speaks(h, turn.attempt)
      BY <1>4, <1>6, MessageFinishes
    <3>2. heard \o (MessageDone(reply.text) \o <<c, d, e>>) = Append(Append(Append(h, c), d), e)
      <4>1. IsHistory(heard)
        BY <1>4, <1>6 DEF Items
      <4> QED
        BY <4>1, MessageThenTool
    <3> QED
      BY <3>1, <3>2
  <2> HIDE DEF h
  <2> HIDE DEF at, c, d, e
  <2> DEFINE h1 == Append(h, c)
             h2 == Append(h1, d)
             h3 == Append(h2, e)
  <2>2. heard' = h3
    BY <1>3, <1>6, <2>1
  <2>3. Items(h1, at, TRUE) /\ Speaks(h1, turn.attempt)
    <3>1. IsHistory(h)
      BY <2>1 DEF Items
    <3> QED
      BY <1>2, <2>1, <3>1, ItemAppended, SpeaksAppend
  <2> HIDE DEF h1
  <2>4. Items(h2, at, TRUE) /\ Speaks(h2, turn.attempt)
    <3>1. IsHistory(h1)
      BY <2>3 DEF Items
    <3> QED
      BY <1>2, <2>3, <3>1, ItemAppended, SpeaksAppend
  <2> HIDE DEF h2
  <2>5. Items(h3, at + 1, FALSE) /\ Speaks(h3, turn.attempt)
    <3>1. IsHistory(h2)
      BY <2>4 DEF Items
    <3> QED
      BY <1>2, <2>4, <3>1, ItemAppended, SpeaksAppend
  <2> HIDE DEF h3
  <2>6. Heard(heard')
    BY <2>2, <2>5, ItemsAreHeard
  <2> QED
    BY <1>1, <1>6, <2>2, <2>5, <2>6 DEF TurnHeard
<1> QED
  BY <1>5, <1>6

(* An attempt breaks: the turn fails with it, or nothing was said.         *)
LEMMA StepBreaks == ReplyInv /\ ReplyBreaks => TurnHeard'
<1> SUFFICES ASSUME ReplyInv, ReplyBreaks
             PROVE  TurnHeard'
  OBVIOUS
<1>1. turn.at = "call"
  BY DEF ReplyBreaks
<1>2. CASE turn.ask.stream /\ turn.started
  <2>1. turn'.at = "failed" /\ turn'.attempt = turn.attempt /\ Tell(<<Say("failed", -1, <<>>)>>)
    BY <1>2 DEF ReplyBreaks, ReplyInv, TurnOK, NoTurn
  <2> QED
    BY <1>1, <2>1, TurnFails
<1>3. CASE ~(turn.ask.stream /\ turn.started)
  <2>1. /\ turn'.at = "pick" /\ turn'.started = FALSE /\ turn'.ask = turn.ask
        /\ turn'.attempt = turn.attempt /\ heard' = heard
    BY <1>3 DEF ReplyBreaks, ReplyInv, TurnOK, NoTurn
  <2>2. /\ Heard(heard) /\ Speaks(heard, turn.attempt) /\ (~turn.ask.stream => heard = <<>>)
    BY <1>1 DEF ReplyInv, TurnHeard
  <2>3. CASE turn.ask.stream
    <3>1. /\ Items(heard, reply.index, reply.open) /\ ~turn.started
          /\ reply.index = 0 /\ ~reply.open /\ \A i \in DOMAIN heard : heard[i].content = <<>>
      BY <1>1, <1>3, <2>3 DEF ReplyInv, TurnHeard
    <3>2. reply.open = FALSE
      BY <3>1 DEF Items
    <3>3. Items(heard, 0, FALSE)
      BY <3>1, <3>2
    <3> QED
      BY <2>1, <2>2, <3>1, <3>3 DEF TurnHeard
  <2>4. CASE ~turn.ask.stream
    <3>1. heard = <<>> /\ DOMAIN heard = {}
      BY <2>2, <2>4
    <3> QED
      BY <2>1, <2>2, <2>4, <3>1 DEF TurnHeard
  <2> QED
    BY <2>3, <2>4
<1> QED
  BY <1>2, <1>3

(* The answer is complete: the message is over, and then the turn.         *)
LEMMA StepCompletes == ReplyInv /\ ReplyCompletes => TurnHeard'
<1> SUFFICES ASSUME ReplyInv, ReplyCompletes
             PROVE  TurnHeard'
  OBVIOUS
<1>1. PICK content, all :
         Tell(MessageDone(content) \o <<Say("completed", -1, all)>>)
  BY DEF ReplyCompletes
<1> DEFINE e == Say("completed", -1, all)
<1>2. turn.at = "call" /\ turn'.at = "completed" /\ turn'.attempt = turn.attempt
  BY DEF ReplyCompletes, ReplyInv, TurnOK, NoTurn
<1>3. e.ev = "completed" /\ e.index = -1 /\ e.attempt = turn.attempt
  BY DEF Say
<1>4. heard' = IF turn.ask.stream THEN heard \o (MessageDone(content) \o <<e>>) ELSE heard
  BY <1>1 DEF Tell
<1> HIDE DEF e
<1>5. /\ Heard(heard) /\ Speaks(heard, turn.attempt)
      /\ turn.ask.stream => Items(heard, reply.index, reply.open)
  BY <1>2 DEF ReplyInv, TurnHeard
<1>6. CASE ~turn.ask.stream
  BY <1>2, <1>4, <1>5, <1>6 DEF TurnHeard
<1>7. CASE turn.ask.stream
  <2> DEFINE n == IF reply.open THEN reply.index + 1 ELSE reply.index
  <2> DEFINE h == Finished(heard, content)
  <2>1. /\ heard \o (MessageDone(content) \o <<e>>) = Append(h, e)
        /\ Items(h, n, FALSE) /\ Speaks(h, turn.attempt)
    <3>1. Items(h, n, FALSE) /\ Speaks(h, turn.attempt)
      BY <1>5, <1>7, MessageFinishes
    <3>2. heard \o (MessageDone(content) \o <<e>>) = Append(h, e)
      <4>1. IsHistory(heard)
        BY <1>5, <1>7 DEF Items
      <4> QED
        BY <4>1, MessageThen
    <3> QED
      BY <3>1, <3>2
  <2> HIDE DEF h
  <2> HIDE DEF n
  <2>2. Heard(Append(h, e))
    BY <1>3, <2>1, TurnEnds
  <2>3. Speaks(Append(h, e), turn.attempt)
    <3>1. IsHistory(h)
      BY <2>1 DEF Items
    <3> QED
      BY <1>3, <2>1, <3>1, SpeaksAppend
  <2> QED
    BY <1>2, <1>4, <1>7, <2>1, <2>2, <2>3 DEF TurnHeard
<1> QED
  BY <1>6, <1>7

(* Every step keeps the invariant.                                         *)
LEMMA RepliesStep ==
    ASSUME ReplyInv, [ResponsesNext]_replyVars
    PROVE  ReplyInv'
<1>1. TurnOK' /\ DocsOK'
  BY StepTurn
<1>2. TurnHeard'
  <2>1. CASE UNCHANGED replyVars
    BY <2>1 DEF replyVars, ReplyInv, TurnHeard
  <2>2. CASE TurnBegins
    BY <2>2, StepTurnBegins
  <2>3. CASE ReplyAccountPicked
    BY <2>3, StepAccountPicked
  <2>4. CASE ReplyTokenFails
    <3>1. /\ turn.at = "pick" /\ turn'.at = "pick" /\ turn'.started = turn.started
          /\ turn'.ask = turn.ask /\ heard' = heard
      BY <2>4 DEF ReplyTokenFails, ReplyInv, TurnOK, NoTurn
    <3>2. Speaks(heard, turn'.attempt)
      BY <3>1 DEF ReplyInv, TurnHeard, Speaks
    <3> QED
      BY <3>1, <3>2 DEF ReplyInv, TurnHeard
  <2>5. CASE ReplyGivesUp
    <3>1. /\ turn.at = "pick" /\ turn'.at = "failed" /\ turn'.attempt = turn.attempt
          /\ Tell(<<Say("failed", -1, <<>>)>>)
      BY <2>5 DEF ReplyGivesUp, ReplyInv, TurnOK, NoTurn
    <3> QED
      BY <3>1, TurnFails
  <2>6. CASE ReplyText
    BY <2>6, StepText
  <2>7. CASE ReplyTool
    BY <2>7, StepTool
  <2>8. CASE ReplyBreaks
    BY <2>8, StepBreaks
  <2>9. CASE ReplyCompletes
    BY <2>9, StepCompletes
  <2>10. CASE DayPasses
    BY <2>10 DEF DayPasses, ReplyInv, TurnHeard
  <2>11. CASE ResponsesPurged
    BY <2>11 DEF ResponsesPurged, ReplyInv, TurnHeard
  <2> QED
    BY <2>1, <2>2, <2>3, <2>4, <2>5, <2>6, <2>7, <2>8, <2>9, <2>10, <2>11 DEF ResponsesNext
<1> QED
  BY <1>1, <1>2 DEF ReplyInv

(* The invariant of the turns holds throughout.                            *)
LEMMA RepliesHold == ResponsesSpec => []ReplyInv
<1>1. ResponsesInit => ReplyInv
  BY RepliesStart
<1>2. ReplyInv /\ [ResponsesNext]_replyVars => ReplyInv'
  BY RepliesStep
<1> QED
  BY <1>1, <1>2, PTL DEF ResponsesSpec

(* Whatever account attempts fail, the output a streaming client receives  *)
(* is the output of one attempt, and so is the response that completes it. *)
THEOREM RepliesAreOfOneAttempt == ResponsesSpec => []ReplyFromOneAttempt
<1>1. ReplyInv => ReplyFromOneAttempt
  BY OneSpeaks DEF ReplyInv, TurnHeard
<1> QED
  BY <1>1, RepliesHold, PTL

(* The items a streaming client assembles are numbered from 0, one at a    *)
(* time, everything said of an item lies between its beginning and its     *)
(* end, a completed turn leaves none open, and nothing follows its end.    *)
THEOREM ItemsNest == ResponsesSpec => []ItemsWellFormed
<1>1. ReplyInv => ItemsWellFormed
  BY HeardIsWellFormed DEF ReplyInv, TurnHeard
<1> QED
  BY <1>1, RepliesHold, PTL

(* A streaming client of the Responses API assembles one well-formed reply *)
(* whatever account attempts fail.                                         *)
THEOREM RepliesAreWhole == ResponsesSpec => []OneWellFormedReply
BY RepliesAreOfOneAttempt, ItemsNest, PTL DEF OneWellFormedReply

(* Turns and documents have their types, and a stored document belongs to  *)
(* a turn that was completed and asked for it.                             *)
THEOREM ResponsesTypes == ResponsesSpec => []ResponsesTypeOK
<1>1. ReplyInv => ResponsesTypeOK
  BY DEF ReplyInv, TurnOK, DocsOK, ResponsesTypeOK
<1> QED
  BY <1>1, RepliesHold, PTL

-----------------------------------------------------------------------------

(***************************************************************************)
(* Sequences put together.                                                 *)
(***************************************************************************)
(* f is the function of the first i sequences of q put together.           *)
IsFlat(f, q, n) == f = [i \in 1..n |-> IF i = 1 THEN q[i] ELSE f[i - 1] \o q[i]]

(* Such a function exists, by induction on their number.                   *)
LEMMA FlatExists ==
    ASSUME NEW S, NEW q, NEW n \in Nat, \A i \in 1..n : q[i] \in Seq(S)
    PROVE  \E f \in [1..n -> Seq(S)] : IsFlat(f, q, n)
<1> DEFINE Good(k) == \E f \in [1..k -> Seq(S)] : IsFlat(f, q, k)
           T == {k \in 0..n : ~Good(k)}
<1> SUFFICES ASSUME T # {}
             PROVE  FALSE
  OBVIOUS
<1>1. PICK m \in T : \A k \in T : m <= k
  <2>1. T \subseteq Nat
    OBVIOUS
  <2> HIDE DEF T
  <2> QED
    BY <2>1, LeastNatural, Zenon
<1>2. m # 0
  <2>1. IsFlat([i \in 1..0 |-> <<>>], q, 0)
    BY DEF IsFlat
  <2>2. [i \in 1..0 |-> <<>>] \in [1..0 -> Seq(S)]
    OBVIOUS
  <2>3. Good(0)
    BY <2>1, <2>2
  <2> QED
    BY <2>3
<1>3. m \in 1..n /\ Good(m - 1)
  BY <1>1, <1>2
<1>4. PICK f \in [1..m - 1 -> Seq(S)] : IsFlat(f, q, m - 1)
  BY <1>3
<1> DEFINE last == IF m = 1 THEN q[m] ELSE f[m - 1] \o q[m]
           g == [i \in 1..m |-> IF i = m THEN last ELSE f[i]]
<1>5. last \in Seq(S)
  <2>1. q[m] \in Seq(S)
    BY <1>3
  <2>2. CASE m = 1
    BY <2>1, <2>2
  <2>3. CASE m # 1
    <3>1. m - 1 \in 1..m - 1
      BY <1>3, <2>3
    <3>2. f[m - 1] \in Seq(S)
      BY <1>4, <3>1
    <3>3. f[m - 1] \o q[m] \in Seq(S)
      BY <2>1, <3>2, ConcatProperties
    <3> QED
      BY <2>3, <3>3
  <2> QED
    BY <2>2, <2>3
<1>6. g \in [1..m -> Seq(S)]
  <2> HIDE DEF last
  <2> QED
    BY <1>3, <1>4, <1>5
<1>7. IsFlat(g, q, m)
  <2>1. ASSUME NEW i \in 1..m
        PROVE  g[i] = IF i = 1 THEN q[i] ELSE g[i - 1] \o q[i]
    <3>1. CASE i = m
      <4>1. i # 1 => i - 1 \in 1..m /\ i - 1 # m
        BY <1>3, <3>1
      <4> QED
        BY <3>1, <4>1
    <3>2. CASE i # m
      <4>1. i \in 1..m - 1
        BY <1>3, <3>2
      <4>2. g[i] = f[i]
        BY <3>2
      <4>3. f[i] = IF i = 1 THEN q[i] ELSE f[i - 1] \o q[i]
        BY <1>4, <4>1 DEF IsFlat
      <4>4. i # 1 => i - 1 \in 1..m /\ i - 1 # m
        BY <1>3, <4>1
      <4>5. i # 1 => g[i - 1] = f[i - 1]
        BY <4>4
      <4> HIDE DEF g
      <4> QED
        BY <4>2, <4>3, <4>5
    <3> QED
      BY <3>1, <3>2
  <2>2. g = [i \in 1..m |-> g[i]]
    OBVIOUS
  <2> HIDE DEF g
  <2> QED
    BY <2>1, <2>2 DEF IsFlat
<1> QED
  <2>1. Good(m)
    BY <1>6, <1>7
  <2> QED
    BY <1>1, <2>1

(* Sequences over a set, put together, are one over that set.              *)
LEMMA FlattenTypes ==
    ASSUME NEW S, NEW q \in Seq(Seq(S))
    PROVE  FlattenSeq(q) \in Seq(S)
<1> DEFINE n == Len(q)
<1>1. n \in Nat /\ \A i \in 1..n : q[i] \in Seq(S)
  BY LenProperties, ElementOfSeq
<1>2. CASE n = 0
  <2>1. q = <<>>
    BY <1>2, EmptySeq
  <2>2. FlattenSeq(q) = q
    BY <1>2 DEF FlattenSeq
  <2> QED
    BY <2>1, <2>2, EmptySeq
<1>3. CASE n # 0
  <2> DEFINE flat == CHOOSE f : IsFlat(f, q, n)
  <2>1. IsFlat(flat, q, n)
    BY <1>1, FlatExists
  <2>2. FlattenSeq(q) = flat[n]
    BY <1>3 DEF FlattenSeq, IsFlat
  <2> HIDE DEF flat
  <2> DEFINE T == {k \in 1..n : flat[k] \notin Seq(S)}
  <2>3. ASSUME T # {}
        PROVE  FALSE
    <3>1. PICK m \in T : \A k \in T : m <= k
      <4>1. T \subseteq Nat
        OBVIOUS
      <4> HIDE DEF T
      <4> QED
        BY <2>3, <4>1, LeastNatural, Zenon
    <3>2. m \in 1..n /\ q[m] \in Seq(S)
      BY <1>1
    <3>3. flat[m] = IF m = 1 THEN q[m] ELSE flat[m - 1] \o q[m]
      BY <2>1, <3>2 DEF IsFlat
    <3>4. CASE m = 1
      BY <3>2, <3>3, <3>4
    <3>5. CASE m # 1
      <4>1. m - 1 \in 1..n /\ ~(m <= m - 1)
        BY <1>1, <3>2, <3>5
      <4>2. flat[m - 1] \in Seq(S)
        BY <3>1, <4>1
      <4>3. flat[m - 1] \o q[m] \in Seq(S)
        BY <3>2, <4>2, ConcatProperties
      <4> QED
        BY <3>3, <3>5, <4>3
    <3> QED
      BY <3>4, <3>5
  <2>4. n \in 1..n
    BY <1>1, <1>3
  <2> QED
    BY <2>2, <2>3, <2>4
<1> QED
  BY <1>2, <1>3

(* As it is used: one sequence made for each element of another one.       *)
LEMMA FlattenEach ==
    ASSUME NEW S, NEW n \in Nat, NEW g, \A i \in 1..n : g[i] \in Seq(S),
           g = [i \in 1..n |-> g[i]]
    PROVE  FlattenSeq(g) \in Seq(S)
<1>1. g \in Seq(Seq(S))
  <2>1. g \in [1..n -> Seq(S)]
    OBVIOUS
  <2> QED
    BY <2>1, SeqDef
<1> QED
  BY <1>1, FlattenTypes

(***************************************************************************)
(* Blocks and breakpoints.                                                 *)
(***************************************************************************)
Kinds == STRING \cup {"prelude", "tool", "system"}
Contents == [kind : Kinds, of : STRING]
CacheBlocks == [content : Contents, tokens : Nat, ttl : {0, 5, 60}, ends : BOOLEAN]

(* A sequence of one.                                                      *)
LEMMA OneSequence ==
    ASSUME NEW S, NEW e \in S
    PROVE  <<e>> \in Seq(S)
OBVIOUS

(* One block.                                                              *)
LEMMA CacheBlockTypes ==
    ASSUME NEW kind \in Kinds, NEW block \in PromptBlocksIn, NEW last \in BOOLEAN
    PROVE  CacheBlock(kind, block, last) \in CacheBlocks
<1>1. BlockTTL(block) \in {0, 5, 60}
  BY DEF BlockTTL, PromptBlocksIn
<1> QED
  BY <1>1 DEF CacheBlock, Canonical, CacheBlocks, Contents, PromptBlocksIn

(* The blocks of the system prompt, or of a message.                       *)
LEMMA PromptBlocksTypes ==
    ASSUME NEW kind \in Kinds, NEW blocks \in Seq(PromptBlocksIn)
    PROVE  PromptBlocks(kind, blocks) \in Seq(CacheBlocks)
<1> DEFINE last(i) == kind \in {"user", "assistant"} /\ i = Len(blocks)
           each == [i \in DOMAIN blocks |->
                      IF blocks[i].header THEN <<>>
                      ELSE <<CacheBlock(kind, blocks[i], kind \in {"user", "assistant"} /\ i = Len(blocks))>>]
<1>1. Len(blocks) \in Nat /\ DOMAIN blocks = 1..Len(blocks)
  BY LenProperties
<1>2. ASSUME NEW i \in 1..Len(blocks)
      PROVE  each[i] \in Seq(CacheBlocks)
  <2>1. blocks[i] \in PromptBlocksIn
    BY ElementOfSeq
  <2>2. CacheBlock(kind, blocks[i], last(i)) \in CacheBlocks
    BY <2>1, CacheBlockTypes
  <2>3. <<CacheBlock(kind, blocks[i], last(i))>> \in Seq(CacheBlocks)
    BY <2>2
  <2>4. <<>> \in Seq(CacheBlocks)
    BY EmptySeq
  <2> QED
    BY <1>1, <2>3, <2>4
<1>3. each = [i \in 1..Len(blocks) |-> each[i]]
  BY <1>1
<1> HIDE DEF each
<1>4. FlattenSeq(each) \in Seq(CacheBlocks)
  BY <1>1, <1>2, <1>3, FlattenEach
<1> QED
  BY <1>4 DEF PromptBlocks, each

(* The blocks of a prompt.                                                 *)
LEMMA BlocksTypes ==
    ASSUME NEW prompt \in Prompts
    PROVE  Blocks(prompt) \in Seq(CacheBlocks)
<1>1. /\ prompt.tools \in Seq(PromptBlocksIn) /\ prompt.system \in Seq(PromptBlocksIn)
      /\ prompt.messages \in Seq([role : STRING, blocks : Seq(PromptBlocksIn)])
      /\ prompt.prelude \in STRING
  BY PromptCacheAssumption
<1> DEFINE plain == [type |-> "none", form |-> "none", minutes |-> 0]
           prelude == [of |-> prompt.prelude, tokens |-> 0, header |-> FALSE, control |-> plain]
           first == <<CacheBlock("prelude", prelude, FALSE)>>
           tools == [i \in DOMAIN prompt.tools |-> CacheBlock("tool", prompt.tools[i], FALSE)]
           system == PromptBlocks("system", prompt.system)
           each == [i \in DOMAIN prompt.messages |->
                      PromptBlocks(prompt.messages[i].role, prompt.messages[i].blocks)]
<1>2. first \in Seq(CacheBlocks)
  <2>1. prelude \in PromptBlocksIn
    BY <1>1 DEF PromptBlocksIn
  <2>2. "prelude" \in Kinds
    BY DEF Kinds
  <2> HIDE DEF prelude
  <2>3. CacheBlock("prelude", prelude, FALSE) \in CacheBlocks
    BY <2>1, <2>2, CacheBlockTypes
  <2> QED
    BY <2>3, OneSequence
<1>3. tools \in Seq(CacheBlocks)
  <2>1. Len(prompt.tools) \in Nat /\ DOMAIN prompt.tools = 1..Len(prompt.tools)
    BY <1>1, LenProperties
  <2>2. \A i \in 1..Len(prompt.tools) : CacheBlock("tool", prompt.tools[i], FALSE) \in CacheBlocks
    <3>1. TAKE i \in 1..Len(prompt.tools)
    <3>2. prompt.tools[i] \in PromptBlocksIn
      BY <1>1, ElementOfSeq
    <3>3. "tool" \in Kinds
      BY DEF Kinds
    <3> QED
      BY <3>2, <3>3, CacheBlockTypes
  <2>3. tools \in [1..Len(prompt.tools) -> CacheBlocks]
    BY <2>1, <2>2
  <2> HIDE DEF tools
  <2> QED
    BY <2>1, <2>3, SeqDef
<1>4. system \in Seq(CacheBlocks)
  <2>1. "system" \in Kinds
    BY DEF Kinds
  <2> QED
    BY <1>1, <2>1, PromptBlocksTypes
<1>5. FlattenSeq(each) \in Seq(CacheBlocks)
  <2>1. Len(prompt.messages) \in Nat /\ DOMAIN prompt.messages = 1..Len(prompt.messages)
    BY <1>1, LenProperties
  <2>2. ASSUME NEW i \in 1..Len(prompt.messages)
        PROVE  each[i] \in Seq(CacheBlocks)
    <3>1. prompt.messages[i] \in [role : STRING, blocks : Seq(PromptBlocksIn)]
      BY <1>1, ElementOfSeq
    <3>2. prompt.messages[i].role \in Kinds
      BY <3>1 DEF Kinds
    <3>3. PromptBlocks(prompt.messages[i].role, prompt.messages[i].blocks) \in Seq(CacheBlocks)
      BY <3>1, <3>2, PromptBlocksTypes
    <3> QED
      BY <2>1, <3>3
  <2>3. each = [i \in 1..Len(prompt.messages) |-> each[i]]
    BY <2>1
  <2> HIDE DEF each
  <2> QED
    BY <2>1, <2>2, <2>3, FlattenEach
<1>6. Blocks(prompt) = ((first \o tools) \o system) \o FlattenSeq(each)
  BY DEF Blocks
<1> HIDE DEF first, tools, system, each
<1>7. first \o tools \in Seq(CacheBlocks)
  BY <1>2, <1>3, ConcatProperties
<1>8. (first \o tools) \o system \in Seq(CacheBlocks)
  BY <1>4, <1>7, ConcatProperties
<1>9. ((first \o tools) \o system) \o FlattenSeq(each) \in Seq(CacheBlocks)
  BY <1>5, <1>8, ConcatProperties
<1> QED
  BY <1>6, <1>9

(***************************************************************************)
(* Numbers.                                                                *)
(***************************************************************************)
(* A set of naturals within bounds has a greatest element.                 *)
LEMMA GreatestOf ==
    ASSUME NEW n \in Nat, NEW T, T \subseteq 0..n, T # {}
    PROVE  Max(T) \in T /\ \A k \in T : k <= Max(T)
<1> DEFINE R == {n - k : k \in T}
<1>1. R \subseteq Nat /\ R # {}
  <2>1. \A k \in T : k \in 0..n
    OBVIOUS
  <2>2. \A k \in T : n - k \in Nat
    BY <2>1
  <2>3. PICK k \in T : TRUE
    OBVIOUS
  <2>4. n - k \in R
    BY <2>3
  <2> QED
    BY <2>2, <2>4
<1>2. PICK m \in R : \A k \in R : m <= k
  <2> HIDE DEF R
  <2> QED
    BY <1>1, LeastNatural, Zenon
<1>3. n - m \in T /\ \A k \in T : k <= n - m
  <2>1. PICK k \in T : m = n - k
    BY <1>2
  <2>2. n - m = k
    BY <2>1
  <2>3. \A j \in T : m <= n - j
    BY <1>2
  <2>4. \A j \in T : j <= n - m
    BY <2>1, <2>3
  <2> QED
    BY <2>2, <2>4
<1>4. \E x \in T : \A y \in T : x >= y
  BY <1>3
<1>5. Max(T) \in T /\ \A y \in T : Max(T) >= y
  BY <1>4 DEF Max
<1> QED
  BY <1>5

(* Least and greatest elements, as the model uses them.                    *)
LEMMA LesserOfTwo ==
    ASSUME NEW a \in Int, NEW b \in Int
    PROVE  Min({a, b}) = IF a <= b THEN a ELSE b
BY DEF Min

LEMMA LeastOfThree ==
    ASSUME NEW a \in Int, NEW b \in Int, NEW c \in Int
    PROVE  /\ Min({a, b, c}) \in {a, b, c}
           /\ Min({a, b, c}) <= a /\ Min({a, b, c}) <= b /\ Min({a, b, c}) <= c
<1>1. \E x \in {a, b, c} : \A y \in {a, b, c} : x <= y
  OBVIOUS
<1>2. Min({a, b, c}) \in {a, b, c} /\ \A y \in {a, b, c} : Min({a, b, c}) <= y
  BY <1>1 DEF Min
<1> QED
  BY <1>2

LEMMA GreaterOfTwo ==
    ASSUME NEW a \in Int, NEW b \in Int
    PROVE  Max({a, b}) = IF a >= b THEN a ELSE b
BY DEF Max

(* A longer sum of naturals is not less.                                   *)
LEMMA SumUpToLonger ==
    ASSUME NEW f, NEW j \in Nat, NEW i \in 0..j, \A k \in 1..j : f[k] \in Nat
    PROVE  SumUpTo(f, i) <= SumUpTo(f, j)
<1>1. \A k \in i..j : SumUpTo(f, k) \in Nat
  BY SumUpToNat
<1> DEFINE T == {k \in i..j : ~(SumUpTo(f, i) <= SumUpTo(f, k))}
<1>2. ASSUME T # {}
      PROVE  FALSE
  <2>1. PICK m \in T : \A k \in T : m <= k
    <3>1. T \subseteq Nat
      OBVIOUS
    <3> HIDE DEF T
    <3> QED
      BY <1>2, <3>1, LeastNatural, Zenon
  <2>2. m \in i..j /\ ~(SumUpTo(f, i) <= SumUpTo(f, m))
    BY <2>1
  <2>3. m # i /\ i \in i..j
    BY <1>1, <2>2
  <2>4. m - 1 \in i..j /\ m - 1 \in Nat /\ ~(m <= m - 1)
    BY <2>2, <2>3
  <2>5. SumUpTo(f, i) <= SumUpTo(f, m - 1)
    BY <2>1, <2>4
  <2>6. SumUpTo(f, m - 1 + 1) = SumUpTo(f, m - 1) + f[m - 1 + 1]
    <3>1. \A k \in 1..m - 1 + 1 : f[k] \in Int
      BY <2>2
    <3> QED
      BY <2>4, <3>1, SumUpToNext
  <2>7. m - 1 + 1 = m /\ f[m] \in Nat
    BY <2>2, <2>4
  <2>8. /\ SumUpTo(f, i) \in Nat /\ SumUpTo(f, m - 1) \in Nat
        /\ SumUpTo(f, m) = SumUpTo(f, m - 1) + f[m]
    BY <1>1, <2>3, <2>4, <2>6, <2>7
  <2> QED
    BY <2>2, <2>5, <2>7, <2>8
<1>3. j \in i..j
  OBVIOUS
<1> QED
  BY <1>2, <1>3

(* The tokens of the first blocks.                                         *)
LEMMA TokensToGrows ==
    ASSUME NEW blocks \in Seq(CacheBlocks), NEW j \in 0..Len(blocks), NEW i \in 0..j
    PROVE  TokensTo(blocks, i) \in Nat /\ TokensTo(blocks, i) <= TokensTo(blocks, j)
<1> DEFINE f == [k \in DOMAIN blocks |-> blocks[k].tokens]
<1>1. Len(blocks) \in Nat /\ DOMAIN blocks = 1..Len(blocks)
  BY LenProperties
<1>2. \A k \in 1..Len(blocks) : f[k] \in Nat
  <2>1. TAKE k \in 1..Len(blocks)
  <2>2. blocks[k] \in CacheBlocks
    BY ElementOfSeq
  <2> QED
    BY <1>1, <2>2 DEF CacheBlocks
<1> HIDE DEF f
<1>3. i \in Nat /\ j \in Nat /\ \A k \in 1..j : f[k] \in Nat
  BY <1>1, <1>2
<1>4. \A k \in 1..i : f[k] \in Nat
  BY <1>1, <1>2
<1>5. SumUpTo(f, i) \in Nat
  BY <1>3, <1>4, SumUpToNat
<1>6. SumUpTo(f, i) <= SumUpTo(f, j)
  BY <1>3, SumUpToLonger
<1> QED
  BY <1>5, <1>6 DEF TokensTo, f

(***************************************************************************)
(* Profiles.                                                               *)
(***************************************************************************)
PointAt(blocks, i) == [prefix |-> Fingerprint(blocks, i), tokens |-> TokensTo(blocks, i),
                       ttl |-> BreakpointTTL(blocks, i)]
PointsOf(prompt) ==
    {PointAt(Blocks(prompt), i) : i \in {k \in DOMAIN Blocks(prompt) : BreakpointTTL(Blocks(prompt), k) # 0}}

(* A breakpoint lives for five minutes or an hour.                         *)
LEMMA LifetimeTypes ==
    ASSUME NEW blocks \in Seq(CacheBlocks), NEW i \in DOMAIN blocks
    PROVE  BreakpointTTL(blocks, i) \in {0, 5, 60}
<1> DEFINE explicit == {j \in 1..i : blocks[j].ttl > 0}
<1>1. Len(blocks) \in Nat /\ DOMAIN blocks = 1..Len(blocks) /\ i \in 1..Len(blocks)
  BY LenProperties
<1>2. CASE explicit = {}
  BY <1>2 DEF BreakpointTTL
<1>3. CASE explicit # {}
  <2>1. explicit \subseteq 0..Len(blocks)
    BY <1>1
  <2>2. Max(explicit) \in explicit
    <3> HIDE DEF explicit
    <3> QED
      BY <1>1, <1>3, <2>1, GreatestOf
  <2>3. blocks[Max(explicit)] \in CacheBlocks
    <3>0. explicit \subseteq 1..Len(blocks)
      BY <1>1
    <3> HIDE DEF explicit
    <3>1. Max(explicit) \in 1..Len(blocks)
      BY <2>2, <3>0
    <3> QED
      BY <3>1, ElementOfSeq
  <2>4. blocks[Max(explicit)].ttl \in {0, 5, 60}
    <3> HIDE DEF explicit
    <3> QED
      BY <2>3 DEF CacheBlocks
  <2>5. BreakpointTTL(blocks, i) \in {0, blocks[Max(explicit)].ttl}
    BY DEF BreakpointTTL
  <2> QED
    BY <2>4, <2>5
<1> QED
  BY <1>2, <1>3

(* The breakpoints of a prompt.                                            *)
LEMMA ProfileTypes ==
    ASSUME NEW prompt \in Prompts
    PROVE  /\ Profile(prompt).points \in Seq(PointsOf(prompt))
           /\ Profile(prompt).total \in Nat /\ Profile(prompt).min \in Nat
           /\ \A x \in PointsOf(prompt) : x.tokens \in Nat /\ x.ttl \in {5, 60}
<1> DEFINE blocks == Blocks(prompt)
           n == Len(blocks)
           each == [i \in DOMAIN blocks |->
                      IF BreakpointTTL(blocks, i) = 0 THEN <<>> ELSE <<PointAt(blocks, i)>>]
<1>1. blocks \in Seq(CacheBlocks)
  BY BlocksTypes
<1>2. n \in Nat /\ DOMAIN blocks = 1..n
  BY <1>1, LenProperties
<1>3. FlattenSeq(each) \in Seq(PointsOf(prompt))
  <2>1. ASSUME NEW i \in 1..n
        PROVE  each[i] \in Seq(PointsOf(prompt))
    <3>1. CASE BreakpointTTL(blocks, i) = 0
      <4>1. each[i] = <<>>
        BY <1>2, <3>1
      <4> QED
        BY <4>1, EmptySeq
    <3>2. CASE BreakpointTTL(blocks, i) # 0
      <4>1. each[i] = <<PointAt(blocks, i)>>
        BY <1>2, <3>2
      <4>2. PointAt(blocks, i) \in PointsOf(prompt)
        BY <1>2, <3>2 DEF PointsOf
      <4> HIDE DEF each, blocks
      <4> QED
        BY <4>1, <4>2, OneSequence
    <3> QED
      BY <3>1, <3>2
  <2>2. each = [i \in 1..n |-> each[i]]
    BY <1>2
  <2> HIDE DEF each, blocks
  <2> QED
    BY <1>2, <2>1, <2>2, FlattenEach
<1>4. Profile(prompt).points = FlattenSeq(each)
  BY DEF Profile, PointAt
<1>5. /\ Profile(prompt).total = Max({prompt.estimate, TokensTo(blocks, n)})
      /\ Profile(prompt).min = prompt.min
  BY DEF Profile
<1>6. prompt.estimate \in Nat /\ prompt.min \in Nat
  BY PromptCacheAssumption
<1>7. TokensTo(blocks, n) \in Nat
  <2>1. n \in 0..n
    BY <1>2
  <2> HIDE DEF blocks
  <2> QED
    BY <1>1, <2>1, TokensToGrows
<1>8. Max({prompt.estimate, TokensTo(blocks, n)}) \in Nat
  <2> HIDE DEF blocks
  <2>1. prompt.estimate \in Int /\ TokensTo(blocks, n) \in Int
    BY <1>6, <1>7
  <2> QED
    BY <1>6, <1>7, <2>1, GreaterOfTwo
<1>9. ASSUME NEW x \in PointsOf(prompt)
      PROVE  x.tokens \in Nat /\ x.ttl \in {5, 60}
  <2>1. PICK i \in DOMAIN blocks : x = PointAt(blocks, i) /\ BreakpointTTL(blocks, i) # 0
    BY DEF PointsOf
  <2>2. i \in 0..n
    BY <1>2, <2>1
  <2> HIDE DEF blocks
  <2>3. BreakpointTTL(blocks, i) \in {0, 5, 60}
    BY <1>1, LifetimeTypes
  <2>4. TokensTo(blocks, i) \in Nat
    <3>1. i \in 0..i
      BY <1>2
    <3> QED
      BY <1>1, <2>2, <3>1, TokensToGrows
  <2> QED
    BY <2>1, <2>3, <2>4 DEF PointAt
<1> QED
  BY <1>3, <1>4, <1>5, <1>6, <1>8, <1>9

(* Prompts with a breakpoint after the same prefix share its tokens.       *)
LEMMA SharedPrefix ==
    ASSUME NEW p \in Prompts, NEW q \in Prompts, NEW x \in PointsOf(p), NEW y \in PointsOf(q),
           x.prefix = y.prefix
    PROVE  SharedTokens(p, q) \in Nat /\ x.tokens <= SharedTokens(p, q)
<1> DEFINE a == Blocks(p)
           b == Blocks(q)
           m == Min({Len(a), Len(b)})
           S == {i \in 0..m : \A j \in 1..i : a[j].content = b[j].content}
<1>1. a \in Seq(CacheBlocks) /\ b \in Seq(CacheBlocks)
  BY BlocksTypes
<1>2. Len(a) \in Nat /\ DOMAIN a = 1..Len(a) /\ Len(b) \in Nat /\ DOMAIN b = 1..Len(b)
  BY <1>1, LenProperties
<1>3. PICK i \in DOMAIN a : x = PointAt(a, i)
  BY DEF PointsOf
<1>4. PICK k \in DOMAIN b : y = PointAt(b, k)
  BY DEF PointsOf
<1>5. SharedTokens(p, q) = TokensTo(a, Max(S))
  BY DEF SharedTokens
<1> HIDE DEF a, b
<1>6. i = k /\ \A j \in 1..i : a[j].content = b[j].content
  <2>1. [j \in 1..i |-> a[j].content] = [j \in 1..k |-> b[j].content]
    BY <1>3, <1>4 DEF PointAt, Fingerprint
  <2>2. 1..i = 1..k
    BY <2>1
  <2>3. i = k
    BY <1>2, <2>2
  <2>4. \A j \in 1..i : [l \in 1..i |-> a[l].content][j] = [l \in 1..k |-> b[l].content][j]
    BY <2>1
  <2> QED
    BY <2>3, <2>4
<1>7. m = IF Len(a) <= Len(b) THEN Len(a) ELSE Len(b)
  <2>1. Len(a) \in Int /\ Len(b) \in Int
    BY <1>2
  <2> QED
    BY <2>1, LesserOfTwo
<1>8. m \in Nat /\ m <= Len(a)
  BY <1>2, <1>7
<1>9. i \in S
  BY <1>2, <1>6, <1>7
<1>10. Max(S) \in 0..Len(a) /\ i \in 0..Max(S)
  <2> HIDE DEF m
  <2>1. S \subseteq 0..m /\ S # {}
    BY <1>9
  <2> HIDE DEF S
  <2>2. Max(S) \in S /\ \A l \in S : l <= Max(S)
    BY <1>8, <2>1, GreatestOf
  <2>3. Max(S) \in 0..m /\ i <= Max(S) /\ i \in 0..m
    BY <1>9, <2>1, <2>2
  <2> QED
    BY <1>2, <1>8, <2>3
<1> HIDE DEF S
<1>11. TokensTo(a, i) <= TokensTo(a, Max(S))
  BY <1>1, <1>10, TokensToGrows
<1>12. TokensTo(a, Max(S)) \in Nat
  <2>1. Max(S) \in 0..Max(S)
    BY <1>2, <1>10
  <2> QED
    BY <1>1, <1>10, <2>1, TokensToGrows
<1> QED
  BY <1>3, <1>5, <1>11, <1>12 DEF PointAt

(* What a request is told.  If it was told that it read anything, it was   *)
(* for the last of its breakpoints that are known.                         *)
Read(prompt, known) == UsageOf(Profile(prompt), known).read
Hits(prompt, known) == Matched(Profile(prompt), known)
LastHit(prompt, known) == Profile(prompt).points[Max(Hits(prompt, known))]

(* That breakpoint is one of the prompt, and its prefix is remembered.     *)
LEMMA HitsAreKnown ==
    ASSUME NEW prompt \in Prompts, NEW known, Hits(prompt, known) # {}
    PROVE  /\ LastHit(prompt, known) \in PointsOf(prompt)
           /\ LastHit(prompt, known).prefix \in DOMAIN known
           /\ Profile(prompt).points # <<>>
<1> DEFINE points == Profile(prompt).points
           hits == Hits(prompt, known)
<1>1. points \in Seq(PointsOf(prompt))
  BY ProfileTypes
<1>2. Len(points) \in Nat /\ DOMAIN points = 1..Len(points)
  BY <1>1, LenProperties
<1>3. hits \subseteq DOMAIN points /\ \A i \in hits : points[i].prefix \in DOMAIN known
  BY DEF Hits, Matched, Cacheable
<1>4. LastHit(prompt, known) = points[Max(hits)]
  BY DEF LastHit
<1> HIDE DEF points, hits
<1>5. Max(hits) \in hits
  <2>1. hits \subseteq 0..Len(points) /\ hits # {}
    BY <1>2, <1>3 DEF hits
  <2> QED
    BY <1>2, <2>1, GreatestOf
<1>6. Max(hits) \in 1..Len(points)
  BY <1>2, <1>3, <1>5
<1>7. points[Max(hits)] \in PointsOf(prompt)
  BY <1>1, <1>6, ElementOfSeq
<1>8. points # <<>>
  <2>1. Len(points) # 0
    BY <1>2, <1>6
  <2> QED
    BY <2>1
<1> QED
  BY <1>3, <1>4, <1>5, <1>7, <1>8 DEF points

(* A read is of that breakpoint, and never more than 85 in 100 of the      *)
(* whole.                                                                  *)
LEMMA ReadsAreHits ==
    ASSUME NEW prompt \in Prompts, NEW known
    PROVE  /\ Read(prompt, known) \in Nat
           /\ Read(prompt, known) * 100 <= Profile(prompt).total * 85
           /\ Read(prompt, known) > 0 =>
                /\ Hits(prompt, known) # {}
                /\ Read(prompt, known) <= LastHit(prompt, known).tokens
<1> DEFINE points == Profile(prompt).points
           total == Profile(prompt).total
           last == Min({Last(points).tokens, total})
           cap == Min({last, (total * 85) \div 100})
           hits == Hits(prompt, known)
           read == IF hits = {} THEN 0 ELSE Min({LastHit(prompt, known).tokens, total, cap})
<1>1. total \in Nat /\ points \in Seq(PointsOf(prompt))
  BY ProfileTypes
<1>2. CASE points = <<>>
  <2>1. Read(prompt, known) = 0
    BY <1>2 DEF Read, UsageOf, NoUsage
  <2> QED
    BY <1>1, <2>1
<1>3. CASE points # <<>> /\ DOMAIN known = {}
  <2>1. Read(prompt, known) = 0
    BY <1>3 DEF Read, UsageOf, Usage
  <2> QED
    BY <1>1, <2>1
<1>4. CASE points # <<>> /\ DOMAIN known # {}
  <2>1. Read(prompt, known) = read
    BY <1>4 DEF Read, UsageOf, Usage, Hits, LastHit
  <2>2. Last(points).tokens \in Nat
    <3>1. Len(points) \in 1..Len(points)
      <4>1. Len(points) \in Nat \ {0}
        BY <1>1, <1>4, EmptySeq
      <4> HIDE DEF points
      <4> QED
        BY <4>1
    <3>2. points[Len(points)] \in PointsOf(prompt)
      BY <1>1, <3>1, ElementOfSeq
    <3>3. points[Len(points)].tokens \in Nat
      BY <3>2, ProfileTypes
    <3> QED
      BY <3>3 DEF Last
  <2>3. last \in Nat
    <3> HIDE DEF points, total
    <3>1. Last(points).tokens \in Int /\ total \in Int
      BY <1>1, <2>2
    <3> QED
      BY <1>1, <2>2, <3>1, LesserOfTwo
  <2>4. cap \in Nat /\ cap * 100 <= total * 85
    <3> HIDE DEF last, total
    <3> DEFINE whole == total * 85
               part == whole \div 100
    <3>1. whole \in Nat
      BY <1>1
    <3>2. part \in Nat /\ part * 100 <= whole
      <4> HIDE DEF whole
      <4> QED
        BY <3>1
    <3> HIDE DEF part
    <3>3. Min({last, part}) = IF last <= part THEN last ELSE part
      <4>1. last \in Int /\ part \in Int
        BY <2>3, <3>2
      <4> QED
        BY <4>1, LesserOfTwo
    <3>4. cap = Min({last, part})
      BY DEF part
    <3> HIDE DEF cap, whole
    <3>5. cap \in Nat /\ cap <= part /\ part \in Nat
      BY <2>3, <3>2, <3>3, <3>4
    <3>6. cap * 100 <= part * 100
      BY <3>5
    <3>7. cap \in Nat /\ cap * 100 <= whole
      BY <3>1, <3>2, <3>5, <3>6
    <3> QED
      BY <3>7 DEF whole
  <2>5. CASE hits = {}
    <3>1. Read(prompt, known) = 0
      BY <2>1, <2>5
    <3> QED
      BY <1>1, <3>1
  <2>6. CASE hits # {}
    <3> DEFINE tokens == LastHit(prompt, known).tokens
    <3>1. tokens \in Nat
      BY <2>6, HitsAreKnown, ProfileTypes
    <3>2. Read(prompt, known) = Min({tokens, total, cap})
      BY <2>1, <2>6
    <3> HIDE DEF tokens, total, cap
    <3>3. /\ Min({tokens, total, cap}) \in {tokens, total, cap}
          /\ Min({tokens, total, cap}) <= tokens /\ Min({tokens, total, cap}) <= cap
      <4>1. tokens \in Int /\ total \in Int /\ cap \in Int
        BY <1>1, <2>4, <3>1
      <4> QED
        BY <4>1, LeastOfThree
    <3> DEFINE least == Min({tokens, total, cap})
    <3> HIDE DEF least
    <3>4. least \in Nat /\ least <= tokens /\ least <= cap
      BY <1>1, <2>4, <3>1, <3>3 DEF least
    <3>5. least * 100 <= total * 85
      BY <1>1, <2>4, <3>4
    <3> QED
      BY <2>6, <3>2, <3>4, <3>5 DEF least, tokens, total
  <2> QED
    BY <2>5, <2>6
<1> QED
  BY <1>2, <1>3, <1>4

(***************************************************************************)
(* The invariant.  It speaks of the requests q and of the history h.       *)
(***************************************************************************)
AsksFor(q, r, p) == \E x \in PointsOf(q[r].prompt) : x.prefix = p
Long(prompt) == \E i \in DOMAIN Profile(prompt).points : Profile(prompt).points[i].ttl = 60
LongAsked(q) == \E r \in CacheRequests : Long(q[r].prompt)

(* An entry was stored by a request with its prefix, and expires one       *)
(* lifetime after such a request last stored or found it.                  *)
EntryOK(q, h, a, p, e) ==
    /\ e.ttl \in {5, 60}
    /\ e.ttl = 60 => LongAsked(q)
    /\ \E u \in h : u.account = a /\ u.stored /\ AsksFor(q, u.request, p)
    /\ \E u \in h : u.account = a /\ AsksFor(q, u.request, p) /\ e.expires = u.at + e.ttl

(* What CacheReadWasStored says of one request.                            *)
ReadOK(q, h, r) ==
    LET read == q[r].usage.read
        same == {u \in h : /\ u.account = q[r].account /\ u.request # r
                           /\ u.at <= q[r].since
                           /\ SharedTokens(q[r].prompt, q[u.request].prompt) >= read}
    IN  q[r].at \in {"call", "done"} /\ read > 0 =>
            /\ \E u \in same : u.stored
            /\ \E u \in same : q[r].since - u.at < (IF LongAsked(q) THEN 60 ELSE 5)
            /\ read * 100 <= Profile(q[r].prompt).total * 85

AskingOK ==
    /\ DOMAIN asking = CacheRequests /\ minute \in 0..MaxMinute
    /\ \A r \in CacheRequests :
          /\ DOMAIN asking[r] = {"at", "prompt", "tried", "account", "usage", "since"}
          /\ asking[r].at \in {"pick", "call", "done", "failed"}
          /\ asking[r].prompt \in Prompts

(* A request is never again on an account it was on before.                *)
UsesOK ==
    \A u \in uses :
       /\ u.request \in CacheRequests /\ u.at \in 0..minute
       /\ \/ u.account \in asking[u.request].tried
          \/ asking[u.request].at # "pick" /\ u.account = asking[u.request].account

EntriesOK ==
    /\ DOMAIN entries = CacheAccounts
    /\ \A a \in CacheAccounts : \A p \in DOMAIN entries[a] :
          EntryOK(asking, uses, a, p, entries[a][p])

ReadsOK == \A r \in CacheRequests : ReadOK(asking, uses, r)

CacheInv == AskingOK /\ UsesOK /\ EntriesOK /\ ReadsOK

(* No account remembers anything.                                          *)
LEMMA CacheStarts == PromptCacheInit => CacheInv
<1> SUFFICES ASSUME PromptCacheInit
             PROVE  CacheInv
  OBVIOUS
<1>1. AskingOK
  BY PromptCacheAssumption DEF PromptCacheInit, AskingOK
<1>2. UsesOK
  BY DEF PromptCacheInit, UsesOK
<1>3. EntriesOK
  BY DEF PromptCacheInit, EntriesOK
<1>4. ReadsOK
  <2>1. \A r \in CacheRequests : asking[r].at \notin {"call", "done"}
    BY DEF PromptCacheInit
  <2> QED
    BY <2>1 DEF ReadsOK, ReadOK
<1> QED
  BY <1>1, <1>2, <1>3, <1>4 DEF CacheInv

(* Later requests and uses leave an entry in order,                        *)
LEMMA EntryKept ==
    ASSUME NEW q, NEW h, NEW s, NEW g, NEW a, NEW p, NEW e,
           \A r \in CacheRequests : s[r].prompt = q[r].prompt,
           h \subseteq g, \A u \in h : u.request \in CacheRequests,
           EntryOK(q, h, a, p, e)
    PROVE  EntryOK(s, g, a, p, e)
<1>1. LongAsked(s) <=> LongAsked(q)
  BY DEF LongAsked
<1>2. \A u \in h : AsksFor(q, u.request, p) => AsksFor(s, u.request, p)
  BY DEF AsksFor
<1> QED
  BY <1>1, <1>2 DEF EntryOK

(* and what a request was told, if it was asked no further account.        *)
LEMMA ReadKept ==
    ASSUME NEW q, NEW h, NEW s, NEW g, NEW r \in CacheRequests,
           \A k \in CacheRequests : s[k].prompt = q[k].prompt,
           h \subseteq g, \A u \in h : u.request \in CacheRequests,
           s[r].at \in {"call", "done"} => /\ q[r].at \in {"call", "done"}
                                          /\ s[r].usage = q[r].usage /\ s[r].account = q[r].account
                                          /\ s[r].since = q[r].since,
           ReadOK(q, h, r)
    PROVE  ReadOK(s, g, r)
<1>1. LongAsked(s) <=> LongAsked(q)
  BY DEF LongAsked
<1>2. SUFFICES ASSUME s[r].at \in {"call", "done"}, s[r].usage.read > 0
               PROVE  /\ \E u \in g : /\ u.account = s[r].account /\ u.request # r /\ u.at <= s[r].since
                                     /\ SharedTokens(s[r].prompt, s[u.request].prompt) >= s[r].usage.read
                                     /\ u.stored
                      /\ \E u \in g : /\ u.account = s[r].account /\ u.request # r /\ u.at <= s[r].since
                                     /\ SharedTokens(s[r].prompt, s[u.request].prompt) >= s[r].usage.read
                                     /\ s[r].since - u.at < (IF LongAsked(s) THEN 60 ELSE 5)
                      /\ s[r].usage.read * 100 <= Profile(s[r].prompt).total * 85
  BY DEF ReadOK
<1>3. /\ q[r].at \in {"call", "done"} /\ s[r].usage = q[r].usage
      /\ s[r].account = q[r].account /\ s[r].since = q[r].since /\ s[r].prompt = q[r].prompt
  BY <1>2
<1>4. PICK u \in h : /\ u.account = q[r].account /\ u.request # r /\ u.at <= q[r].since
                     /\ SharedTokens(q[r].prompt, q[u.request].prompt) >= q[r].usage.read
                     /\ u.stored
  BY <1>2, <1>3 DEF ReadOK
<1>5. PICK v \in h : /\ v.account = q[r].account /\ v.request # r /\ v.at <= q[r].since
                     /\ SharedTokens(q[r].prompt, q[v.request].prompt) >= q[r].usage.read
                     /\ q[r].since - v.at < (IF LongAsked(q) THEN 60 ELSE 5)
  BY <1>2, <1>3 DEF ReadOK
<1>6. q[r].usage.read * 100 <= Profile(q[r].prompt).total * 85
  BY <1>2, <1>3 DEF ReadOK
<1>7. u \in g /\ v \in g /\ s[u.request].prompt = q[u.request].prompt
      /\ s[v.request].prompt = q[v.request].prompt
  OBVIOUS
<1> QED
  BY <1>1, <1>3, <1>4, <1>5, <1>6, <1>7

(* Steps that leave accounts and history as they are.                      *)
LEMMA QuietStep ==
    ASSUME CacheInv, AskingOK', UsesOK', entries' = entries, uses' = uses,
           \A r \in CacheRequests : asking'[r].prompt = asking[r].prompt,
           \A r \in CacheRequests : asking'[r].at \in {"call", "done"} =>
              /\ asking[r].at \in {"call", "done"}
              /\ asking'[r].usage = asking[r].usage /\ asking'[r].account = asking[r].account
              /\ asking'[r].since = asking[r].since
    PROVE  CacheInv'
<1>1. \A u \in uses : u.request \in CacheRequests
  BY DEF CacheInv, UsesOK
<1>2. EntriesOK'
  <2>1. DOMAIN entries' = CacheAccounts
    BY DEF CacheInv, EntriesOK
  <2>2. ASSUME NEW a \in CacheAccounts, NEW p \in DOMAIN entries[a]
        PROVE  EntryOK(asking', uses', a, p, entries[a][p])
    <3>1. EntryOK(asking, uses, a, p, entries[a][p])
      BY DEF CacheInv, EntriesOK
    <3>2. uses \subseteq uses'
      OBVIOUS
    <3> QED
      BY <1>1, <3>1, <3>2, EntryKept
  <2> QED
    BY <2>1, <2>2 DEF EntriesOK
<1>3. ASSUME NEW r \in CacheRequests
      PROVE  ReadOK(asking', uses', r)
  <2>1. ReadOK(asking, uses, r)
    BY DEF CacheInv, ReadsOK
  <2>2. uses \subseteq uses'
    OBVIOUS
  <2> QED
    BY <1>1, <2>1, <2>2, ReadKept
<1> QED
  BY <1>2, <1>3 DEF CacheInv, ReadsOK

(* Each step keeps the invariant.  Time takes nothing away.                *)
LEMMA StepMinutes == CacheInv /\ MinutesPass => CacheInv'
<1> SUFFICES ASSUME CacheInv, MinutesPass
             PROVE  CacheInv'
  OBVIOUS
<1>1. asking' = asking /\ entries' = entries /\ uses' = uses
  BY DEF MinutesPass
<1>2. minute' \in 0..MaxMinute /\ minute <= minute' /\ minute \in Nat
  BY PromptCacheAssumption DEF MinutesPass, CacheInv, AskingOK
<1>3. AskingOK'
  BY <1>1, <1>2 DEF CacheInv, AskingOK
<1>4. UsesOK'
  BY <1>1, <1>2 DEF CacheInv, UsesOK
<1> QED
  BY <1>1, <1>3, <1>4, QuietStep

(* The request leaves an account it will not come back to.                 *)
LEMMA StepAccountFails ==
    ASSUME CacheInv, NEW r \in CacheRequests, CacheAccountFails(r)
    PROVE  CacheInv'
<1>1. /\ entries' = entries /\ uses' = uses /\ minute' = minute
      /\ asking[r].at \in {"call", "pick"}
  BY DEF CacheAccountFails
<1>2. PICK a : asking' = [asking EXCEPT ![r].at = "pick", ![r].tried = @ \cup {a}]
               /\ (asking[r].at = "call" => a = asking[r].account)
  <2>1. CASE asking[r].at = "call"
    BY <2>1 DEF CacheAccountFails
  <2>2. CASE asking[r].at = "pick"
    <3>1. PICK a \in CacheAccounts : asking' = [asking EXCEPT ![r].tried = @ \cup {a}]
      BY <2>2 DEF CacheAccountFails
    <3>2. asking' = [asking EXCEPT ![r].at = "pick", ![r].tried = @ \cup {a}]
      <4>1. [asking[r] EXCEPT !.tried = @ \cup {a}] =
            [asking[r] EXCEPT !.at = "pick", !.tried = @ \cup {a}]
        BY <2>2 DEF CacheInv, AskingOK
      <4> QED
        BY <3>1, <4>1
    <3> QED
      BY <2>2, <3>2
  <2> QED
    BY <1>1, <2>1, <2>2
<1>3. DOMAIN asking' = CacheRequests /\ DOMAIN asking'[r] = DOMAIN asking[r]
      /\ asking'[r].at = "pick" /\ asking'[r].tried = asking[r].tried \cup {a}
      /\ asking'[r].prompt = asking[r].prompt
      /\ \A k \in CacheRequests : k # r => asking'[k] = asking[k]
  BY <1>2 DEF CacheInv, AskingOK
<1>4. AskingOK'
  BY <1>1, <1>3 DEF CacheInv, AskingOK
<1>5. UsesOK'
  <2>1. ASSUME NEW u \in uses
        PROVE  \/ u.account \in asking'[u.request].tried
               \/ asking'[u.request].at # "pick" /\ u.account = asking'[u.request].account
    <3>1. CASE u.request = r
      BY <1>1, <1>2, <1>3, <3>1 DEF CacheInv, UsesOK
    <3>2. CASE u.request # r
      BY <1>3, <3>2 DEF CacheInv, UsesOK
    <3> QED
      BY <3>1, <3>2
  <2> QED
    BY <1>1, <2>1 DEF CacheInv, UsesOK
<1> QED
  BY <1>1, <1>3, <1>4, <1>5, QuietStep

(* The request is over, and what it was told no longer matters.            *)
LEMMA StepRequestFails ==
    ASSUME CacheInv, NEW r \in CacheRequests, CacheRequestFails(r)
    PROVE  CacheInv'
<1>1. /\ entries' = entries /\ uses' = uses /\ minute' = minute
      /\ asking' = [asking EXCEPT ![r].at = "failed"]
  BY DEF CacheRequestFails
<1>2. DOMAIN asking' = CacheRequests /\ DOMAIN asking'[r] = DOMAIN asking[r]
      /\ asking'[r].at = "failed" /\ asking'[r].tried = asking[r].tried
      /\ asking'[r].prompt = asking[r].prompt /\ asking'[r].account = asking[r].account
      /\ \A k \in CacheRequests : k # r => asking'[k] = asking[k]
  BY <1>1 DEF CacheInv, AskingOK
<1>3. AskingOK'
  BY <1>1, <1>2 DEF CacheInv, AskingOK
<1>4. UsesOK'
  <2>1. ASSUME NEW u \in uses
        PROVE  \/ u.account \in asking'[u.request].tried
               \/ asking'[u.request].at # "pick" /\ u.account = asking'[u.request].account
    <3>1. CASE u.request = r
      BY <1>2, <3>1 DEF CacheInv, UsesOK
    <3>2. CASE u.request # r
      BY <1>2, <3>2 DEF CacheInv, UsesOK
    <3> QED
      BY <3>1, <3>2
  <2> QED
    BY <1>1, <2>1 DEF CacheInv, UsesOK
<1> QED
  BY <1>1, <1>2, <1>3, <1>4, QuietStep

(* What is left of an account's entries when the expired ones are gone.    *)
LEMMA PrunedOK ==
    ASSUME CacheInv
    PROVE  /\ DOMAIN Pruned = CacheAccounts
           /\ \A a \in CacheAccounts : \A p \in DOMAIN Pruned[a] :
                 /\ EntryOK(asking, uses, a, p, Pruned[a][p])
                 /\ Pruned[a][p].expires > minute
<1>1. DOMAIN Pruned = CacheAccounts
  BY DEF Pruned
<1>2. ASSUME NEW a \in CacheAccounts, NEW p \in DOMAIN Pruned[a]
      PROVE  /\ EntryOK(asking, uses, a, p, Pruned[a][p])
             /\ Pruned[a][p].expires > minute
  <2>1. p \in DOMAIN entries[a] /\ Pruned[a][p] = entries[a][p] /\ entries[a][p].expires > minute
    BY DEF Pruned
  <2>2. EntryOK(asking, uses, a, p, entries[a][p])
    BY <2>1 DEF CacheInv, EntriesOK
  <2> QED
    BY <2>1, <2>2
<1> QED
  BY <1>1, <1>2

(* The rest of the entries, after the one prefixes of one account.         *)
LEMMA EntriesKept ==
    ASSUME CacheInv, uses \subseteq uses',
           \A r \in CacheRequests : asking'[r].prompt = asking[r].prompt,
           DOMAIN entries' = CacheAccounts,
           \A a \in CacheAccounts : \A p \in DOMAIN entries'[a] :
              \/ EntryOK(asking', uses', a, p, entries'[a][p])
              \/ p \in DOMAIN Pruned[a] /\ entries'[a][p] = Pruned[a][p]
              \/ p \in DOMAIN entries[a] /\ entries'[a][p] = entries[a][p]
    PROVE  EntriesOK'
<1>1. \A u \in uses : u.request \in CacheRequests
  BY DEF CacheInv, UsesOK
<1>2. ASSUME NEW a \in CacheAccounts, NEW p \in DOMAIN entries'[a]
      PROVE  EntryOK(asking', uses', a, p, entries'[a][p])
  <2>1. CASE EntryOK(asking', uses', a, p, entries'[a][p])
    BY <2>1
  <2>2. CASE p \in DOMAIN Pruned[a] /\ entries'[a][p] = Pruned[a][p]
    <3>1. EntryOK(asking, uses, a, p, entries'[a][p])
      BY <2>2, PrunedOK
    <3> QED
      BY <1>1, <3>1, EntryKept
  <2>3. CASE p \in DOMAIN entries[a] /\ entries'[a][p] = entries[a][p]
    <3>1. EntryOK(asking, uses, a, p, entries'[a][p])
      BY <2>3 DEF CacheInv, EntriesOK
    <3> QED
      BY <1>1, <3>1, EntryKept
  <2> QED
    BY <2>1, <2>2, <2>3
<1> QED
  BY <1>2 DEF EntriesOK

(* What a request is told was stored by another one, and not too long ago. *)
LEMMA ReadWasStored ==
    ASSUME CacheInv, NEW r \in CacheRequests, asking[r].at = "pick",
           NEW a \in CacheAccounts \ asking[r].tried,
           NEW s, NEW g, uses \subseteq g,
           \A k \in CacheRequests : s[k].prompt = asking[k].prompt,
           s[r].at = "call", s[r].account = a, s[r].since = minute,
           s[r].usage = UsageOf(Profiled(r), Pruned[a])
    PROVE  ReadOK(s, g, r)
<1> DEFINE prompt == asking[r].prompt
           known == Pruned[a]
           read == Read(prompt, known)
           hit == LastHit(prompt, known)
<1>1. prompt \in Prompts /\ minute \in Nat
  BY PromptCacheAssumption DEF CacheInv, AskingOK
<1>2. s[r].usage.read = read /\ s[r].prompt = prompt
  BY DEF Read, Profiled
<1>3. SUFFICES ASSUME read > 0
               PROVE  /\ \E u \in g : /\ u.account = a /\ u.request # r /\ u.at <= minute
                                     /\ SharedTokens(prompt, s[u.request].prompt) >= read
                                     /\ u.stored
                      /\ \E u \in g : /\ u.account = a /\ u.request # r /\ u.at <= minute
                                     /\ SharedTokens(prompt, s[u.request].prompt) >= read
                                     /\ minute - u.at < (IF LongAsked(s) THEN 60 ELSE 5)
                      /\ read * 100 <= Profile(prompt).total * 85
  <2> HIDE DEF prompt, read
  <2> QED
    BY <1>2 DEF ReadOK
<1>4. read \in Nat /\ read * 100 <= Profile(prompt).total * 85
      /\ Hits(prompt, known) # {} /\ read <= hit.tokens
  BY <1>1, <1>3, ReadsAreHits
<1>5. hit \in PointsOf(prompt) /\ hit.prefix \in DOMAIN known /\ hit.tokens \in Nat
  <2>1. hit \in PointsOf(prompt) /\ hit.prefix \in DOMAIN known
    BY <1>1, <1>4, HitsAreKnown
  <2> QED
    BY <1>1, <2>1, ProfileTypes
<1> DEFINE e == known[hit.prefix]
<1>6. EntryOK(asking, uses, a, hit.prefix, e) /\ e.expires > minute
  BY <1>5, PrunedOK
<1>7. ASSUME NEW u \in uses, u.account = a, AsksFor(asking, u.request, hit.prefix)
      PROVE  /\ u \in g /\ u.request # r /\ u.at <= minute /\ u.at \in Nat
             /\ SharedTokens(prompt, s[u.request].prompt) >= read
  <2>1. u.request \in CacheRequests /\ u.at \in 0..minute /\ u.request # r
    BY <1>7 DEF CacheInv, UsesOK
  <2>2. PICK x \in PointsOf(asking[u.request].prompt) : x.prefix = hit.prefix
    BY <1>7 DEF AsksFor
  <2>3. asking[u.request].prompt \in Prompts /\ s[u.request].prompt = asking[u.request].prompt
    BY <2>1 DEF CacheInv, AskingOK
  <2> HIDE DEF prompt, read, hit, known
  <2>4. /\ SharedTokens(prompt, asking[u.request].prompt) \in Nat
        /\ hit.tokens <= SharedTokens(prompt, asking[u.request].prompt)
    BY <1>1, <1>5, <2>2, <2>3, SharedPrefix
  <2>5. SharedTokens(prompt, asking[u.request].prompt) >= read
    BY <1>4, <1>5, <2>4
  <2> QED
    BY <1>1, <2>1, <2>3, <2>5
<1> HIDE DEF prompt, read, hit, known
<1>8. PICK u \in uses : u.account = a /\ u.stored /\ AsksFor(asking, u.request, hit.prefix)
  BY <1>6 DEF EntryOK
<1>9. PICK v \in uses : /\ v.account = a /\ AsksFor(asking, v.request, hit.prefix)
                        /\ e.expires = v.at + e.ttl
  BY <1>6 DEF EntryOK
<1>10. LongAsked(s) <=> LongAsked(asking)
  BY DEF LongAsked
<1>11. e.ttl \in {5, 60} /\ (e.ttl = 60 => LongAsked(s))
  BY <1>6, <1>10 DEF EntryOK
<1>12. minute - v.at < (IF LongAsked(s) THEN 60 ELSE 5)
  <2> HIDE DEF e
  <2>1. v.at \in Nat
    BY <1>7, <1>9
  <2>2. minute < v.at + e.ttl
    BY <1>1, <1>6, <1>9, <1>11, <2>1
  <2>3. CASE LongAsked(s)
    <3>1. minute - v.at < 60
      BY <1>1, <1>11, <2>1, <2>2
    <3> QED
      BY <2>3, <3>1
  <2>4. CASE ~LongAsked(s)
    <3>1. e.ttl = 5
      BY <1>11, <2>4
    <3>2. minute - v.at < 5
      BY <1>1, <2>1, <2>2, <3>1
    <3> QED
      BY <2>4, <3>2
  <2> QED
    BY <2>3, <2>4
<1>13. /\ u \in g /\ u.account = a /\ u.request # r /\ u.at <= minute
       /\ SharedTokens(prompt, s[u.request].prompt) >= read /\ u.stored
  BY <1>7, <1>8
<1>14. /\ v \in g /\ v.account = a /\ v.request # r /\ v.at <= minute
       /\ SharedTokens(prompt, s[v.request].prompt) >= read
  BY <1>7, <1>9
<1> QED
  BY <1>4, <1>12, <1>13, <1>14

(* The request finds what others stored on its account, and gives the last *)
(* of it another lifetime.                                                 *)
LEMMA StepComputed ==
    ASSUME CacheInv, NEW r \in CacheRequests, CacheComputed(r)
    PROVE  CacheInv'
<1>1. PICK a \in CacheAccounts \ asking[r].tried :
          /\ asking' = [asking EXCEPT ![r].at = "call", ![r].account = a, ![r].since = minute,
                                      ![r].usage = UsageOf(Profiled(r), Pruned[a])]
          /\ entries' = IF Profiled(r).points = <<>> THEN entries
                        ELSE [Pruned EXCEPT ![a] = Refreshed(Profiled(r), @)]
          /\ uses' = IF Matched(Profiled(r), Pruned[a]) # {}
                     THEN uses \cup {[account |-> a, request |-> r, at |-> minute, stored |-> FALSE]}
                     ELSE uses
  BY DEF CacheComputed
<1>2. minute' = minute /\ asking[r].at = "pick" /\ minute \in Nat
  BY PromptCacheAssumption DEF CacheComputed, CacheInv, AskingOK
<1> DEFINE prompt == asking[r].prompt
           known == Pruned[a]
           usage == UsageOf(Profiled(r), known)
           use == [account |-> a, request |-> r, at |-> minute, stored |-> FALSE]
           hit == LastHit(prompt, known)
<1>3. DOMAIN asking' = CacheRequests /\ DOMAIN asking'[r] = DOMAIN asking[r]
      /\ asking'[r].at = "call" /\ asking'[r].tried = asking[r].tried
      /\ asking'[r].prompt = prompt /\ asking'[r].account = a
      /\ asking'[r].since = minute /\ asking'[r].usage = usage
      /\ \A k \in CacheRequests : k # r => asking'[k] = asking[k]
  <2> HIDE DEF usage
  <2>1. asking' = [asking EXCEPT ![r].at = "call", ![r].account = a, ![r].since = minute,
                                 ![r].usage = usage]
    BY <1>1 DEF usage
  <2> QED
    BY <2>1 DEF CacheInv, AskingOK
<1>4. \A k \in CacheRequests : asking'[k].prompt = asking[k].prompt
  BY <1>3
<1>5. prompt \in Prompts /\ Profiled(r) = Profile(prompt) /\ DOMAIN Pruned = CacheAccounts
  BY PrunedOK DEF CacheInv, AskingOK, Profiled
<1>6. uses \subseteq uses' /\ (Hits(prompt, known) # {} => use \in uses')
  BY <1>1, <1>5 DEF Hits
<1>7. AskingOK'
  BY <1>2, <1>3 DEF CacheInv, AskingOK
<1>8. UsesOK'
  <2>1. ASSUME NEW u \in uses'
        PROVE  /\ u.request \in CacheRequests /\ u.at \in 0..minute
               /\ \/ u.account \in asking'[u.request].tried
                  \/ asking'[u.request].at # "pick" /\ u.account = asking'[u.request].account
    <3>1. CASE u = use
      BY <1>2, <1>3, <3>1
    <3>2. CASE u \in uses /\ u.request = r
      BY <1>2, <1>3, <3>2 DEF CacheInv, UsesOK
    <3>3. CASE u \in uses /\ u.request # r
      BY <1>3, <3>3 DEF CacheInv, UsesOK
    <3>4. u = use \/ u \in uses
      BY <1>1
    <3> QED
      BY <3>1, <3>2, <3>3, <3>4
  <2> QED
    BY <1>2, <2>1 DEF UsesOK
<1>9. EntriesOK'
  <2>1. CASE Profiled(r).points = <<>>
    <3>1. entries' = entries
      BY <1>1, <2>1
    <3>2. DOMAIN entries' = CacheAccounts
      BY <3>1 DEF CacheInv, EntriesOK
    <3> QED
      BY <1>4, <1>6, <3>1, <3>2, EntriesKept
  <2>2. CASE Profiled(r).points # <<>>
    <3>1. entries' = [Pruned EXCEPT ![a] = Refreshed(Profiled(r), known)]
      BY <1>1, <2>2
    <3>2. DOMAIN entries' = CacheAccounts
      BY <1>5, <3>1
    <3>3. \A b \in CacheAccounts : b # a => entries'[b] = Pruned[b]
      BY <1>5, <3>1
    <3>4. entries'[a] = Refreshed(Profile(prompt), known)
      BY <1>5, <3>1
    <3>5. ASSUME NEW p \in DOMAIN entries'[a]
          PROVE  \/ EntryOK(asking', uses', a, p, entries'[a][p])
                 \/ p \in DOMAIN Pruned[a] /\ entries'[a][p] = Pruned[a][p]
      <4>1. CASE Hits(prompt, known) = {}
        <5>1. entries'[a] = known
          BY <3>4, <4>1 DEF Refreshed, Hits
        <5> QED
          BY <5>1
      <4>2. CASE Hits(prompt, known) # {}
        <5>1. entries'[a] = [known EXCEPT ![hit.prefix] =
                                [expires |-> minute + @.ttl, ttl |-> @.ttl]]
          BY <3>4, <4>2 DEF Refreshed, Hits, LastHit
        <5>2. DOMAIN entries'[a] = DOMAIN known
          BY <5>1
        <5>3. CASE p # hit.prefix
          BY <5>1, <5>2, <5>3
        <5>4. CASE p = hit.prefix
          <6> DEFINE old == known[p]
          <6>1. entries'[a][p] = [expires |-> minute + old.ttl, ttl |-> old.ttl]
            BY <5>1, <5>2, <5>4
          <6>2. EntryOK(asking, uses, a, p, old)
            BY <5>2, PrunedOK
          <6>3. \A u \in uses : u.request \in CacheRequests
            BY DEF CacheInv, UsesOK
          <6>4. EntryOK(asking', uses', a, p, old)
            <7> HIDE DEF old
            <7> QED
              BY <1>4, <1>6, <6>2, <6>3, EntryKept
          <6>5. use \in uses' /\ use.account = a /\ use.request = r /\ use.at = minute
            BY <1>6, <4>2
          <6>6. AsksFor(asking', r, p)
            <7>1. hit \in PointsOf(prompt)
              BY <1>5, <4>2, HitsAreKnown
            <7> HIDE DEF hit
            <7> QED
              BY <1>3, <5>4, <7>1 DEF AsksFor
          <6> HIDE DEF old, use
          <6> DEFINE new == entries'[a][p]
          <6>7. new.ttl = old.ttl /\ new.expires = minute + new.ttl
            BY <6>1
          <6> HIDE DEF new
          <6>8. EntryOK(asking', uses', a, p, new)
            BY <6>4, <6>5, <6>6, <6>7 DEF EntryOK
          <6> QED
            BY <6>8 DEF new
        <5> QED
          BY <5>3, <5>4
      <4> QED
        BY <4>1, <4>2
    <3>6. \A b \in CacheAccounts : \A p \in DOMAIN entries'[b] :
              \/ EntryOK(asking', uses', b, p, entries'[b][p])
              \/ p \in DOMAIN Pruned[b] /\ entries'[b][p] = Pruned[b][p]
      BY <3>3, <3>5
    <3> QED
      BY <1>4, <1>6, <3>2, <3>6, EntriesKept
  <2> QED
    BY <2>1, <2>2
<1>10. ASSUME NEW k \in CacheRequests
       PROVE  ReadOK(asking', uses', k)
  <2>1. CASE k = r
    <3>1. ReadOK(asking', uses', r)
      BY <1>2, <1>3, <1>4, <1>6, ReadWasStored
    <3> QED
      BY <2>1, <3>1
  <2>2. CASE k # r
    <3>1. asking'[k] = asking[k]
      BY <1>3, <2>2
    <3>2. ReadOK(asking, uses, k) /\ \A u \in uses : u.request \in CacheRequests
      BY DEF CacheInv, ReadsOK, UsesOK
    <3> QED
      BY <1>4, <1>6, <3>1, <3>2, ReadKept
  <2> QED
    BY <2>1, <2>2
<1> QED
  BY <1>7, <1>8, <1>9, <1>10 DEF CacheInv, ReadsOK

(* The account remembers every breakpoint of the prompt.                   *)
LEMMA StepUpdated ==
    ASSUME CacheInv, NEW r \in CacheRequests, CacheUpdated(r)
    PROVE  CacheInv'
<1> DEFINE prompt == asking[r].prompt
           profile == Profile(prompt)
           a == asking[r].account
           known == Pruned[a]
           use == [account |-> a, request |-> r, at |-> minute, stored |-> TRUE]
           prefixes == {profile.points[i].prefix : i \in Cacheable(profile)}
           asked(p) == {k \in Cacheable(profile) : profile.points[k].prefix = p}
           ttl(p) == profile.points[Max(asked(p))].ttl
<1>1. /\ asking[r].at = "call" /\ asking' = [asking EXCEPT ![r].at = "done"]
      /\ uses' = uses \cup {use} /\ minute' = minute
      /\ entries' = IF profile.points = <<>> THEN entries
                    ELSE [Pruned EXCEPT ![a] = Remembered(profile, @)]
  BY DEF CacheUpdated, Profiled
<1>2. minute \in Nat /\ prompt \in Prompts /\ DOMAIN Pruned = CacheAccounts
  BY PromptCacheAssumption, PrunedOK DEF CacheInv, AskingOK
<1>3. DOMAIN asking' = CacheRequests /\ DOMAIN asking'[r] = DOMAIN asking[r]
      /\ asking'[r].at = "done" /\ asking'[r].tried = asking[r].tried
      /\ asking'[r].prompt = prompt /\ asking'[r].account = a
      /\ asking'[r].since = asking[r].since /\ asking'[r].usage = asking[r].usage
      /\ \A k \in CacheRequests : k # r => asking'[k] = asking[k]
  BY <1>1 DEF CacheInv, AskingOK
<1>4. /\ \A k \in CacheRequests : asking'[k].prompt = asking[k].prompt
      /\ uses \subseteq uses' /\ use \in uses'
  BY <1>1, <1>3
<1>5. AskingOK'
  BY <1>1, <1>3 DEF CacheInv, AskingOK
<1>6. UsesOK'
  <2>1. ASSUME NEW u \in uses'
        PROVE  /\ u.request \in CacheRequests /\ u.at \in 0..minute
               /\ \/ u.account \in asking'[u.request].tried
                  \/ asking'[u.request].at # "pick" /\ u.account = asking'[u.request].account
    <3>1. CASE u = use
      BY <1>2, <1>3, <3>1
    <3>2. CASE u \in uses /\ u.request = r
      BY <1>3, <3>2 DEF CacheInv, UsesOK
    <3>3. CASE u \in uses /\ u.request # r
      BY <1>3, <3>3 DEF CacheInv, UsesOK
    <3>4. u = use \/ u \in uses
      BY <1>1
    <3> QED
      BY <3>1, <3>2, <3>3, <3>4
  <2> QED
    BY <1>1, <2>1 DEF UsesOK
<1>7. ASSUME NEW p \in prefixes
      PROVE  EntryOK(asking', uses', a, p, [expires |-> minute + ttl(p), ttl |-> ttl(p)])
  <2>1. profile.points \in Seq(PointsOf(prompt))
    BY <1>2, ProfileTypes
  <2>2. Len(profile.points) \in Nat /\ DOMAIN profile.points = 1..Len(profile.points)
    BY <2>1, LenProperties
  <2> DEFINE i == Max(asked(p))
  <2>3. i \in asked(p)
    <3>1. asked(p) \subseteq 0..Len(profile.points) /\ asked(p) # {}
      BY <1>7, <2>2 DEF Cacheable
    <3> HIDE DEF asked, profile
    <3> QED
      BY <2>2, <3>1, GreatestOf
  <2>4. i \in DOMAIN profile.points /\ profile.points[i].prefix = p
    BY <2>3 DEF Cacheable
  <2>5. profile.points[i] \in PointsOf(prompt)
    <3> HIDE DEF i, profile
    <3> QED
      BY <2>1, <2>2, <2>4, ElementOfSeq
  <2>6. ttl(p) \in {5, 60}
    BY <1>2, <2>5, ProfileTypes
  <2>7. AsksFor(asking', r, p)
    BY <1>3, <2>4, <2>5 DEF AsksFor
  <2>8. ttl(p) = 60 => LongAsked(asking')
    <3>1. ttl(p) = 60 => Long(prompt)
      BY <2>4 DEF Long
    <3> QED
      BY <1>3, <3>1 DEF LongAsked
  <2> DEFINE time == ttl(p)
             new == [expires |-> minute + time, ttl |-> time]
  <2>9. new.expires = minute + new.ttl /\ new.ttl = time
    OBVIOUS
  <2>10. use \in uses' /\ use.account = a /\ use.request = r /\ use.at = minute /\ use.stored
    BY <1>4
  <2> HIDE DEF use, time, new, a
  <2>11. time \in {5, 60} /\ (time = 60 => LongAsked(asking'))
    BY <2>6, <2>8 DEF time
  <2>12. EntryOK(asking', uses', a, p, new)
    BY <2>7, <2>9, <2>10, <2>11 DEF EntryOK
  <2> QED
    BY <2>12 DEF new, time
<1>8. EntriesOK'
  <2>1. CASE profile.points = <<>>
    <3>1. entries' = entries
      BY <1>1, <2>1
    <3>2. DOMAIN entries' = CacheAccounts
      BY <3>1 DEF CacheInv, EntriesOK
    <3> QED
      BY <1>4, <3>1, <3>2, EntriesKept
  <2>2. CASE profile.points # <<>>
    <3>1. entries' = [Pruned EXCEPT ![a] = Remembered(profile, known)]
      BY <1>1, <2>2
    <3>2. DOMAIN entries' = CacheAccounts
      BY <1>2, <3>1
    <3>3. \A b \in CacheAccounts : b # a => entries'[b] = Pruned[b]
      BY <1>2, <3>1
    <3>4. ASSUME a \in CacheAccounts, NEW p \in DOMAIN entries'[a]
          PROVE  \/ EntryOK(asking', uses', a, p, entries'[a][p])
                 \/ p \in DOMAIN Pruned[a] /\ entries'[a][p] = Pruned[a][p]
      <4>1. entries'[a] = Remembered(profile, known)
        BY <1>2, <3>1, <3>4
      <4>2. Remembered(profile, known) = [x \in DOMAIN known \cup prefixes |->
                IF x \in prefixes THEN [expires |-> minute + ttl(x), ttl |-> ttl(x)] ELSE known[x]]
        BY DEF Remembered
      <4>3. CASE p \in prefixes
        <5>1. entries'[a][p] = [expires |-> minute + ttl(p), ttl |-> ttl(p)]
          <6> HIDE DEF prefixes, ttl, known
          <6> QED
            BY <4>1, <4>2, <4>3
        <5> QED
          BY <1>7, <4>3, <5>1
      <4>4. CASE p \notin prefixes
        <5> HIDE DEF prefixes, ttl, known
        <5>1. p \in DOMAIN known /\ entries'[a][p] = known[p]
          BY <4>1, <4>2, <4>4
        <5> QED
          BY <5>1 DEF known
      <4> QED
        BY <4>3, <4>4
    <3>5. \A b \in CacheAccounts : \A p \in DOMAIN entries'[b] :
              \/ EntryOK(asking', uses', b, p, entries'[b][p])
              \/ p \in DOMAIN Pruned[b] /\ entries'[b][p] = Pruned[b][p]
      BY <3>3, <3>4
    <3> QED
      BY <1>4, <3>2, <3>5, EntriesKept
  <2> QED
    BY <2>1, <2>2
<1>9. ASSUME NEW k \in CacheRequests
      PROVE  ReadOK(asking', uses', k)
  <2>1. asking'[k].at \in {"call", "done"} =>
           /\ asking[k].at \in {"call", "done"}
           /\ asking'[k].usage = asking[k].usage /\ asking'[k].account = asking[k].account
           /\ asking'[k].since = asking[k].since
    BY <1>1, <1>3
  <2>2. ReadOK(asking, uses, k) /\ \A u \in uses : u.request \in CacheRequests
    BY DEF CacheInv, ReadsOK, UsesOK
  <2> QED
    BY <1>4, <2>1, <2>2, ReadKept
<1> QED
  BY <1>5, <1>6, <1>8, <1>9 DEF CacheInv, ReadsOK

(* Every step, and a stutter.                                              *)
LEMMA CacheSteps == CacheInv /\ [PromptCacheNext]_cacheVars => CacheInv'
<1> SUFFICES ASSUME CacheInv, [PromptCacheNext]_cacheVars
             PROVE  CacheInv'
  OBVIOUS
<1>1. CASE MinutesPass
  BY <1>1, StepMinutes
<1>2. ASSUME NEW r \in CacheRequests, CacheComputed(r)
      PROVE  CacheInv'
  BY <1>2, StepComputed
<1>3. ASSUME NEW r \in CacheRequests, CacheAccountFails(r)
      PROVE  CacheInv'
  BY <1>3, StepAccountFails
<1>4. ASSUME NEW r \in CacheRequests, CacheRequestFails(r)
      PROVE  CacheInv'
  BY <1>4, StepRequestFails
<1>5. ASSUME NEW r \in CacheRequests, CacheUpdated(r)
      PROVE  CacheInv'
  BY <1>5, StepUpdated
<1>6. CASE UNCHANGED cacheVars
  <2>1. asking' = asking /\ entries' = entries /\ uses' = uses /\ minute' = minute
    BY <1>6 DEF cacheVars
  <2>2. AskingOK' /\ UsesOK'
    BY <2>1 DEF CacheInv, AskingOK, UsesOK
  <2> QED
    BY <2>1, <2>2, QuietStep
<1> QED
  BY <1>1, <1>2, <1>3, <1>4, <1>5, <1>6 DEF PromptCacheNext

(* The invariant of the cache holds throughout.                            *)
LEMMA CacheHolds == PromptCacheSpec => []CacheInv
<1> QED
  BY CacheStarts, CacheSteps, PTL DEF PromptCacheSpec

(* A request that is told it read tokens from the prompt cache shares at   *)
(* least so many with a prompt that another request stored on the same     *)
(* account before, and with one that used the entry within its lifetime;   *)
(* and it is never told that more than 85 in 100 of its prompt were read.  *)
THEOREM ReadsWereStored == PromptCacheSpec => []CacheReadWasStored
<1>1. CacheInv => CacheReadWasStored
  BY DEF CacheInv, ReadsOK, ReadOK, CacheReadWasStored, LongAsked, Long, Profiled
<1> QED
  BY <1>1, CacheHolds, PTL

(* Requests and entries have their types.                                  *)
THEOREM CacheTypes == PromptCacheSpec => []PromptCacheTypeOK
<1>1. CacheInv => PromptCacheTypeOK
  BY DEF CacheInv, AskingOK, EntriesOK, EntryOK, PromptCacheTypeOK
<1> QED
  BY <1>1, CacheHolds, PTL

(***************************************************************************)
(* Streams.  What is written, first: how the histories of events, of their *)
(* items and of the answer in them grow (ItemsOf, AnswersIn), which blocks *)
(* are open (Placed, BlocksAre) and which thoughts (MarksAre).  Then what  *)
(* is read: a reader that takes the text one character at a time (Split)   *)
(* is brought to the same place by what the handler does with a chunk at a *)
(* time, half a tag held back (Reads).  Sound joins the two for the state  *)
(* of an attempt, and StreamInv for a request.                             *)
(***************************************************************************)
(* Append, as a function.                                                  *)
LEMMA AppendIs ==
    ASSUME NEW S, NEW q \in Seq(S), NEW e \in S
    PROVE  Append(q, e) = [i \in 1..Len(q) + 1 |-> IF i = Len(q) + 1 THEN e ELSE q[i]]
<1>1. Append(q, e) \in Seq(S) /\ Len(Append(q, e)) = Len(q) + 1 /\ Len(q) \in Nat
      /\ Append(q, e)[Len(q) + 1] = e /\ \A i \in 1..Len(q) : Append(q, e)[i] = q[i]
  BY AppendProperties, LenProperties
<1>2. Append(q, e) \in [1..Len(q) + 1 -> S]
  BY <1>1, LenProperties
<1> DEFINE r == Append(q, e)
<1> HIDE DEF r
<1>4. r = [i \in 1..Len(q) + 1 |-> r[i]]
  BY <1>2 DEF r
<1>3. \A i \in 1..Len(q) + 1 : i = Len(q) + 1 \/ i \in 1..Len(q)
  BY <1>1
<1> QED
  BY <1>1, <1>3, <1>4 DEF r

(* What a stream put together is at a place.                               *)
LEMMA FlatAt ==
    ASSUME NEW f, NEW q, NEW n, IsFlat(f, q, n), NEW i \in 1..n
    PROVE  f[i] = IF i = 1 THEN q[i] ELSE f[i - 1] \o q[i]
BY DEF IsFlat

(***************************************************************************)
(* What is shown: the items of a history of events, put together.          *)
(***************************************************************************)
(* What a stream puts together once has one value.                         *)
LEMMA FlatUnique ==
    ASSUME NEW q, NEW r, NEW n \in Nat, NEW m \in 1..n, NEW f, NEW g,
           IsFlat(f, q, m), IsFlat(g, r, n), \A i \in 1..m : q[i] = r[i]
    PROVE  f[m] = g[m]
<1> DEFINE T == {k \in 1..m : f[k] # g[k]}
<1> SUFFICES ASSUME T # {}
             PROVE  FALSE
  <2>1. m \in 1..m
    OBVIOUS
  <2> QED
    BY <2>1
<1>1. PICK k \in T : \A j \in T : k <= j
  <2>1. T \subseteq Nat
    OBVIOUS
  <2> HIDE DEF T
  <2> QED
    BY <2>1, LeastNatural, Zenon
<1>2. k \in 1..m /\ k \in 1..n /\ f[k] # g[k]
  BY <1>1
<1>3. /\ f[k] = IF k = 1 THEN q[k] ELSE f[k - 1] \o q[k]
      /\ g[k] = IF k = 1 THEN r[k] ELSE g[k - 1] \o r[k]
  BY <1>2 DEF IsFlat
<1>4. k # 1
  BY <1>2, <1>3
<1>5. k - 1 \in 1..m /\ ~(k <= k - 1)
  BY <1>2, <1>4
<1>6. f[k - 1] = g[k - 1]
  BY <1>1, <1>5
<1> QED
  BY <1>2, <1>3, <1>4, <1>6

(* One more sequence.                                                      *)
LEMMA FlattenAppend ==
    ASSUME NEW S, NEW q \in Seq(Seq(S)), NEW s \in Seq(S)
    PROVE  FlattenSeq(Append(q, s)) = FlattenSeq(q) \o s
<1> DEFINE n == Len(q)
           r == Append(q, s)
<1>1. /\ n \in Nat /\ \A i \in 1..n : q[i] \in Seq(S) /\ r[i] = q[i]
      /\ r \in Seq(Seq(S)) /\ Len(r) = n + 1 /\ r[n + 1] = s
  BY LenProperties, ElementOfSeq, AppendProperties
<1>2. \A i \in 1..n + 1 : r[i] \in Seq(S)
  BY <1>1, ElementOfSeq
<1> DEFINE f == CHOOSE x : IsFlat(x, q, n)
           g == CHOOSE x : IsFlat(x, r, n + 1)
<1>3. IsFlat(g, r, n + 1)
  <2>1. n + 1 \in Nat
    BY <1>1
  <2> HIDE DEF r, n
  <2>2. \E x \in [1..n + 1 -> Seq(S)] : IsFlat(x, r, n + 1)
    BY <1>2, <2>1, FlatExists
  <2> QED
    BY <2>2
<1>4. FlattenSeq(r) = g[n + 1]
  <2>1. Len(r) # 0
    BY <1>1
  <2> QED
    BY <1>1, <2>1 DEF FlattenSeq, IsFlat
<1>5. g[n + 1] = IF n + 1 = 1 THEN r[n + 1] ELSE g[n + 1 - 1] \o r[n + 1]
  <2> DEFINE m == n + 1
  <2>1. m \in 1..m /\ IsFlat(g, r, m)
    BY <1>1, <1>3
  <2> HIDE DEF g, r, m
  <2>2. g[m] = IF m = 1 THEN r[m] ELSE g[m - 1] \o r[m]
    BY <2>1, FlatAt
  <2> QED
    BY <2>2 DEF m
<1>6. CASE n = 0
  <2>1. q = <<>> /\ FlattenSeq(q) = q
    BY <1>6, EmptySeq DEF FlattenSeq
  <2>2. FlattenSeq(q) \o s = s
    BY <2>1, ConcatEmptySeq
  <2> QED
    BY <1>1, <1>4, <1>5, <1>6, <2>2
<1>7. CASE n # 0
  <2>1. IsFlat(f, q, n)
    BY <1>1, FlatExists
  <2>2. FlattenSeq(q) = f[n]
    BY <1>7 DEF FlattenSeq, IsFlat
  <2> HIDE DEF f, g, r, n
  <2>3. n + 1 \in Nat /\ n \in 0..n + 1 /\ n \in 1..n /\ n + 1 # 1 /\ n + 1 - 1 = n
    BY <1>1, <1>7
  <2>4. f[n] = g[n]
    <3> DEFINE m == n + 1
    <3>1. \A i \in 1..n : q[i] = r[i]
      BY <1>1
    <3>2. m \in Nat /\ n \in 1..m /\ IsFlat(g, r, m)
      BY <1>1, <1>3, <2>3
    <3> HIDE DEF m
    <3> QED
      BY <2>1, <3>1, <3>2, FlatUnique
  <2>5. g[n + 1] = f[n] \o s
    BY <1>1, <1>5, <2>3, <2>4
  <2> QED
    BY <1>4, <2>2, <2>5 DEF r
<1> QED
  BY <1>6, <1>7

(* The items of the events of a history, all of them or the answer's.      *)
ItemsOf(q) == FlattenSeq([i \in DOMAIN q |-> q[i].items])
AnswersIn(q) == FlattenSeq([i \in DOMAIN q |-> IF q[i].part = "answer" THEN q[i].items ELSE <<>>])

(* Items come from stream n, except for the marks around a thought.        *)
Spelled == STRING \cup {"made", "open", "shut"}
LiveItems(n) == [ch : Spelled, of : {n}, n : Nat]
TextItems(n) == [ch : Spelled, of : {n}, n : Nat \ {0}]
MarkItems == [ch : {"open", "shut"}, of : {0}, n : {0}]
ShownItems(n) == LiveItems(n) \cup MarkItems
ShownEvents(n) ==
    [ev : {"message_start", "block_start", "block_delta", "block_stop", "message_delta",
           "message_stop", "chunk", "finish", "response", "error", "http_error"},
     index : Int, part : {"", "answer", "thought", "text", "thinking", "tool"},
     items : Seq(ShownItems(n))]

(* What an event at the end of a history adds.                             *)
LEMMA ShownAppend ==
    ASSUME NEW n, NEW q \in Seq(ShownEvents(n)), NEW e \in ShownEvents(n)
    PROVE  /\ Append(q, e) \in Seq(ShownEvents(n)) /\ IsHistory(q)
           /\ ItemsOf(q) \in Seq(ShownItems(n)) /\ AnswersIn(q) \in Seq(ShownItems(n))
           /\ ItemsOf(Append(q, e)) = ItemsOf(q) \o e.items
           /\ AnswersIn(Append(q, e)) =
                 AnswersIn(q) \o (IF e.part = "answer" THEN e.items ELSE <<>>)
<1> DEFINE S == ShownItems(n)
           r == Append(q, e)
           k == Len(q)
           items(p) == [i \in DOMAIN p |-> p[i].items]
           own(x) == IF x.part = "answer" THEN x.items ELSE <<>>
           answers(p) == [i \in DOMAIN p |-> own(p[i])]
<1>1. /\ k \in Nat /\ DOMAIN q = 1..k /\ DOMAIN r = 1..k + 1
      /\ r \in Seq(ShownEvents(n)) /\ r[k + 1] = e /\ \A i \in 1..k : r[i] = q[i]
  BY LenProperties, AppendProperties
<1>2. \A x \in ShownEvents(n) : x.items \in Seq(S) /\ own(x) \in Seq(S)
  BY EmptySeq DEF ShownEvents
<1> HIDE DEF S, r, own
<1>3. \A i \in 1..k : q[i] \in ShownEvents(n)
  BY ElementOfSeq
<1> HIDE DEF k
<1>4. items(q) \in Seq(Seq(S)) /\ answers(q) \in Seq(Seq(S))
  <2>1. items(q) \in [1..k -> Seq(S)]
    BY <1>1, <1>2, <1>3
  <2>2. answers(q) \in [1..k -> Seq(S)]
    BY <1>1, <1>2, <1>3
  <2> HIDE DEF items, answers
  <2> QED
    BY <1>1, <2>1, <2>2, SeqDef
<1>5. Len(items(q)) = k /\ Len(answers(q)) = k
  <2>1. DOMAIN items(q) = 1..k /\ DOMAIN answers(q) = 1..k
    BY <1>1
  <2> HIDE DEF items, answers
  <2> QED
    BY <1>1, <1>4, <2>1, LenProperties
<1>6. items(r) = Append(items(q), e.items) /\ answers(r) = Append(answers(q), own(e))
  <2>1. items(r) = [i \in 1..k + 1 |-> IF i = k + 1 THEN e.items ELSE items(q)[i]]
    BY <1>1
  <2>2. answers(r) = [i \in 1..k + 1 |-> IF i = k + 1 THEN own(e) ELSE answers(q)[i]]
    BY <1>1
  <2>3. Append(items(q), e.items) = [i \in 1..k + 1 |-> IF i = k + 1 THEN e.items ELSE items(q)[i]]
    BY <1>4, <1>5, <1>2, AppendIs
  <2>4. Append(answers(q), own(e)) = [i \in 1..k + 1 |-> IF i = k + 1 THEN own(e) ELSE answers(q)[i]]
    BY <1>4, <1>5, <1>2, AppendIs
  <2> QED
    BY <2>1, <2>2, <2>3, <2>4
<1>7. FlattenSeq(items(q)) \in Seq(S) /\ FlattenSeq(answers(q)) \in Seq(S)
  BY <1>4, FlattenTypes
<1>8. /\ FlattenSeq(items(r)) = FlattenSeq(items(q)) \o e.items
      /\ FlattenSeq(answers(r)) = FlattenSeq(answers(q)) \o own(e)
  BY <1>2, <1>4, <1>6, FlattenAppend
<1> QED
  BY <1>1, <1>7, <1>8, HistoryOf DEF ItemsOf, AnswersIn, own, S, r

(* The items of a history, and those of its answer, are shown items.       *)
LEMMA ShownTypes ==
    ASSUME NEW n, NEW q \in Seq(ShownEvents(n))
    PROVE  ItemsOf(q) \in Seq(ShownItems(n)) /\ AnswersIn(q) \in Seq(ShownItems(n))
<1>1. <<>> \in Seq(ShownItems(n)) /\ -1 \in Int
  BY EmptySeq
<1> DEFINE e == Event("error", -1, "", <<>>)
<1>2. e \in ShownEvents(n)
  BY <1>1 DEF Event, ShownEvents
<1> HIDE DEF e
<1> QED
  BY <1>2, ShownAppend

(***************************************************************************)
(* Blocks.                                                                 *)
(***************************************************************************)
Starts(q) == Kind(q, "block_start")
Stops(q) == Kind(q, "block_stop")

(* The blocks that are open at place i, and those open at the end.         *)
OpenOf(q, i) == {k \in Starts(q) : k <= i /\ ~\E c \in Stops(q) : k < c /\ c < i}
OpenNow(q) == {k \in Starts(q) : ~\E c \in Stops(q) : k < c}

(* Each event of a block is in its place.                                  *)
Placed(q) ==
    /\ \A i \in Kind(q, "message_start") : i = 1
    /\ \A i \in Starts(q) : /\ q[1].ev = "message_start"
                            /\ q[i].index = Cardinality(Under(i, Starts(q)))
                            /\ OpenOf(q, i) = {i}
    /\ \A i \in Stops(q) \cup Kind(q, "block_delta") :
          \E k \in OpenOf(q, i) : OpenOf(q, i) = {k} /\ q[k].index = q[i].index

(* So far there were n blocks, of which the one numbered b is open, or     *)
(* none is; the message goes on.                                           *)
BlocksAre(q, n, b) ==
    /\ IsHistory(q) /\ n \in Nat /\ b \in Int
    /\ Placed(q)
    /\ Kind(q, "message_stop") = {}
    /\ Cardinality(Starts(q)) = n
    /\ Cardinality(Stops(q)) = IF b < 0 THEN n ELSE n - 1
    /\ b < 0 => OpenNow(q) = {}
    /\ b >= 0 => \E k \in DOMAIN q : OpenNow(q) = {k} /\ q[k].index = b

(* What is open at a place does not change, and at the end it is what is   *)
(* open there, and the block that the event begins.                        *)
LEMMA OpenAppended ==
    ASSUME NEW q, NEW e, IsHistory(q)
    PROVE  /\ \A i \in 1..Len(q) : OpenOf(Append(q, e), i) = OpenOf(q, i)
           /\ OpenOf(Append(q, e), Len(q) + 1) =
                 OpenNow(q) \cup (IF e.ev = "block_start" THEN {Len(q) + 1} ELSE {})
           /\ OpenNow(Append(q, e)) =
                 CASE e.ev = "block_start" -> OpenNow(q) \cup {Len(q) + 1}
                   [] e.ev = "block_stop" -> {}
                   [] OTHER -> OpenNow(q)
<1> DEFINE r == Append(q, e)
           n == Len(q)
<1>1. /\ Starts(r) = Starts(q) \cup (IF e.ev = "block_start" THEN {n + 1} ELSE {})
      /\ Stops(r) = Stops(q) \cup (IF e.ev = "block_stop" THEN {n + 1} ELSE {})
  BY EventAppended DEF Starts, Stops
<1>2. n \in Nat /\ Starts(q) \subseteq 1..n /\ Stops(q) \subseteq 1..n
  BY HistoryAppend DEF Starts, Stops, Kind
<1> HIDE DEF r, n
<1>3. ASSUME NEW i \in 1..n
      PROVE  OpenOf(r, i) = OpenOf(q, i)
  <2>1. ASSUME NEW k
        PROVE  k \in OpenOf(r, i) <=> k \in OpenOf(q, i)
    BY <1>1, <1>2 DEF OpenOf
  <2> QED
    BY <2>1 DEF OpenOf
<1>4. OpenOf(r, n + 1) = OpenNow(q) \cup (IF e.ev = "block_start" THEN {n + 1} ELSE {})
  <2>1. ASSUME NEW k
        PROVE  k \in OpenOf(r, n + 1) <=>
                  k \in OpenNow(q) \/ (e.ev = "block_start" /\ k = n + 1)
    BY <1>1, <1>2 DEF OpenOf, OpenNow
  <2> QED
    BY <2>1
<1>5. CASE e.ev = "block_start"
  <2>1. ASSUME NEW k
        PROVE  k \in OpenNow(r) <=> k \in OpenNow(q) \/ k = n + 1
    BY <1>1, <1>2, <1>5 DEF OpenNow
  <2>2. OpenNow(r) = OpenNow(q) \cup {n + 1}
    BY <2>1
  <2> QED
    BY <1>3, <1>4, <1>5, <2>2 DEF r, n
<1>6. CASE e.ev = "block_stop"
  <2>1. OpenNow(r) = {}
    BY <1>1, <1>2, <1>6 DEF OpenNow
  <2> QED
    BY <1>3, <1>4, <1>6, <2>1 DEF r, n
<1>7. CASE e.ev \notin {"block_start", "block_stop"}
  <2>1. OpenNow(r) = OpenNow(q)
    BY <1>1, <1>7 DEF OpenNow
  <2> QED
    BY <1>3, <1>4, <1>7, <2>1 DEF r, n
<1> QED
  BY <1>5, <1>6, <1>7

(* An event that is in its place after all that came before.               *)
LEMMA PlacedAppend ==
    ASSUME NEW q, NEW e, IsHistory(q), Placed(q),
           e.ev = "message_start" => Len(q) = 0,
           e.ev = "block_start" => /\ Len(q) # 0 /\ q[1].ev = "message_start"
                                   /\ e.index = Cardinality(Starts(q)) /\ OpenNow(q) = {},
           e.ev \in {"block_stop", "block_delta"} =>
              \E k \in DOMAIN q : OpenNow(q) = {k} /\ q[k].index = e.index
    PROVE  Placed(Append(q, e))
<1> DEFINE r == Append(q, e)
           n == Len(q)
<1>1. /\ n \in Nat /\ DOMAIN q = 1..n /\ DOMAIN r = 1..n + 1
      /\ r[n + 1] = e /\ \A i \in 1..n : r[i] = q[i]
  BY HistoryAppend
<1>2. /\ \A ev : Kind(r, ev) = Kind(q, ev) \cup (IF e.ev = ev THEN {n + 1} ELSE {})
      /\ \A i \in 1..n : Under(i, Starts(r)) = Under(i, Starts(q))
      /\ Under(n + 1, Starts(r)) = Starts(q)
  BY EventAppended DEF Starts
<1>3. /\ \A i \in 1..n : OpenOf(r, i) = OpenOf(q, i)
      /\ OpenOf(r, n + 1) = OpenNow(q) \cup (IF e.ev = "block_start" THEN {n + 1} ELSE {})
  BY OpenAppended
<1>4. \A ev : Kind(q, ev) \subseteq 1..n
  BY <1>1 DEF Kind
<1>5. \A i \in 1..n : OpenOf(q, i) \subseteq 1..n
  BY <1>4 DEF OpenOf, Starts
<1> HIDE DEF r, n
<1>6. ASSUME NEW i \in Kind(r, "message_start")
      PROVE  i = 1
  BY <1>1, <1>2, <1>6 DEF Placed, n
<1>7. ASSUME NEW i \in Starts(r)
      PROVE  /\ r[1].ev = "message_start"
             /\ r[i].index = Cardinality(Under(i, Starts(r))) /\ OpenOf(r, i) = {i}
  <2>1. CASE i \in Starts(q)
    <3>1. i \in 1..n /\ 1 \in 1..n
      BY <1>1, <1>4, <2>1 DEF Starts
    <3> QED
      BY <1>1, <1>2, <1>3, <2>1, <3>1 DEF Placed
  <2>2. CASE i \notin Starts(q)
    <3>1. i = n + 1 /\ e.ev = "block_start"
      BY <1>2, <2>2 DEF Starts
    <3>2. 1 \in 1..n
      BY <1>1, <3>1 DEF n
    <3> QED
      BY <1>1, <1>2, <1>3, <3>1, <3>2
  <2> QED
    BY <2>1, <2>2
<1>8. ASSUME NEW i \in Stops(r) \cup Kind(r, "block_delta")
      PROVE  \E k \in OpenOf(r, i) : OpenOf(r, i) = {k} /\ r[k].index = r[i].index
  <2>1. CASE i \in Stops(q) \cup Kind(q, "block_delta")
    <3>1. i \in 1..n
      BY <1>4, <2>1 DEF Stops
    <3>2. PICK k \in OpenOf(q, i) : OpenOf(q, i) = {k} /\ q[k].index = q[i].index
      BY <2>1 DEF Placed
    <3>3. k \in 1..n
      BY <1>5, <3>1, <3>2
    <3> QED
      BY <1>1, <1>3, <3>1, <3>2, <3>3
  <2>2. CASE i \notin Stops(q) \cup Kind(q, "block_delta")
    <3>1. i = n + 1 /\ e.ev \in {"block_stop", "block_delta"}
      BY <1>2, <2>2 DEF Stops
    <3>2. PICK k \in DOMAIN q : OpenNow(q) = {k} /\ q[k].index = e.index
      BY <3>1
    <3>3. OpenOf(r, n + 1) = {k} /\ r[k].index = e.index
      BY <1>1, <1>3, <3>1, <3>2
    <3> QED
      BY <1>1, <3>1, <3>3
  <2> QED
    BY <2>1, <2>2
<1> QED
  BY <1>6, <1>7, <1>8 DEF Placed, r

(* What an event does to the blocks.                                       *)
LEMMA BlockAppended ==
    ASSUME NEW q, NEW n, NEW b, NEW e, BlocksAre(q, n, b), e.ev # "message_stop"
    PROVE  /\ e.ev = "message_start" /\ q = <<>> => BlocksAre(Append(q, e), n, b)
           /\ /\ e.ev = "block_start" /\ q # <<>> /\ q[1].ev = "message_start"
              /\ b < 0 /\ e.index = n
              => BlocksAre(Append(q, e), n + 1, n)
           /\ e.ev = "block_delta" /\ b >= 0 /\ e.index = b => BlocksAre(Append(q, e), n, b)
           /\ e.ev = "block_stop" /\ b >= 0 /\ e.index = b => BlocksAre(Append(q, e), n, -1)
           /\ e.ev \notin {"message_start", "block_start", "block_delta", "block_stop"} =>
                 BlocksAre(Append(q, e), n, b)
<1> DEFINE r == Append(q, e)
<1>1. IsHistory(q) /\ n \in Nat /\ b \in Int /\ Placed(q)
  BY DEF BlocksAre
<1>2. /\ IsHistory(r) /\ DOMAIN q = 1..Len(q) /\ DOMAIN r = 1..Len(q) + 1 /\ Len(q) \in Nat
      /\ r[Len(q) + 1] = e /\ \A i \in 1..Len(q) : r[i] = q[i]
  BY <1>1, HistoryAppend
<1>3. /\ Cardinality(Starts(r)) = n + (IF e.ev = "block_start" THEN 1 ELSE 0)
      /\ Cardinality(Stops(r)) =
            (IF b < 0 THEN n ELSE n - 1) + (IF e.ev = "block_stop" THEN 1 ELSE 0)
      /\ Kind(r, "message_stop") = {}
  BY <1>1, EventAppended DEF BlocksAre, Starts, Stops
<1>4. OpenNow(r) = CASE e.ev = "block_start" -> OpenNow(q) \cup {Len(q) + 1}
                     [] e.ev = "block_stop" -> {}
                     [] OTHER -> OpenNow(q)
  BY <1>1, OpenAppended
<1>5. ASSUME NEW k \in DOMAIN q
      PROVE  k \in DOMAIN r /\ r[k] = q[k]
  BY <1>2
<1>6. q # <<>> => Len(q) # 0
  <2>1. q \in Seq({q[i] : i \in DOMAIN q})
    BY <1>1 DEF IsHistory
  <2> QED
    BY <2>1, EmptySeq
<1> HIDE DEF r
<1>7. ASSUME e.ev = "message_start", q = <<>>
      PROVE  BlocksAre(r, n, b)
  <2>1. Placed(r)
    <3>1. Len(q) = 0
      BY <1>7
    <3> QED
      BY <1>1, <1>7, <3>1, PlacedAppend DEF r
  <2>2. OpenNow(r) = OpenNow(q)
    BY <1>4, <1>7
  <2> QED
    BY <1>1, <1>2, <1>3, <1>5, <1>7, <2>1, <2>2 DEF BlocksAre
<1>8. ASSUME e.ev = "block_start", q # <<>>, q[1].ev = "message_start", b < 0, e.index = n
      PROVE  BlocksAre(r, n + 1, n)
  <2>1. OpenNow(q) = {} /\ Cardinality(Starts(q)) = n
    BY <1>8 DEF BlocksAre
  <2>2. Placed(r)
    BY <1>1, <1>6, <1>8, <2>1, PlacedAppend DEF r
  <2>3. OpenNow(r) = {Len(q) + 1} /\ Len(q) + 1 \in DOMAIN r /\ r[Len(q) + 1].index = n
    BY <1>2, <1>4, <1>8, <2>1
  <2> QED
    BY <1>1, <1>2, <1>3, <1>8, <2>2, <2>3 DEF BlocksAre
<1>9. ASSUME e.ev = "block_delta", b >= 0, e.index = b
      PROVE  BlocksAre(r, n, b)
  <2>1. PICK k \in DOMAIN q : OpenNow(q) = {k} /\ q[k].index = b
    BY <1>9 DEF BlocksAre
  <2>2. Placed(r)
    BY <1>1, <1>9, <2>1, PlacedAppend DEF r
  <2>3. OpenNow(r) = {k} /\ k \in DOMAIN r /\ r[k].index = b
    BY <1>4, <1>5, <1>9, <2>1
  <2> QED
    BY <1>1, <1>2, <1>3, <1>9, <2>2, <2>3 DEF BlocksAre
<1>10. ASSUME e.ev = "block_stop", b >= 0, e.index = b
       PROVE  BlocksAre(r, n, -1)
  <2>1. PICK k \in DOMAIN q : OpenNow(q) = {k} /\ q[k].index = b
    BY <1>10 DEF BlocksAre
  <2>2. Placed(r)
    BY <1>1, <1>10, <2>1, PlacedAppend DEF r
  <2>3. OpenNow(r) = {}
    BY <1>4, <1>10
  <2> QED
    BY <1>1, <1>2, <1>3, <1>10, <2>2, <2>3 DEF BlocksAre
<1>11. ASSUME e.ev \notin {"message_start", "block_start", "block_delta", "block_stop"}
       PROVE  BlocksAre(r, n, b)
  <2>1. Placed(r)
    BY <1>1, <1>11, PlacedAppend DEF r
  <2>2. OpenNow(r) = OpenNow(q)
    BY <1>4, <1>11
  <2> QED
    BY <1>1, <1>2, <1>3, <1>5, <1>11, <2>1, <2>2 DEF BlocksAre
<1> QED
  BY <1>7, <1>8, <1>9, <1>10, <1>11 DEF r

(***************************************************************************)
(* The marks around the thoughts shown as tags.                            *)
(***************************************************************************)
MarksIn(s) == {i \in DOMAIN s : IsMark(s[i])}

(* They open and shut in turn, and k of them are open at the end.          *)
MarksAre(s, k) ==
    /\ \A i \in MarksIn(s) :
          s[i].ch = IF Cardinality(Under(i, MarksIn(s))) % 2 = 0 THEN "open" ELSE "shut"
    /\ Cardinality(MarksIn(s)) % 2 = k

(* A sequence of places has finitely many of them.                         *)
LEMMA MarksFinite ==
    ASSUME NEW S, NEW s \in Seq(S)
    PROVE  /\ IsFiniteSet(MarksIn(s)) /\ Cardinality(MarksIn(s)) \in Nat
           /\ MarksIn(s) \subseteq 1..Len(s) /\ Len(s) \in Nat
<1>1. Len(s) \in Nat /\ DOMAIN s = 1..Len(s)
  BY LenProperties
<1>2. MarksIn(s) \subseteq 1..Len(s)
  BY <1>1 DEF MarksIn
<1>3. IsFiniteSet(1..Len(s))
  <2>1. 1 \in Int /\ Len(s) \in Int
    BY <1>1
  <2> QED
    BY <2>1, FS_Interval
<1> QED
  BY <1>1, <1>2, <1>3, FS_Subset, FS_CardinalityType

(* An item at the end.                                                     *)
LEMMA MarkAppended ==
    ASSUME NEW n \in Nat \ {0}, NEW s \in Seq(ShownItems(n)), NEW k \in {0, 1},
           MarksAre(s, k), NEW item \in ShownItems(n)
    PROVE  /\ item \in LiveItems(n) => MarksAre(Append(s, item), k)
           /\ item = Mark(IF k = 0 THEN "open" ELSE "shut") => MarksAre(Append(s, item), 1 - k)
<1> DEFINE r == Append(s, item)
           m == Len(s)
           M == MarksIn(s)
           c == Cardinality(M)
<1>1. /\ m \in Nat /\ DOMAIN s = 1..m /\ DOMAIN r = 1..m + 1 /\ r[m + 1] = item
      /\ \A i \in 1..m : r[i] = s[i]
  BY LenProperties, AppendProperties
<1>2. IsFiniteSet(M) /\ c \in Nat /\ M \subseteq 1..m
  BY MarksFinite
<1>3. \A i \in M : s[i].ch = IF Cardinality(Under(i, M)) % 2 = 0 THEN "open" ELSE "shut"
  BY DEF MarksAre
<1>4. c % 2 = k
  BY DEF MarksAre
<1>5. ASSUME item \in LiveItems(n)
      PROVE  MarksAre(r, k)
  <2>1. ~IsMark(item)
    BY <1>5 DEF IsMark, LiveItems
  <2> HIDE DEF r, m
  <2>2. MarksIn(r) = M
    BY <1>1, <2>1 DEF MarksIn
  <2>3. \A i \in M : r[i] = s[i]
    BY <1>1, <1>2
  <2> HIDE DEF M
  <2> QED
    BY <1>3, <1>4, <2>2, <2>3 DEF MarksAre
<1>6. ASSUME item = Mark(IF k = 0 THEN "open" ELSE "shut")
      PROVE  MarksAre(r, 1 - k)
  <2>1. IsMark(item) /\ item.ch = IF k = 0 THEN "open" ELSE "shut"
    BY <1>6 DEF IsMark, Mark
  <2> HIDE DEF r, m
  <2>2. MarksIn(r) = M \cup {m + 1} /\ m + 1 \notin M
    BY <1>1, <1>2, <2>1 DEF MarksIn
  <2>3. \A i \in M : r[i] = s[i]
    BY <1>1, <1>2
  <2> HIDE DEF M
  <2>4. Cardinality(MarksIn(r)) = c + 1
    BY <1>2, <2>2, FS_AddElement
  <2>5. \A i \in M : Under(i, MarksIn(r)) = Under(i, M)
    BY <1>1, <1>2, <2>2 DEF Under
  <2>6. Under(m + 1, MarksIn(r)) = M
    <3>0. m \in Nat /\ M \subseteq 1..m
      BY <1>1, <1>2
    <3> HIDE DEF c
    <3>1. \A j \in M : j < m + 1
      BY <3>0
    <3>2. ~(m + 1 < m + 1)
      BY <3>0
    <3> QED
      BY <2>2, <3>1, <3>2 DEF Under
  <2> HIDE DEF c
  <2>7. (c + 1) % 2 = 1 - k
    BY <1>2, <1>4
  <2>8. \A i \in MarksIn(r) :
           r[i].ch = IF Cardinality(Under(i, MarksIn(r))) % 2 = 0 THEN "open" ELSE "shut"
    <3>1. TAKE i \in MarksIn(r)
    <3>2. CASE i \in M
      BY <1>3, <2>3, <2>5, <3>2
    <3>3. CASE i = m + 1
      <4>1. Cardinality(Under(i, MarksIn(r))) % 2 = k
        BY <1>4, <2>6, <3>3 DEF c
      <4>2. r[i].ch = IF k = 0 THEN "open" ELSE "shut"
        BY <1>1, <2>1, <3>3
      <4> QED
        BY <4>1, <4>2
    <3> QED
      BY <2>2, <3>2, <3>3
  <2> QED
    BY <2>4, <2>7, <2>8 DEF MarksAre
<1> QED
  BY <1>5, <1>6

(* What a stream said may be shown.                                        *)
LEMMA LiveShown ==
    ASSUME NEW n, NEW items \in Seq(LiveItems(n))
    PROVE  items \in Seq(ShownItems(n))
<1>1. LiveItems(n) \subseteq ShownItems(n)
  BY DEF ShownItems
<1>2. Len(items) \in Nat /\ items \in [1..Len(items) -> LiveItems(n)]
  BY LenProperties
<1>3. items \in [1..Len(items) -> ShownItems(n)]
  BY <1>1, <1>2
<1> QED
  BY <1>1, <1>2, <1>3, SeqDef

(* Items between the marks.                                                *)
LEMMA LiveAppended ==
    ASSUME NEW n \in Nat \ {0}, NEW s \in Seq(ShownItems(n)), NEW k \in {0, 1},
           MarksAre(s, k), NEW items \in Seq(LiveItems(n))
    PROVE  s \o items \in Seq(ShownItems(n)) /\ MarksAre(s \o items, k)
<1> DEFINE r == s \o items
           m == Len(s)
           M == MarksIn(s)
<1>1. items \in Seq(ShownItems(n))
  BY LiveShown
<1>2. /\ r \in Seq(ShownItems(n)) /\ Len(r) = m + Len(items)
      /\ \A i \in 1..Len(r) : r[i] = IF i <= m THEN s[i] ELSE items[i - m]
  BY <1>1, ConcatProperties
<1>3. /\ m \in Nat /\ DOMAIN s = 1..m /\ Len(items) \in Nat
      /\ DOMAIN r = 1..m + Len(items)
  BY <1>1, <1>2, LenProperties
<1>4. \A i \in 1..Len(items) : ~IsMark(items[i])
  <2>1. TAKE i \in 1..Len(items)
  <2>2. items[i] \in LiveItems(n)
    BY ElementOfSeq
  <2> QED
    BY <2>2 DEF LiveItems, IsMark
<1>5. M \subseteq 1..m
  BY MarksFinite
<1> HIDE DEF r, m
<1>6. \A i \in DOMAIN r : IF i <= m THEN i \in DOMAIN s /\ r[i] = s[i] ELSE ~IsMark(r[i])
  <2>1. TAKE i \in DOMAIN r
  <2>2. CASE i <= m
    BY <1>2, <1>3, <2>2
  <2>3. CASE ~(i <= m)
    <3>1. i - m \in 1..Len(items)
      BY <1>3, <2>3
    <3>2. r[i] = items[i - m]
      BY <1>2, <1>3, <2>3
    <3> QED
      BY <1>4, <2>3, <3>1, <3>2
  <2> QED
    BY <2>2, <2>3
<1>7. MarksIn(r) = M
  <2>1. ASSUME NEW i
        PROVE  i \in MarksIn(r) <=> i \in M
    <3>1. CASE i \in DOMAIN s
      <4>1. i \in DOMAIN r /\ i <= m
        BY <1>3, <3>1
      <4> QED
        BY <1>6, <3>1, <4>1 DEF MarksIn
    <3>2. CASE i \notin DOMAIN s
      BY <1>6, <3>2 DEF MarksIn
    <3> QED
      BY <3>1, <3>2
  <2> HIDE DEF M
  <2> QED
    BY <2>1 DEF MarksIn, M
<1>8. \A i \in M : r[i] = s[i]
  BY <1>3, <1>5, <1>6
<1> QED
  BY <1>2, <1>7, <1>8 DEF MarksAre, r

(* A piece of a thought with its marks: the first piece opens, the last    *)
(* shuts.                                                                  *)
LEMMA FirstPiece ==
    ASSUME NEW n \in Nat \ {0}, NEW s \in Seq(ShownItems(n)), MarksAre(s, 0),
           NEW items \in Seq(LiveItems(n))
    PROVE  /\ Marked(items, 1) \in Seq(ShownItems(n)) /\ Marked(items, 1) # <<>>
           /\ MarksAre(s \o Marked(items, 1), 1)
<1> DEFINE mark == Mark("open")
           open == <<mark>>
<1>1. items \in Seq(ShownItems(n))
  BY LiveShown
<1>2. mark \in ShownItems(n) /\ open \in Seq(ShownItems(n))
  <2>1. mark \in ShownItems(n)
    BY DEF Mark, ShownItems, MarkItems
  <2> QED
    BY <2>1, OneSequence
<1>3. open \o items \in Seq(ShownItems(n)) /\ Len(open \o items) = Len(open) + Len(items)
      /\ Len(open) = 1 /\ Len(items) \in Nat
  BY <1>1, <1>2, ConcatProperties, LenProperties
<1>4. Marked(items, 1) = open \o items
  <2>1. Marked(items, 1) = (open \o items) \o <<>>
    BY DEF Marked
  <2> HIDE DEF open
  <2> QED
    BY <1>3, <2>1, ConcatEmptySeq
<1>5. s \o (open \o items) = (s \o open) \o items /\ s \o open = Append(s, mark)
  BY <1>1, <1>2, ConcatAssociative, AppendIsConcat
<1>6. Append(s, mark) \in Seq(ShownItems(n)) /\ MarksAre(Append(s, mark), 1)
  <2>1. 1 - 0 = 1 /\ mark = Mark(IF 0 = 0 THEN "open" ELSE "shut") /\ 0 \in {0, 1}
    OBVIOUS
  <2> HIDE DEF mark
  <2>2. MarksAre(Append(s, mark), 1 - 0)
    BY <1>2, <2>1, MarkAppended
  <2> QED
    BY <1>2, <2>1, <2>2, AppendProperties
<1> HIDE DEF open, mark
<1>7. MarksAre((s \o open) \o items, 1)
  BY <1>5, <1>6, LiveAppended
<1>8. open \o items # <<>>
  <2>1. Len(open \o items) # 0
    BY <1>3
  <2> QED
    BY <2>1, EmptySeq, Zenon
<1>9. s \o (open \o items) = (s \o open) \o items
  BY <1>5, Zenon
<1> QED
  BY <1>3, <1>4, <1>7, <1>8, <1>9, Zenon

(* A piece that ends a thought closes it.                                  *)
LEMMA LastPiece ==
    ASSUME NEW n \in Nat \ {0}, NEW s \in Seq(ShownItems(n)), MarksAre(s, 1),
           NEW items \in Seq(LiveItems(n))
    PROVE  /\ Marked(items, 3) \in Seq(ShownItems(n)) /\ Marked(items, 3) # <<>>
           /\ MarksAre(s \o Marked(items, 3), 0)
<1> DEFINE mark == Mark("shut")
           shut == <<mark>>
<1>1. items \in Seq(ShownItems(n))
  BY LiveShown
<1>2. mark \in ShownItems(n) /\ shut \in Seq(ShownItems(n))
  <2>1. mark \in ShownItems(n)
    BY DEF Mark, ShownItems, MarkItems
  <2> QED
    BY <2>1, OneSequence
<1>3. items \o shut \in Seq(ShownItems(n)) /\ Len(items \o shut) = Len(items) + Len(shut)
      /\ Len(shut) = 1 /\ Len(items) \in Nat
  BY <1>1, <1>2, ConcatProperties, LenProperties
<1>4. Marked(items, 3) = items \o shut
  <2>1. Marked(items, 3) = (<<>> \o items) \o shut
    BY DEF Marked
  <2> HIDE DEF shut
  <2> QED
    BY <1>1, <2>1, ConcatEmptySeq
<1>6. s \o items \in Seq(ShownItems(n)) /\ MarksAre(s \o items, 1)
  BY LiveAppended
<1>5. s \o (items \o shut) = (s \o items) \o shut /\ (s \o items) \o shut = Append(s \o items, mark)
  BY <1>1, <1>2, <1>6, ConcatAssociative, AppendIsConcat
<1>7. MarksAre(Append(s \o items, mark), 0)
  <2>1. 1 - 1 = 0 /\ mark = Mark(IF 1 = 0 THEN "open" ELSE "shut") /\ 1 \in {0, 1}
    OBVIOUS
  <2> HIDE DEF mark
  <2>2. MarksAre(Append(s \o items, mark), 1 - 1)
    BY <1>2, <1>6, <2>1, MarkAppended
  <2> QED
    BY <2>1, <2>2
<1> HIDE DEF shut, mark
<1>8. items \o shut # <<>>
  <2>1. Len(items \o shut) # 0
    BY <1>3
  <2> QED
    BY <2>1, EmptySeq, Zenon
<1>9. s \o (items \o shut) = Append(s \o items, mark)
  BY <1>5, Zenon
<1> QED
  BY <1>3, <1>4, <1>7, <1>8, <1>9, Zenon

(* A piece in the middle of a thought leaves it as it is.                  *)
LEMMA MiddlePiece ==
    ASSUME NEW n, NEW items \in Seq(LiveItems(n))
    PROVE  Marked(items, 2) = items
<1>1. items \in Seq(ShownItems(n))
  BY LiveShown
<1>2. Marked(items, 2) = (<<>> \o items) \o <<>>
  BY DEF Marked
<1> QED
  BY <1>1, <1>2, ConcatEmptySeq

(***************************************************************************)
(* What an attempt has written, after what the client already has.         *)
(***************************************************************************)
(* The handler's state while it reads stream n.                            *)
Views(n) ==
    [begun : BOOLEAN, next : Nat, block : Int, type : {"", "text", "thinking"},
     buffer : Seq(TextItems(n)), inThinking : BOOLEAN, drop : BOOLEAN,
     source : {"unknown", "tag", "reasoning"}, started : BOOLEAN, open : BOOLEAN,
     content : Seq(LiveItems(n)), tools : Seq(LiveItems(n)), out : Seq(ShownEvents(n))]

Got(v) == wire \o v.out

(* What the client has is in order, and v says where in it the message is; *)
(* in the tag style k thoughts are open.                                   *)
Good(v, n, k) ==
    /\ v \in Views(n) /\ wire \in Seq(ShownEvents(n))
    /\ BlocksAre(Got(v), v.next, v.block)
    /\ v.begun <=> Got(v) # <<>>
    /\ v.type = "" <=> v.block < 0
    /\ ask.client = "claude" /\ v.begun => Got(v)[1].ev = "message_start"
    /\ MarksAre(ItemsOf(Got(v)), IF ask.style = "tags" THEN k ELSE 0)

(* Writing leaves the part of the state alone that reads the stream.       *)
SameReader(u, v) ==
    /\ u.buffer = v.buffer /\ u.inThinking = v.inThinking /\ u.drop = v.drop
    /\ u.source = v.source /\ u.started = v.started /\ u.open = v.open
    /\ u.content = v.content /\ u.tools = v.tools

(* One event is written.                                                   *)
LEMMA WriteIs ==
    ASSUME NEW n, NEW v \in Views(n), wire \in Seq(ShownEvents(n)), NEW e \in ShownEvents(n)
    PROVE  /\ Write(v, e) \in Views(n) /\ SameReader(Write(v, e), v)
           /\ Write(v, e).begun = v.begun /\ Write(v, e).next = v.next
           /\ Write(v, e).block = v.block /\ Write(v, e).type = v.type
           /\ Got(v) \in Seq(ShownEvents(n)) /\ Got(Write(v, e)) = Append(Got(v), e)
           /\ Got(Write(v, e)) # <<>>
<1>1. v.out \in Seq(ShownEvents(n))
  BY DEF Views
<1>2. Append(v.out, e) \in Seq(ShownEvents(n))
  BY <1>1, AppendProperties
<1>3. Write(v, e) = [v EXCEPT !.out = Append(v.out, e)]
  BY DEF Write
<1>4. /\ Write(v, e) \in Views(n) /\ SameReader(Write(v, e), v)
      /\ Write(v, e).begun = v.begun /\ Write(v, e).next = v.next
      /\ Write(v, e).block = v.block /\ Write(v, e).type = v.type
      /\ Write(v, e).out = Append(v.out, e)
  <2> DEFINE x == Append(v.out, e)
  <2>1. x \in Seq(ShownEvents(n)) /\ Write(v, e) = [v EXCEPT !.out = x]
        /\ x = Append(v.out, e)
    BY <1>2, <1>3
  <2> HIDE DEF x
  <2> QED
    BY <2>1 DEF Views, SameReader
<1>5. Got(v) \in Seq(ShownEvents(n))
  BY <1>1, ConcatProperties DEF Got
<1>6. Append(wire \o v.out, e) = wire \o Append(v.out, e)
  <2> DEFINE s == <<e>>
  <2>1. s \in Seq(ShownEvents(n)) /\ (wire \o v.out) \o s = Append(wire \o v.out, e)
        /\ v.out \o s = Append(v.out, e)
    BY <1>1, <1>5, OneSequence, AppendIsConcat DEF Got
  <2> HIDE DEF s
  <2>2. (wire \o v.out) \o s = wire \o (v.out \o s)
    <3> DEFINE o == v.out
    <3>1. o \in Seq(ShownEvents(n))
      BY <1>1
    <3>2. s \in Seq(ShownEvents(n))
      BY <2>1
    <3> HIDE DEF o
    <3>3. (wire \o o) \o s = wire \o (o \o s)
      BY <3>1, <3>2, ConcatAssociative
    <3> QED
      BY <3>3 DEF o
  <2> QED
    BY <2>1, <2>2
<1>7. Got(Write(v, e)) = Append(Got(v), e)
  BY <1>4, <1>6 DEF Got
<1>8. Append(Got(v), e) # <<>>
  <2>1. Len(Append(Got(v), e)) # 0
    BY <1>5, AppendProperties, LenProperties
  <2> QED
    BY <2>1, EmptySeq
<1> QED
  BY <1>4, <1>5, <1>7, <1>8

(* An event without items.                                                 *)
LEMMA EventIs ==
    ASSUME NEW n, NEW i \in Int,
           NEW ev \in {"message_start", "block_start", "block_delta", "block_stop",
                       "message_delta", "message_stop", "chunk", "finish", "response",
                       "error", "http_error"},
           NEW part \in {"", "answer", "thought", "text", "thinking", "tool"}, NEW items \in Seq(ShownItems(n))
    PROVE  /\ Event(ev, i, part, items) \in ShownEvents(n)
           /\ Event(ev, i, part, items).ev = ev /\ Event(ev, i, part, items).index = i
           /\ Event(ev, i, part, items).part = part /\ Event(ev, i, part, items).items = items
BY DEF Event, ShownEvents

(* The items of what was written: nothing is added by an event without     *)
(* any.                                                                    *)
LEMMA ItemsWritten ==
    ASSUME NEW n, NEW v \in Views(n), wire \in Seq(ShownEvents(n)), NEW e \in ShownEvents(n)
    PROVE  /\ ItemsOf(Got(v)) \in Seq(ShownItems(n)) /\ AnswersIn(Got(v)) \in Seq(ShownItems(n))
           /\ ItemsOf(Got(Write(v, e))) = ItemsOf(Got(v)) \o e.items
           /\ AnswersIn(Got(Write(v, e))) =
                 AnswersIn(Got(v)) \o (IF e.part = "answer" THEN e.items ELSE <<>>)
           /\ e.items = <<>> => /\ ItemsOf(Got(Write(v, e))) = ItemsOf(Got(v))
                                /\ AnswersIn(Got(Write(v, e))) = AnswersIn(Got(v))
<1>1. Got(v) \in Seq(ShownEvents(n)) /\ Got(Write(v, e)) = Append(Got(v), e)
  BY WriteIs
<1> DEFINE q == Got(v)
           w == Got(Write(v, e))
<1> HIDE DEF q, w
<1>2. /\ ItemsOf(q) \in Seq(ShownItems(n)) /\ AnswersIn(q) \in Seq(ShownItems(n))
      /\ ItemsOf(w) = ItemsOf(q) \o e.items
      /\ AnswersIn(w) = AnswersIn(q) \o (IF e.part = "answer" THEN e.items ELSE <<>>)
  BY <1>1, ShownAppend DEF q, w
<1>3. e.items = <<>> => ItemsOf(w) = ItemsOf(q) /\ AnswersIn(w) = AnswersIn(q)
  BY <1>2, ConcatEmptySeq
<1> QED
  BY <1>2, <1>3 DEF q, w

(* The message has started, with nothing said by it.                       *)
LEMMA Ensured ==
    ASSUME NEW n, NEW k, NEW v, Good(v, n, k), ask.client = "claude"
    PROVE  LET w == EnsureMessageStart(v)
           IN  /\ Good(w, n, k) /\ SameReader(w, v)
               /\ w.begun /\ w.block = v.block /\ w.type = v.type /\ w.next = v.next
               /\ AnswersIn(Got(w)) = AnswersIn(Got(v))
<1> DEFINE e == Event("message_start", -1, "", <<>>)
           u == Write(v, e)
           w == [u EXCEPT !.begun = TRUE]
<1>1. v \in Views(n) /\ wire \in Seq(ShownEvents(n))
  BY DEF Good
<1>2. CASE v.begun
  <2>1. EnsureMessageStart(v) = v
    BY <1>2 DEF EnsureMessageStart
  <2> QED
    BY <1>2, <2>1 DEF SameReader
<1>3. CASE ~v.begun
  <2>1. e \in ShownEvents(n) /\ e.ev = "message_start" /\ e.items = <<>>
    <3> DEFINE i == -1
    <3>1. i \in Int /\ <<>> \in Seq(ShownItems(n))
      BY EmptySeq
    <3> HIDE DEF i
    <3>2. /\ Event("message_start", i, "", <<>>) \in ShownEvents(n)
          /\ Event("message_start", i, "", <<>>).ev = "message_start"
          /\ Event("message_start", i, "", <<>>).items = <<>>
      BY <3>1 DEF Event, ShownEvents
    <3> QED
      BY <3>2 DEF i
  <2> HIDE DEF e
  <2>2. /\ u \in Views(n) /\ SameReader(u, v) /\ u.begun = v.begun /\ u.next = v.next
        /\ u.block = v.block /\ u.type = v.type /\ Got(u) = Append(Got(v), e)
    BY <1>1, <2>1, WriteIs
  <2>3. /\ ItemsOf(Got(u)) = ItemsOf(Got(v)) /\ AnswersIn(Got(u)) = AnswersIn(Got(v))
    BY <1>1, <2>1, ItemsWritten
  <2>4. BlocksAre(Got(v), v.next, v.block) /\ Got(v) = <<>>
    BY <1>3 DEF Good
  <2>5. BlocksAre(Got(u), v.next, v.block)
    BY <2>1, <2>2, <2>4, BlockAppended
  <2>6. Got(u) # <<>> /\ Got(u)[1].ev = "message_start"
    <3>1. Got(u) # <<>>
      BY <1>1, <2>1, WriteIs
    <3>2. Len(Got(v)) = 0
      BY <2>4
    <3>3. Append(Got(v), e)[Len(Got(v)) + 1] = e
      BY <1>1, <2>1, WriteIs, AppendProperties
    <3> QED
      BY <2>1, <2>2, <3>1, <3>2, <3>3
  <2> HIDE DEF u
  <2>7. /\ w \in Views(n) /\ SameReader(w, u) /\ w.begun = TRUE /\ w.next = u.next
        /\ w.block = u.block /\ w.type = u.type /\ w.out = u.out
    BY <2>2 DEF Views, SameReader
  <2>8. Got(w) = Got(u)
    BY <2>7 DEF Got
  <2>9. EnsureMessageStart(v) = w
    BY <1>3 DEF EnsureMessageStart, u, e
  <2> HIDE DEF w
  <2>10. Good(w, n, k)
    BY <1>1, <2>2, <2>3, <2>5, <2>6, <2>7, <2>8 DEF Good
  <2>11. SameReader(w, v)
    BY <2>2, <2>7 DEF SameReader
  <2> QED
    BY <2>2, <2>3, <2>7, <2>8, <2>9, <2>10, <2>11
<1> QED
  BY <1>2, <1>3

(* The block that was open, if one was, is closed.                         *)
LEMMA BlockClosed ==
    ASSUME NEW n, NEW k, NEW v, Good(v, n, k)
    PROVE  LET w == CloseActiveBlock(v)
           IN  /\ Good(w, n, k) /\ SameReader(w, v)
               /\ (w.begun <=> v.begun) /\ w.block < 0 /\ w.next = v.next
               /\ AnswersIn(Got(w)) = AnswersIn(Got(v))
<1> DEFINE e == Event("block_stop", v.block, "", <<>>)
           u == Write(v, e)
           w == [u EXCEPT !.block = -1, !.type = ""]
<1>1. v \in Views(n) /\ wire \in Seq(ShownEvents(n)) /\ v.block \in Int
  BY DEF Good, Views
<1>2. CASE v.block < 0
  <2>1. CloseActiveBlock(v) = v
    BY <1>2 DEF CloseActiveBlock
  <2> QED
    BY <1>2, <2>1 DEF SameReader, Good
<1>3. CASE ~(v.block < 0)
  <2>1. e \in ShownEvents(n) /\ e.ev = "block_stop" /\ e.items = <<>> /\ e.index = v.block
    <3>1. <<>> \in Seq(ShownItems(n))
      BY EmptySeq
    <3> QED
      BY <1>1, <3>1 DEF Event, ShownEvents
  <2> HIDE DEF e
  <2>2. /\ u \in Views(n) /\ SameReader(u, v) /\ u.begun = v.begun /\ u.next = v.next
        /\ Got(u) = Append(Got(v), e) /\ Got(u) # <<>> /\ Got(v) \in Seq(ShownEvents(n))
    BY <1>1, <2>1, WriteIs
  <2>3. /\ ItemsOf(Got(u)) = ItemsOf(Got(v)) /\ AnswersIn(Got(u)) = AnswersIn(Got(v))
    BY <1>1, <2>1, ItemsWritten
  <2>4. BlocksAre(Got(v), v.next, v.block)
    BY DEF Good
  <2>5. v.begun /\ Got(v) # <<>>
    <3>1. PICK i \in DOMAIN Got(v) : OpenNow(Got(v)) = {i}
      BY <1>1, <1>3, <2>4 DEF BlocksAre
    <3>2. Got(v) # <<>>
      BY <3>1
    <3> QED
      BY <3>2 DEF Good
  <2>6. BlocksAre(Got(u), v.next, -1)
    <3>1. v.block >= 0 /\ e.ev # "message_stop"
      BY <1>1, <1>3, <2>1
    <3> QED
      BY <2>1, <2>2, <2>4, <3>1, BlockAppended
  <2>7. Got(u)[1] = Got(v)[1]
    <3>1. 1 \in 1..Len(Got(v))
      BY <2>2, <2>5, LenProperties, EmptySeq
    <3> QED
      BY <2>1, <2>2, <3>1, AppendProperties
  <2> HIDE DEF u
  <2>8. /\ w \in Views(n) /\ SameReader(w, u) /\ w.begun = u.begun /\ w.next = u.next
        /\ w.block = -1 /\ w.type = "" /\ w.out = u.out
    <3>1. -1 \in Int
      OBVIOUS
    <3> DEFINE b == -1
    <3>2. b \in Int /\ w = [u EXCEPT !.block = b, !.type = ""] /\ b = -1
      BY <3>1
    <3>3. "" \in {"", "text", "thinking"}
      OBVIOUS
    <3> HIDE DEF b, w
    <3> QED
      BY <2>2, <3>2, <3>3 DEF Views, SameReader
  <2>9. Got(w) = Got(u)
    BY <2>8 DEF Got
  <2>10. CloseActiveBlock(v) = w
    BY <1>3 DEF CloseActiveBlock, u, e
  <2> HIDE DEF w
  <2>13. -1 < 0
    OBVIOUS
  <2>11. Good(w, n, k)
    BY <1>1, <2>13, <2>2, <2>3, <2>5, <2>6, <2>7, <2>8, <2>9 DEF Good
  <2>12. SameReader(w, v)
    BY <2>2, <2>8 DEF SameReader
  <2> QED
    BY <2>2, <2>3, <2>8, <2>9, <2>10, <2>11, <2>12, <2>13
<1> QED
  BY <1>2, <1>3

(* A block of the type given is open.                                      *)
LEMMA BlockStarted ==
    ASSUME NEW n, NEW k, NEW v, Good(v, n, k), ask.client = "claude",
           NEW type \in {"text", "thinking"}
    PROVE  LET w == StartContentBlock(v, type)
           IN  /\ Good(w, n, k) /\ SameReader(w, v)
               /\ w.begun /\ w.block >= 0 /\ w.type = type
               /\ AnswersIn(Got(w)) = AnswersIn(Got(v))
<1>1. CASE v.type = type
  <2>1. StartContentBlock(v, type) = v
    BY <1>1 DEF StartContentBlock
  <2>2. ~(v.block < 0) /\ v.block \in Int /\ BlocksAre(Got(v), v.next, v.block)
    BY <1>1 DEF Good, Views
  <2>3. PICK i \in DOMAIN Got(v) : OpenNow(Got(v)) = {i}
    BY <2>2 DEF BlocksAre
  <2>4. Got(v) # <<>>
    BY <2>3
  <2>5. v.begun /\ v.block >= 0
    <3>1. v.begun
      BY <2>4 DEF Good
    <3>2. v.block >= 0
      BY <2>2
    <3> QED
      BY <3>1, <3>2
  <2> QED
    BY <1>1, <2>1, <2>5 DEF SameReader
<1> DEFINE a == EnsureMessageStart(v)
           c == CloseActiveBlock(a)
           e == Event("block_start", c.next, type, <<>>)
           u == Write(c, e)
           w == [u EXCEPT !.block = c.next, !.type = type, !.next = u.next + 1]
<1>2. CASE v.type # type
  <2>1. StartContentBlock(v, type) = [u EXCEPT !.block = c.next, !.type = type, !.next = @ + 1]
    BY <1>2 DEF StartContentBlock
  <2>2. Good(a, n, k) /\ SameReader(a, v) /\ a.begun /\ AnswersIn(Got(a)) = AnswersIn(Got(v))
    BY Ensured
  <2> HIDE DEF a
  <2>3. /\ Good(c, n, k) /\ SameReader(c, a) /\ c.begun /\ c.block < 0
        /\ AnswersIn(Got(c)) = AnswersIn(Got(a))
    BY <2>2, BlockClosed, Zenon
  <2> HIDE DEF c
  <2>4. c \in Views(n) /\ wire \in Seq(ShownEvents(n)) /\ c.next \in Nat /\ c.next \in Int
    <3>1. c \in Views(n) /\ wire \in Seq(ShownEvents(n))
      BY <2>3 DEF Good
    <3>2. c.next \in Nat
      BY <3>1 DEF Views
    <3> QED
      BY <3>1, <3>2
  <2>5. e \in ShownEvents(n) /\ e.ev = "block_start" /\ e.items = <<>> /\ e.index = c.next
    <3>1. <<>> \in Seq(ShownItems(n))
      BY EmptySeq
    <3> QED
      BY <2>4, <3>1 DEF Event, ShownEvents
  <2> HIDE DEF e
  <2>6. /\ u \in Views(n) /\ SameReader(u, c) /\ u.begun = c.begun /\ u.next = c.next
        /\ Got(u) = Append(Got(c), e) /\ Got(u) # <<>> /\ Got(c) \in Seq(ShownEvents(n))
    BY <2>4, <2>5, WriteIs
  <2>7. /\ ItemsOf(Got(u)) = ItemsOf(Got(c)) /\ AnswersIn(Got(u)) = AnswersIn(Got(c))
    BY <2>4, <2>5, ItemsWritten
  <2>8. /\ BlocksAre(Got(c), c.next, c.block) /\ Got(c) # <<>>
        /\ Got(c)[1].ev = "message_start"
    BY <2>3 DEF Good
  <2>9. BlocksAre(Got(u), c.next + 1, c.next)
    <3>1. e.ev # "message_stop"
      BY <2>5
    <3> QED
      BY <2>3, <2>5, <2>6, <2>8, <3>1, BlockAppended
  <2>10. Got(u)[1] = Got(c)[1]
    <3>1. 1 \in 1..Len(Got(c))
      BY <2>6, <2>8, LenProperties, EmptySeq
    <3> QED
      BY <2>5, <2>6, <3>1, AppendProperties
  <2>15. w = [u EXCEPT !.block = c.next, !.type = type, !.next = @ + 1]
    BY <2>6 DEF Views
  <2> HIDE DEF u
  <2>11. /\ w \in Views(n) /\ SameReader(w, u) /\ w.begun = u.begun /\ w.next = c.next + 1
         /\ w.block = c.next /\ w.type = type /\ w.out = u.out
    <3> DEFINE m == u.next + 1
    <3>1. m \in Nat /\ w = [u EXCEPT !.block = c.next, !.type = type, !.next = m]
          /\ m = c.next + 1
      BY <2>4, <2>6
    <3> DEFINE b == c.next
    <3>2. b \in Int /\ w = [u EXCEPT !.block = b, !.type = type, !.next = m]
      BY <2>4, <3>1
    <3>3. type \in {"", "text", "thinking"}
      OBVIOUS
    <3> HIDE DEF m, w, b
    <3>4. /\ w \in Views(n) /\ SameReader(w, u) /\ w.begun = u.begun /\ w.next = m
          /\ w.block = b /\ w.type = type /\ w.out = u.out
      BY <2>6, <3>1, <3>2, <3>3, ZenonT(30) DEF Views, SameReader
    <3> QED
      BY <3>1, <3>4 DEF b
  <2> HIDE DEF w
  <2>12. Got(w) = Got(u)
    BY <2>11 DEF Got
  <2>13. c.next >= 0 /\ ~(c.next < 0)
    BY <2>4
  <2>14. Good(w, n, k)
    BY <2>3, <2>4, <2>6, <2>7, <2>8, <2>9, <2>10, <2>11, <2>12, <2>13 DEF Good
  <2>16. SameReader(w, v)
    BY <2>2, <2>3, <2>6, <2>11 DEF SameReader
  <2>17. AnswersIn(Got(w)) = AnswersIn(Got(v)) /\ StartContentBlock(v, type) = w
    BY <2>1, <2>2, <2>3, <2>7, <2>12, <2>15
  <2> QED
    BY <2>3, <2>6, <2>11, <2>13, <2>14, <2>16, <2>17
<1> QED
  BY <1>1, <1>2

(***************************************************************************)
(* Sending a piece of the answer or of a thought.                          *)
(***************************************************************************)
(* Only the tag style has marks to count.                                  *)
LEMMA NoMarks ==
    ASSUME NEW n, NEW v, NEW k, NEW j, Good(v, n, k), ask.style = "tags" => k = j
    PROVE  Good(v, n, j)
BY DEF Good

(* The message begins with its first event, and its type says whether a    *)
(* block is open; an event says its items if it is part of the answer.     *)
Begins(q) == q[1].ev = "message_start"
Headed(v) == ask.client = "claude" /\ v.begun => Begins(Got(v))
TypeFits(v) == v.type = "" <=> v.block < 0
SaidBy(e) == IF e.part = "answer" THEN e.items ELSE <<>>
MarkLevel(k) == IF ask.style = "tags" THEN k ELSE 0
MayFollow(e, w) ==
    /\ e.ev \in {"block_delta", "chunk"}
    /\ e.ev = "block_delta" => w.block >= 0 /\ e.index = w.block

(* A piece falls into the block that is open, or is a chunk of its own.    *)
LEMMA PieceIs ==
    ASSUME NEW n, NEW k, NEW j, NEW w, Good(w, n, k), NEW e \in ShownEvents(n),
           MayFollow(e, w), MarksAre(ItemsOf(Got(w)) \o e.items, MarkLevel(j))
    PROVE  LET u == Write(w, e)
           IN  /\ u \in Views(n) /\ wire \in Seq(ShownEvents(n)) /\ SameReader(u, w)
               /\ BlocksAre(Got(u), u.next, u.block) /\ Got(u) # <<>>
               /\ TypeFits(u) /\ Headed(u)
               /\ MarksAre(ItemsOf(Got(u)), MarkLevel(j))
               /\ AnswersIn(Got(u)) = AnswersIn(Got(w)) \o SaidBy(e)
               /\ (u.begun <=> w.begun) /\ u.type = w.type /\ u.block = w.block
<1> DEFINE u == Write(w, e)
<1>1. w \in Views(n) /\ wire \in Seq(ShownEvents(n))
  BY DEF Good
<1>2. /\ u \in Views(n) /\ SameReader(u, w) /\ u.begun = w.begun /\ u.next = w.next
      /\ u.block = w.block /\ u.type = w.type
      /\ Got(w) \in Seq(ShownEvents(n)) /\ Got(u) = Append(Got(w), e) /\ Got(u) # <<>>
  BY <1>1, WriteIs
<1>3. /\ ItemsOf(Got(u)) = ItemsOf(Got(w)) \o e.items
      /\ AnswersIn(Got(u)) = AnswersIn(Got(w)) \o SaidBy(e)
  BY <1>1, ItemsWritten DEF SaidBy
<1> HIDE DEF u
<1>4. BlocksAre(Got(u), u.next, u.block)
  <2>1. BlocksAre(Got(w), w.next, w.block) /\ e.ev # "message_stop"
    BY DEF Good, MayFollow
  <2>2. CASE e.ev = "block_delta"
    BY <1>2, <2>1, <2>2, BlockAppended DEF MayFollow
  <2>3. CASE e.ev = "chunk"
    BY <1>2, <2>1, <2>3, BlockAppended
  <2> QED
    BY <2>2, <2>3 DEF MayFollow
<1>5. ASSUME ask.client = "claude", w.begun
      PROVE  Begins(Got(u))
  <2>1. Got(w) # <<>> /\ Got(w)[1].ev = "message_start"
    BY <1>5 DEF Good
  <2>2. 1 \in 1..Len(Got(w))
    BY <1>2, <2>1, LenProperties, EmptySeq
  <2>3. Got(u)[1] = Got(w)[1]
    BY <1>2, <2>2, AppendProperties
  <2> QED
    BY <2>1, <2>3 DEF Begins
<1>6. TypeFits(u) /\ (u.begun <=> w.begun) /\ Headed(u)
  BY <1>2, <1>5 DEF Good, TypeFits, Headed
<1>7. MarksAre(ItemsOf(Got(u)), MarkLevel(j))
  BY <1>3
<1> QED
  BY <1>1, <1>2, <1>3, <1>4, <1>6, <1>7 DEF u

(* The marks open before and after a piece of a thought.                   *)
Before(state) == IF state = 1 THEN 0 ELSE 1
After(state) == IF state = 3 THEN 0 ELSE 1

(* The marks that a piece of a thought brings.                             *)
LEMMA PieceMarks ==
    ASSUME NEW n \in Nat \ {0}, NEW items \in Seq(LiveItems(n)), NEW state \in {1, 2, 3},
           NEW s \in Seq(ShownItems(n)), MarksAre(s, Before(state))
    PROVE  /\ Marked(items, state) \in Seq(ShownItems(n))
           /\ MarksAre(s \o Marked(items, state), After(state))
           /\ Marked(items, state) = <<>> => Before(state) = After(state)
<1>1. CASE state = 1
  <2>1. Before(1) = 0 /\ After(1) = 1
    BY DEF Before, After
  <2>2. /\ Marked(items, 1) \in Seq(ShownItems(n)) /\ Marked(items, 1) # <<>>
        /\ MarksAre(s \o Marked(items, 1), 1)
    <3>1. MarksAre(s, 0)
      BY <1>1, <2>1
    <3> QED
      BY <3>1, FirstPiece
  <2> QED
    BY <1>1, <2>1, <2>2
<1>2. CASE state = 2
  <2>1. Before(2) = 1 /\ After(2) = 1
    BY DEF Before, After
  <2>2. Marked(items, 2) = items /\ items \in Seq(ShownItems(n))
    BY MiddlePiece, LiveShown
  <2>3. MarksAre(s \o items, 1)
    <3>1. MarksAre(s, 1) /\ 1 \in {0, 1}
      BY <1>2, <2>1
    <3> QED
      BY <3>1, LiveAppended
  <2> QED
    BY <1>2, <2>1, <2>2, <2>3
<1>3. CASE state = 3
  <2>1. Before(3) = 1 /\ After(3) = 0
    BY DEF Before, After
  <2>2. /\ Marked(items, 3) \in Seq(ShownItems(n)) /\ Marked(items, 3) # <<>>
        /\ MarksAre(s \o Marked(items, 3), 0)
    <3>1. MarksAre(s, 1)
      BY <1>3, <2>1
    <3> QED
      BY <3>1, LastPiece
  <2> QED
    BY <1>3, <2>1, <2>2
<1> QED
  BY <1>1, <1>2, <1>3

(* The marks open after a piece of any kind, of which k were open before.  *)
Then(state, k) == IF state = 0 THEN k ELSE After(state)

(* What is shown of a piece may follow what was shown.                     *)
LEMMA ShownPiece ==
    ASSUME NEW n \in Nat \ {0}, NEW items \in Seq(LiveItems(n)), NEW state \in {0, 1, 2, 3},
           NEW k \in {0, 1}, state # 0 => k = Before(state),
           NEW s \in Seq(ShownItems(n)), MarksAre(s, IF ask.style = "tags" THEN k ELSE 0),
           NEW shown,
           state = 0 => shown = items,
           state # 0 => shown = IF ask.style = "tags" THEN Marked(items, state) ELSE items
    PROVE  /\ shown \in Seq(ShownItems(n))
           /\ MarksAre(s \o shown, IF ask.style = "tags" THEN Then(state, k) ELSE 0)
           /\ shown = <<>> /\ ask.style = "tags" => Then(state, k) = k
<1>1. CASE state # 0 /\ ask.style = "tags"
  <2>1. state \in {1, 2, 3} /\ MarksAre(s, Before(state)) /\ shown = Marked(items, state)
        /\ Then(state, k) = After(state) /\ k = Before(state)
    BY <1>1 DEF Then
  <2>2. /\ Marked(items, state) \in Seq(ShownItems(n))
        /\ MarksAre(s \o Marked(items, state), After(state))
        /\ Marked(items, state) = <<>> => Before(state) = After(state)
    BY <2>1, PieceMarks
  <2> QED
    BY <1>1, <2>1, <2>2
<1>2. CASE state = 0 \/ ask.style # "tags"
  <2> DEFINE j == IF ask.style = "tags" THEN k ELSE 0
  <2>1. shown = items /\ items \in Seq(ShownItems(n))
    BY <1>2, LiveShown
  <2>2. j \in {0, 1} /\ MarksAre(s, j)
    OBVIOUS
  <2>3. (IF ask.style = "tags" THEN Then(state, k) ELSE 0) = j
    BY <1>2 DEF Then
  <2> HIDE DEF j
  <2>4. MarksAre(s \o items, j)
    BY <2>2, LiveAppended
  <2>5. ask.style = "tags" => Then(state, k) = k
    BY <1>2 DEF Then
  <2> QED
    BY <2>1, <2>3, <2>4, <2>5
<1> QED
  BY <1>1, <1>2

(* A piece that is sent takes its place after what was sent before, and    *)
(* only a piece of the answer is added to what was said.                   *)
Turned(state, k) == state # 0 => k = Before(state)
Tagged == ~ask.thinking => ask.style # "tags"
SentAs(x, v, n, k, items, state) ==
    /\ Good(x, n, Then(state, k)) /\ SameReader(x, v)
    /\ AnswersIn(Got(x)) = AnswersIn(Got(v)) \o (IF state = 0 THEN items ELSE <<>>)

(* sendText of the Claude handler: the items go into a block of their      *)
(* type.                                                                   *)
LEMMA SendTextIs ==
    ASSUME NEW n \in Nat \ {0}, NEW k \in {0, 1}, NEW v, Good(v, n, k), ask.client = "claude",
           NEW items \in Seq(LiveItems(n)), NEW state \in {0, 1, 2, 3},
           Turned(state, k), Tagged
    PROVE  SentAs(SendText(v, items, state), v, n, k, items, state)
<1> DEFINE own   == state > 0 /\ ask.style \in {"block", "omit"}
           type  == IF own THEN "thinking" ELSE "text"
           shown == CASE state = 0 \/ ask.style \notin {"tags", "omit"} -> items
                      [] state # 0 /\ ask.style = "tags" -> Marked(items, state)
                      [] state # 0 /\ ask.style = "omit" -> <<>>
           w     == IF shown # <<>> \/ (ask.style = "omit" /\ state \in {1, 3})
                    THEN StartContentBlock(v, type) ELSE v
           part  == IF state = 0 THEN "answer" ELSE "thought"
           e     == Event("block_delta", w.block, part, shown)
           u     == IF shown = <<>> THEN w ELSE Write(w, e)
           x     == SendText(v, items, state)
           said  == IF state = 0 THEN items ELSE <<>>
<1>0. (state # 0 => k = Before(state)) /\ (~ask.thinking => ask.style # "tags")
  BY DEF Turned, Tagged
<1>1. x = IF state > 0 /\ ~ask.thinking THEN v
          ELSE IF own /\ state = 3 /\ u.type = "thinking" THEN CloseActiveBlock(u) ELSE u
  BY DEF SendText
<1>2. /\ v \in Views(n) /\ wire \in Seq(ShownEvents(n)) /\ AnswersIn(Got(v)) \in Seq(ShownItems(n))
      /\ ItemsOf(Got(v)) \in Seq(ShownItems(n))
  <2>1. v \in Views(n) /\ wire \in Seq(ShownEvents(n))
    BY DEF Good
  <2>2. Got(v) \in Seq(ShownEvents(n))
    <3>1. v.out \in Seq(ShownEvents(n))
      BY <2>1 DEF Views
    <3> QED
      BY <2>1, <3>1, ConcatProperties DEF Got
  <2> QED
    BY <2>1, <2>2, ShownTypes
<1>3. ASSUME NEW y, Good(y, n, k)
      PROVE  ItemsOf(Got(y)) \in Seq(ShownItems(n))
  <2>1. y \in Views(n) /\ wire \in Seq(ShownEvents(n))
    BY <1>3 DEF Good
  <2>2. y.out \in Seq(ShownEvents(n))
    BY <2>1 DEF Views
  <2>3. Got(y) \in Seq(ShownEvents(n))
    BY <2>1, <2>2, ConcatProperties DEF Got
  <2> QED
    BY <2>3, ShownTypes
<1>4. CASE state > 0 /\ ~ask.thinking
  <2>1. x = v /\ said = <<>> /\ ask.style # "tags"
    BY <1>0, <1>1, <1>4
  <2>2. Good(v, n, Then(state, k))
    BY <2>1, NoMarks
  <2>3. AnswersIn(Got(v)) = AnswersIn(Got(v)) \o <<>>
    BY <1>2, ConcatEmptySeq
  <2> HIDE DEF x
  <2>4. SameReader(v, v)
    BY DEF SameReader
  <2>5. said = IF state = 0 THEN items ELSE <<>>
    OBVIOUS
  <2> HIDE DEF said
  <2>6. AnswersIn(Got(v)) = AnswersIn(Got(v)) \o said
    BY <2>1, <2>3
  <2> QED
    BY <2>1, <2>2, <2>4, <2>5, <2>6 DEF x, SentAs
<1>5. CASE ~(state > 0 /\ ~ask.thinking)
  <2>1. /\ type \in {"text", "thinking"}
        /\ state = 0 => shown = items
        /\ state # 0 /\ ask.style # "omit" =>
              shown = IF ask.style = "tags" THEN Marked(items, state) ELSE items
        /\ state # 0 /\ ask.style = "omit" => shown = <<>>
        /\ w = v \/ w = StartContentBlock(v, type)
        /\ shown # <<>> => w = StartContentBlock(v, type)
        /\ said = IF state = 0 THEN items ELSE <<>>
        /\ part = IF state = 0 THEN "answer" ELSE "thought"
        /\ shown = <<>> => u = w
        /\ shown # <<>> => u = Write(w, e)
        /\ x = CloseActiveBlock(u) \/ x = u
        /\ e = Event("block_delta", w.block, part, shown)
    <3> HIDE DEF type, x
    <3>1. type \in {"text", "thinking"}
      BY DEF type
    <3>2. x = CloseActiveBlock(u) \/ x = u
      BY <1>1, <1>5
    <3>3. /\ state = 0 => shown = items
          /\ state # 0 /\ ask.style # "omit" =>
                shown = IF ask.style = "tags" THEN Marked(items, state) ELSE items
          /\ state # 0 /\ ask.style = "omit" => shown = <<>>
      OBVIOUS
    <3> HIDE DEF shown, own, u
    <3>4. /\ w = v \/ w = StartContentBlock(v, type)
          /\ shown # <<>> => w = StartContentBlock(v, type)
      OBVIOUS
    <3> HIDE DEF w
    <3>5. /\ shown = <<>> => u = w
          /\ shown # <<>> => u = Write(w, e)
      BY DEF u
    <3> QED
      BY <3>1, <3>2, <3>3, <3>4, <3>5
  <2> HIDE DEF x, u, e, part, w, shown, type, own, said
  <2>2. /\ Good(w, n, k) /\ SameReader(w, v) /\ AnswersIn(Got(w)) = AnswersIn(Got(v))
        /\ shown # <<>> => w.block >= 0
    <3>1. CASE w = StartContentBlock(v, type)
      BY <2>1, <3>1, BlockStarted
    <3>2. CASE w = v /\ shown = <<>>
      BY <3>2 DEF SameReader
    <3> QED
      BY <2>1, <3>1, <3>2
  <2>3. /\ Good(u, n, Then(state, k)) /\ SameReader(u, v)
        /\ AnswersIn(Got(u)) = AnswersIn(Got(v)) \o said
    <3> DEFINE q == ItemsOf(Got(w))
    <3>1. q \in Seq(ShownItems(n)) /\ MarksAre(q, IF ask.style = "tags" THEN k ELSE 0)
      BY <1>3, <2>2 DEF Good
    <3> HIDE DEF q
    <3>2. CASE shown = <<>>
      <4>1. said = <<>> /\ u = w
        BY <2>1, <3>2
      <4>2. ask.style = "tags" => k = Then(state, k)
        <5>1. SUFFICES ASSUME ask.style = "tags"
                       PROVE  k = Then(state, k)
          OBVIOUS
        <5>2. state # 0 => shown = IF ask.style = "tags" THEN Marked(items, state) ELSE items
          BY <2>1, <5>1
        <5> QED
          BY <2>1, <3>1, <3>2, <5>1, <5>2, <1>0, ShownPiece
      <4>3. AnswersIn(Got(v)) = AnswersIn(Got(v)) \o <<>>
        BY <1>2, ConcatEmptySeq
      <4>4. Good(w, n, Then(state, k))
        BY <2>2, <4>2, NoMarks
      <4> QED
        BY <2>2, <4>1, <4>3, <4>4
    <3>3. CASE shown # <<>>
      <4>1. state # 0 => shown = IF ask.style = "tags" THEN Marked(items, state) ELSE items
        BY <2>1, <3>3
      <4>2. /\ shown \in Seq(ShownItems(n))
            /\ MarksAre(q \o shown, IF ask.style = "tags" THEN Then(state, k) ELSE 0)
        BY <2>1, <3>1, <4>1, <1>0, ShownPiece
      <4>3. w.block \in Int /\ part \in {"answer", "thought"} /\ (part = "answer" <=> state = 0)
        BY <2>1, <2>2 DEF Good, Views
      <4>4. /\ e \in ShownEvents(n) /\ e.ev = "block_delta" /\ e.index = w.block
            /\ e.part = part /\ e.items = shown
        BY <2>1, <4>2, <4>3 DEF Event, ShownEvents
      <4>5. e.ev \in {"block_delta", "chunk"} /\ u = Write(w, e) /\ w.block >= 0
        BY <2>1, <2>2, <3>3, <4>4
      <4>6. MarksAre(ItemsOf(Got(w)) \o e.items, IF ask.style = "tags" THEN Then(state, k) ELSE 0)
        BY <4>2, <4>4 DEF q
      <4> DEFINE j == Then(state, k)
      <4> HIDE DEF j
      <4>12. MayFollow(e, w)
        BY <4>4, <4>5 DEF MayFollow
      <4>7. /\ u \in Views(n) /\ wire \in Seq(ShownEvents(n)) /\ SameReader(u, w)
            /\ BlocksAre(Got(u), u.next, u.block) /\ Got(u) # <<>>
            /\ TypeFits(u) /\ Headed(u)
            /\ MarksAre(ItemsOf(Got(u)), MarkLevel(j))
            /\ AnswersIn(Got(u)) = AnswersIn(Got(w)) \o SaidBy(e)
            /\ (u.begun <=> w.begun) /\ u.type = w.type /\ u.block = w.block
        <5>1. MarksAre(ItemsOf(Got(w)) \o e.items, MarkLevel(j))
          BY <4>6 DEF j, MarkLevel
        <5>2. u = Write(w, e)
          BY <4>5
        <5> QED
          <6>1. Good(w, n, k) /\ e \in ShownEvents(n)
            BY <2>2, <4>4
          <6> QED
            BY <4>12, <5>1, <5>2, <6>1, PieceIs
      <4>8. w.begun
        BY <2>1, <3>3, BlockStarted
      <4>9. Good(u, n, j)
        BY <4>7, <4>8 DEF Good, TypeFits, Headed, Begins, MarkLevel
      <4>10. SaidBy(e) = said
        BY <2>1, <4>3, <4>4 DEF SaidBy
      <4>11. SameReader(u, v)
        BY <2>2, <4>7 DEF SameReader
      <4> QED
        BY <2>2, <4>7, <4>9, <4>10, <4>11 DEF j
    <3> QED
      BY <3>2, <3>3
  <2> DEFINE m == Then(state, k)
  <2>6. Good(u, n, m)
    BY <2>3
  <2> HIDE DEF m
  <2>4. /\ Good(x, n, m) /\ SameReader(x, u)
        /\ AnswersIn(Got(x)) = AnswersIn(Got(u))
    <3>1. CASE x = u
      BY <2>6, <3>1 DEF SameReader
    <3>2. CASE x = CloseActiveBlock(u)
      BY <2>6, <3>2, BlockClosed
    <3> QED
      BY <2>1, <3>1, <3>2
  <2>5. SameReader(x, v)
    BY <2>3, <2>4 DEF SameReader
  <2> QED
    BY <2>1, <2>3, <2>4, <2>5 DEF x, m, SentAs
<1> QED
  BY <1>4, <1>5

(* sendChunk of the OpenAI handler: the items go into one chunk.           *)
LEMMA SendChunkIs ==
    ASSUME NEW n \in Nat \ {0}, NEW k \in {0, 1}, NEW v, Good(v, n, k), ask.client = "openai",
           NEW items \in Seq(LiveItems(n)), NEW state \in {0, 1, 2, 3},
           Turned(state, k), Tagged
    PROVE  SentAs(SendChunk(v, items, state), v, n, k, items, state)
<1> DEFINE text == IF state > 0 /\ ask.style = "tags" THEN Marked(items, state) ELSE items
           part == IF state = 0 THEN "answer" ELSE "thought"
           e    == Event("chunk", -1, part, text)
           u    == Write(v, e)
           y    == [u EXCEPT !.begun = TRUE]
           x    == SendChunk(v, items, state)
           said == IF state = 0 THEN items ELSE <<>>
<1>0. (state # 0 => k = Before(state)) /\ (~ask.thinking => ask.style # "tags")
  BY DEF Turned, Tagged
<1>1. x = IF \/ text = <<>>
             \/ state > 0 /\ ~ask.thinking
             \/ state = 2 /\ items = <<>>
          THEN v ELSE y
  BY DEF SendChunk
<1>2. /\ v \in Views(n) /\ wire \in Seq(ShownEvents(n)) /\ AnswersIn(Got(v)) \in Seq(ShownItems(n))
      /\ ItemsOf(Got(v)) \in Seq(ShownItems(n))
      /\ MarksAre(ItemsOf(Got(v)), IF ask.style = "tags" THEN k ELSE 0)
  <2>1. v \in Views(n) /\ wire \in Seq(ShownEvents(n))
    BY DEF Good
  <2>2. Got(v) \in Seq(ShownEvents(n))
    <3>1. v.out \in Seq(ShownEvents(n))
      BY <2>1 DEF Views
    <3> QED
      BY <2>1, <3>1, ConcatProperties DEF Got
  <2> QED
    BY <2>1, <2>2, ShownTypes DEF Good
<1>3. /\ text \in Seq(ShownItems(n))
      /\ MarksAre(ItemsOf(Got(v)) \o text, IF ask.style = "tags" THEN Then(state, k) ELSE 0)
      /\ text = <<>> /\ ask.style = "tags" => Then(state, k) = k
  <2>1. /\ state = 0 => text = items
        /\ state # 0 => text = IF ask.style = "tags" THEN Marked(items, state) ELSE items
    OBVIOUS
  <2> HIDE DEF text
  <2> DEFINE q == ItemsOf(Got(v))
  <2>2. q \in Seq(ShownItems(n)) /\ MarksAre(q, IF ask.style = "tags" THEN k ELSE 0)
    BY <1>2
  <2> HIDE DEF q
  <2>3. /\ text \in Seq(ShownItems(n))
        /\ MarksAre(q \o text, IF ask.style = "tags" THEN Then(state, k) ELSE 0)
        /\ text = <<>> /\ ask.style = "tags" => Then(state, k) = k
    BY <2>1, <2>2, <1>0, ShownPiece
  <2> QED
    BY <2>3 DEF q
<1>4. CASE text = <<>> \/ (state > 0 /\ ~ask.thinking) \/ (state = 2 /\ items = <<>>)
  <2>1. x = v /\ said = <<>> /\ (text = <<>> \/ ask.style # "tags" \/ state = 2)
    BY <1>0, <1>1, <1>4
  <2>2. ask.style = "tags" => k = Then(state, k)
    <3>1. 2 # 0 /\ Before(2) = After(2)
      BY DEF Before, After
    <3>2. state = 2 => k = Then(state, k)
      BY <1>0, <3>1 DEF Then
    <3> HIDE DEF text, x, said
    <3> QED
      BY <1>0, <1>3, <2>1, <3>2
  <2>3. Good(v, n, Then(state, k)) /\ SameReader(v, v)
    BY <2>2, NoMarks DEF SameReader
  <2>4. AnswersIn(Got(v)) = AnswersIn(Got(v)) \o <<>>
    BY <1>2, ConcatEmptySeq
  <2>5. said = IF state = 0 THEN items ELSE <<>>
    OBVIOUS
  <2> HIDE DEF x, said, text
  <2>6. AnswersIn(Got(v)) = AnswersIn(Got(v)) \o said
    BY <2>1, <2>4
  <2> QED
    BY <2>1, <2>3, <2>5, <2>6 DEF x, SentAs
<1>5. CASE ~(text = <<>> \/ (state > 0 /\ ~ask.thinking) \/ (state = 2 /\ items = <<>>))
  <2>1. x = y
    BY <1>1, <1>5
  <2>2. state = 0 => text = items
    OBVIOUS
  <2>3. part \in {"answer", "thought"} /\ (part = "answer" <=> state = 0)
    OBVIOUS
  <2> HIDE DEF text, part, x
  <2>4. /\ e \in ShownEvents(n) /\ e.ev = "chunk" /\ e.part = part /\ e.items = text
    <3>1. -1 \in Int
      OBVIOUS
    <3> QED
      BY <1>3, <2>3, <3>1 DEF Event, ShownEvents
  <2>5. said = SaidBy(e)
    BY <2>2, <2>3, <2>4 DEF SaidBy
  <2> HIDE DEF e, said
  <2> DEFINE j == Then(state, k)
  <2>6. MarksAre(ItemsOf(Got(v)) \o e.items, MarkLevel(j))
    BY <1>3, <2>4 DEF MarkLevel
  <2>7. MayFollow(e, v)
    BY <2>4 DEF MayFollow
  <2> HIDE DEF j
  <2>8. /\ u \in Views(n) /\ wire \in Seq(ShownEvents(n)) /\ SameReader(u, v)
        /\ BlocksAre(Got(u), u.next, u.block) /\ Got(u) # <<>>
        /\ TypeFits(u) /\ MarksAre(ItemsOf(Got(u)), MarkLevel(j))
        /\ AnswersIn(Got(u)) = AnswersIn(Got(v)) \o SaidBy(e)
    BY <2>4, <2>6, <2>7, PieceIs
  <2> HIDE DEF u
  <2>9. /\ y \in Views(n) /\ SameReader(y, u) /\ y.begun = TRUE /\ y.next = u.next
        /\ y.block = u.block /\ y.type = u.type /\ y.out = u.out
    BY <2>8 DEF Views, SameReader
  <2> HIDE DEF y
  <2>10. Got(y) = Got(u)
    BY <2>9 DEF Got
  <2>11. Good(y, n, j)
    BY <2>8, <2>9, <2>10 DEF Good, TypeFits, MarkLevel
  <2>12. SameReader(y, v)
    BY <2>8, <2>9 DEF SameReader
  <2>13. AnswersIn(Got(y)) = AnswersIn(Got(v)) \o said
    BY <2>5, <2>8, <2>10
  <2> QED
    BY <2>1, <2>11, <2>12, <2>13 DEF x, j, said, SentAs
<1> QED
  BY <1>4, <1>5

(* What either of them sends.                                              *)
LEMMA SendIs ==
    ASSUME NEW n \in Nat \ {0}, NEW k \in {0, 1}, NEW v, Good(v, n, k),
           NEW items \in Seq(LiveItems(n)), NEW state \in {0, 1, 2, 3},
           Turned(state, k), Tagged,
           ask.client \in {"claude", "openai"}
    PROVE  SentAs(Send(v, items, state), v, n, k, items, state)
<1>1. CASE ask.client = "claude"
  <2>1. Send(v, items, state) = SendText(v, items, state)
    BY <1>1 DEF Send
  <2> QED
    BY <1>1, <2>1, SendTextIs
<1>2. CASE ask.client = "openai"
  <2>1. Send(v, items, state) = SendChunk(v, items, state)
    BY <1>2 DEF Send
  <2> QED
    BY <1>2, <2>1, SendChunkIs
<1> QED
  BY <1>1, <1>2

(***************************************************************************)
(* Recursion.                                                              *)
(***************************************************************************)
(* n steps from s, the i-th of them given by g, stay in S.                 *)
RunOf(f, s, g, n) == f[0] = s /\ \A i \in 1..n : f[i] = g[<<i, f[i - 1]>>]
StaysIn(S, g, n) == \A i \in 1..n : \A x \in S : g[<<i, x>>] \in S

(* A function that is defined step by step exists.                         *)
LEMMA StepsExist ==
    ASSUME NEW S, NEW s \in S, NEW n \in Nat, NEW g, StaysIn(S, g, n)
    PROVE  \E f \in [0..n -> S] : RunOf(f, s, g, n)
<1> USE DEF RunOf, StaysIn
<1> DEFINE Runs(f, m) == RunOf(f, s, g, m)
           T == {m \in 0..n : ~\E f \in [0..m -> S] : Runs(f, m)}
<1> SUFFICES ASSUME T # {}
             PROVE  FALSE
  OBVIOUS
<1>1. PICK m \in T : \A k \in T : m <= k
  <2>1. T \subseteq Nat
    OBVIOUS
  <2> HIDE DEF T
  <2> QED
    BY <2>1, LeastNatural, Zenon
<1>2. m # 0
  <2>1. [i \in 0..0 |-> s] \in [0..0 -> S] /\ Runs([i \in 0..0 |-> s], 0)
    OBVIOUS
  <2> HIDE DEF Runs
  <2>2. 0 \notin T
    BY <2>1
  <2> QED
    BY <1>1, <2>2
<1>3. m \in 1..n /\ m - 1 \in 0..n /\ m - 1 \notin T
  <2>1. m \in 0..n
    BY <1>1
  <2>2. m - 1 \in 0..n /\ ~(m <= m - 1) /\ m \in 1..n
    BY <1>2, <2>1
  <2> HIDE DEF T
  <2> QED
    BY <1>1, <2>2
<1>4. PICK f \in [0..m - 1 -> S] : Runs(f, m - 1)
  BY <1>3
<1> DEFINE last == g[<<m, f[m - 1]>>]
           h == [i \in 0..m |-> IF i = m THEN last ELSE f[i]]
<1>5. last \in S
  BY <1>3
<1>6. h \in [0..m -> S]
  BY <1>3, <1>5
<1>7. Runs(h, m)
  <2>1. h[0] = s
    BY <1>3, <1>4
  <2>2. ASSUME NEW i \in 1..m
        PROVE  h[i] = g[<<i, h[i - 1]>>]
    <3>1. CASE i = m
      BY <1>3, <3>1
    <3>2. CASE i # m
      <4>1. i \in 1..m - 1 /\ h[i] = f[i] /\ h[i - 1] = f[i - 1]
        BY <1>3, <3>2
      <4> QED
        BY <1>4, <4>1
    <3> QED
      BY <3>1, <3>2
  <2> QED
    BY <2>1, <2>2
<1> QED
  BY <1>1, <1>6, <1>7

(***************************************************************************)
(* The answer read one character at a time.                                *)
(***************************************************************************)
Splits(n) == [out : Seq(ShownItems(n)), thought : BOOLEAN, prev : Spelled \cup {""}]

(* What was put out so far stays, the half of a tag that ends it excepted. *)
HalfTag(s) == s.prev = "o1" /\ ~s.thought
Ahead(n, said) ==
    {t \in Splits(n) : \E more \in Seq(ShownItems(n)) :
                           t.out = said \o more /\ (HalfTag(t) => more # <<>>)}

(* A reader that has put out what was said and starts over.                *)
Reader(said, thought) == [out |-> said, thought |-> thought, prev |-> ""]

(* Ahead: what was read begins with what was said, and half a tag is more. *)
LEMMA AheadIs ==
    ASSUME NEW n, NEW said, NEW r \in Seq(ShownItems(n)), NEW w \in Splits(n),
           w.out = said \o r, HalfTag(w) => r # <<>>
    PROVE  w \in Ahead(n, said)
BY DEF Ahead

(* A reader that has read what was said is ahead of it, by nothing.        *)
LEMMA ReaderIs ==
    ASSUME NEW n, NEW said \in Seq(ShownItems(n)), NEW thought \in BOOLEAN
    PROVE  Reader(said, thought) \in Ahead(n, said)
<1> DEFINE s == Reader(said, thought)
<1>1. s \in Splits(n) /\ s.out = said /\ ~HalfTag(s)
  BY DEF Reader, Splits, HalfTag, Spelled
<1>2. said \o <<>> = said /\ <<>> \in Seq(ShownItems(n))
  BY ConcatEmptySeq, EmptySeq
<1> HIDE DEF s
<1>3. s \in Ahead(n, said)
  <2> DEFINE r == <<>>
  <2>1. r \in Seq(ShownItems(n)) /\ s.out = said \o r
    BY <1>1, <1>2
  <2> HIDE DEF r
  <2> QED
    BY <1>1, <2>1, AheadIs
<1> QED
  BY <1>3 DEF s

(* Without its last item, a sequence is what it was before.                *)
LEMMA FrontAppend ==
    ASSUME NEW S, NEW q \in Seq(S), NEW x \in S
    PROVE  Front(Append(q, x)) = q
<1>1. /\ Append(q, x) \in Seq(S) /\ Len(Append(q, x)) = Len(q) + 1 /\ Len(q) \in Nat
      /\ Append(q, x) = q \o <<x>> /\ <<x>> \in Seq(S)
  BY AppendProperties, LenProperties, AppendIsConcat, OneSequence
<1>2. Front(Append(q, x)) = SubSeq(q \o <<x>>, 1, Len(q))
  <2>1. Len(q) + 1 - 1 = Len(q)
    BY <1>1
  <2> QED
    BY <1>1, <2>1 DEF Front
<1>3. CASE Len(q) = 0
  <2>1. SubSeq(q \o <<x>>, 1, 0) = <<>>
    BY SubSeqEmpty
  <2> QED
    BY <1>2, <1>3, <2>1, EmptySeq
<1>4. CASE Len(q) # 0
  <2> DEFINE one == <<x>>
  <2>1. 1 \in 1..Len(q) /\ Len(q) \in 1..Len(q) /\ one \in Seq(S)
    BY <1>1, <1>4
  <2> HIDE DEF one
  <2>2. SubSeq(q \o one, 1, Len(q)) = SubSeq(q, 1, Len(q))
    BY <2>1, SubSeqOfConcat1
  <2> QED
    BY <1>2, <2>2, SubSeqFull DEF one
<1> QED
  BY <1>3, <1>4

(* Without the last item of what follows, it begins with the same still.   *)
LEMMA FrontOf ==
    ASSUME NEW S, NEW s \in Seq(S), NEW r \in Seq(S), r # <<>>
    PROVE  Front(r) \in Seq(S) /\ Front(s \o r) = s \o Front(r)
<1>1. Len(r) \in Nat /\ Len(r) # 0
  BY LenProperties, EmptySeq
<1> DEFINE f == SubSeq(r, 1, Len(r) - 1)
           x == r[Len(r)]
<1>2. Front(r) = f
  BY DEF Front
<1>3. f \in Seq(S) /\ x \in S
  <2>1. 1 \in Int /\ Len(r) - 1 \in Int /\ \A i \in 1..Len(r) - 1 : r[i] \in S
    BY <1>1, ElementOfSeq
  <2>2. f \in Seq(S)
    BY <2>1, SubSeqProperties
  <2> QED
    BY <1>1, <2>2, ElementOfSeq
<1>4. r = f \o <<x>>
  <2>1. 1 \in 1..Len(r) /\ Len(r) \in 1..Len(r)
    BY <1>1
  <2> QED
    BY <2>1, SubSeqRecursiveSecond, SubSeqFull
<1> HIDE DEF f, x
<1>5. <<x>> \in Seq(S)
  BY <1>3, OneSequence
<1>6. s \o r = (s \o f) \o <<x>>
  BY <1>3, <1>4, <1>5, ConcatAssociative
<1>7. s \o f \in Seq(S)
  BY <1>3, ConcatProperties
<1> DEFINE q == s \o f
<1>8. q \in Seq(S) /\ s \o r = Append(q, x)
  BY <1>3, <1>6, <1>7, AppendIsConcat
<1> HIDE DEF q
<1>9. Front(Append(q, x)) = q
  BY <1>3, <1>8, FrontAppend
<1> QED
  BY <1>2, <1>3, <1>8, <1>9 DEF q

(* One more item leaves the reader ahead of what was said: it takes back   *)
(* half a tag only, and that was not said.                                 *)
LEMMA SplitIs ==
    ASSUME NEW n, NEW said \in Seq(ShownItems(n)), NEW s \in Ahead(n, said),
           NEW x \in ShownItems(n)
    PROVE  Split(s, x) \in Ahead(n, said)
<1>1. PICK r \in Seq(ShownItems(n)) : s.out = said \o r /\ (HalfTag(s) => r # <<>>)
  BY DEF Ahead
<1>2. s \in Splits(n) /\ s.out \in Seq(ShownItems(n)) /\ x.ch \in Spelled \cup {""}
  BY DEF Ahead, Splits, ShownItems, LiveItems, MarkItems, Spelled
<1> DEFINE w == Split(s, x)
<1>3. /\ Append(s.out, x) \in Seq(ShownItems(n)) /\ Append(r, x) \in Seq(ShownItems(n))
      /\ Append(s.out, x) = said \o Append(r, x) /\ Append(r, x) # <<>>
  <2> DEFINE one == <<x>>
  <2>1. one \in Seq(ShownItems(n)) /\ Append(s.out, x) = s.out \o one /\ Append(r, x) = r \o one
    BY <1>2, OneSequence, AppendIsConcat
  <2>2. (said \o r) \o one = said \o (r \o one)
    <3>1. one \in Seq(ShownItems(n))
      BY <2>1
    <3> HIDE DEF one
    <3> QED
      BY <3>1, ConcatAssociative
  <2>3. Append(s.out, x) = said \o Append(r, x)
    <3> HIDE DEF one
    <3> QED
      BY <1>1, <2>1, <2>2
  <2>4. Append(r, x) # <<>>
    BY AppendProperties
  <2> QED
    BY <1>2, <2>3, <2>4, AppendProperties
<1>9. w = Split(s, x)
  OBVIOUS
<1>4. CASE w = [s EXCEPT !.out = Append(@, x), !.thought = FALSE, !.prev = ""]
  <2>1. w = [s EXCEPT !.out = Append(s.out, x), !.thought = FALSE, !.prev = ""]
    BY <1>2, <1>4 DEF Splits
  <2> HIDE DEF w
  <2>2. w \in Splits(n) /\ w.out = Append(s.out, x)
    BY <1>2, <1>3, <2>1 DEF Splits
  <2> QED
    BY <1>3, <1>9, <2>2, AheadIs
<1>5. CASE w = [s EXCEPT !.out = Append(@, x), !.prev = x.ch]
  <2>1. w = [s EXCEPT !.out = Append(s.out, x), !.prev = x.ch]
    BY <1>2, <1>5 DEF Splits
  <2> HIDE DEF w
  <2>2. w \in Splits(n) /\ w.out = Append(s.out, x)
    BY <1>2, <1>3, <2>1 DEF Splits
  <2> QED
    BY <1>3, <1>9, <2>2, AheadIs
<1>6. CASE s.thought /\ w = [s EXCEPT !.thought = FALSE, !.prev = ""]
  <2> HIDE DEF w
  <2>1. w \in Splits(n) /\ w.out = s.out /\ ~HalfTag(w)
    BY <1>2, <1>6 DEF Splits, HalfTag
  <2> QED
    BY <1>1, <1>9, <2>1, AheadIs
<1>7. CASE s.thought /\ w = [s EXCEPT !.prev = x.ch]
  <2> HIDE DEF w
  <2>1. w \in Splits(n) /\ w.out = s.out /\ ~HalfTag(w)
    BY <1>2, <1>7 DEF Splits, HalfTag
  <2> QED
    BY <1>1, <1>9, <2>1, AheadIs
<1>8. CASE HalfTag(s) /\ w = Reader(Front(s.out), TRUE)
  <2>1. r # <<>> /\ Len(r) \in Nat /\ Len(r) # 0
    BY <1>1, <1>8, LenProperties, EmptySeq
  <2>2. Front(r) \in Seq(ShownItems(n)) /\ Front(s.out) = said \o Front(r)
    BY <1>1, <2>1, FrontOf
  <2>3. Front(s.out) \in Seq(ShownItems(n))
    BY <2>2, ConcatProperties
  <2> DEFINE t == Front(s.out)
             f == Front(r)
  <2> HIDE DEF t, f, w
  <2>4. w \in Splits(n) /\ w.out = t /\ ~HalfTag(w)
    BY <1>8, <2>3 DEF Reader, Splits, HalfTag, t
  <2> QED
    BY <1>9, <2>2, <2>4, AheadIs DEF t, f
<1> QED
  BY <1>2, <1>4, <1>5, <1>6, <1>7, <1>8 DEF Split, HalfTag, Reader

(* What holds at first and is kept by each of n steps holds after them.    *)
LEMMA StepByStep ==
    ASSUME NEW n \in Nat, NEW B, 0 \in B, \A k \in 1..n : k - 1 \in B => k \in B
    PROVE  n \in B
<1> DEFINE T == {k \in 0..n : k \notin B}
<1> SUFFICES ASSUME T # {}
             PROVE  FALSE
  OBVIOUS
<1>1. PICK m \in T : \A k \in T : m <= k
  <2>1. T \subseteq Nat
    OBVIOUS
  <2> HIDE DEF T
  <2> QED
    BY <2>1, LeastNatural, Zenon
<1>2. m \in 1..n /\ m \notin B /\ m - 1 \in 0..n /\ ~(m <= m - 1)
  <2>1. m \in 0..n /\ m \notin B /\ m # 0
    BY <1>1
  <2> QED
    BY <2>1
<1>3. m - 1 \in B
  BY <1>1, <1>2
<1> QED
  BY <1>2, <1>3

(* The first i items and one more.                                         *)
LEMMA UpToIs ==
    ASSUME NEW S, NEW q \in Seq(S)
    PROVE  /\ UpTo(q, 0) = <<>> /\ UpTo(q, Len(q)) = q
           /\ \A k \in 1..Len(q) : /\ UpTo(q, k - 1) \in Seq(S) /\ q[k] \in S
                                   /\ UpTo(q, k) = Append(UpTo(q, k - 1), q[k])
<1>1. Len(q) \in Nat /\ \A i \in 1..Len(q) : q[i] \in S
  BY LenProperties, ElementOfSeq
<1>2. UpTo(q, 0) = <<>>
  BY SubSeqEmpty DEF UpTo
<1>3. UpTo(q, Len(q)) = q
  BY SubSeqFull DEF UpTo
<1>4. ASSUME NEW k \in 1..Len(q)
      PROVE  /\ UpTo(q, k - 1) \in Seq(S) /\ q[k] \in S
             /\ UpTo(q, k) = Append(UpTo(q, k - 1), q[k])
  <2>1. 1 \in Int /\ k - 1 \in Int /\ 1 \in 1..Len(q) /\ k \in 1..Len(q)
        /\ \A i \in 1..k - 1 : q[i] \in S
    BY <1>1
  <2> DEFINE f == SubSeq(q, 1, k - 1)
  <2>2. f \in Seq(S)
    BY <2>1, SubSeqProperties
  <2>3. SubSeq(q, 1, k) = f \o <<q[k]>>
    BY <2>1, SubSeqRecursiveSecond
  <2> HIDE DEF f
  <2>4. Append(f, q[k]) = f \o <<q[k]>>
    BY <1>1, <2>2, AppendIsConcat
  <2> QED
    BY <1>1, <2>2, <2>3, <2>4 DEF UpTo, f
<1> QED
  BY <1>2, <1>3, <1>4

IsSplitRun(f, s, q) ==
    f = [i \in 0..Len(q) |-> IF i = 0 THEN s ELSE Split(f[i - 1], q[i])]

(* A reading is a step at each item.                                       *)
LEMMA SplitRunAt ==
    ASSUME NEW f, NEW s, NEW q, Len(q) \in Nat, IsSplitRun(f, s, q)
    PROVE  /\ DOMAIN f = 0..Len(q) /\ f = [i \in 0..Len(q) |-> f[i]] /\ f[0] = s
           /\ \A i \in 1..Len(q) : f[i] = Split(f[i - 1], q[i])
<1> DEFINE body(i) == IF i = 0 THEN s ELSE Split(f[i - 1], q[i])
<1>1. f = [i \in 0..Len(q) |-> body(i)]
  BY DEF IsSplitRun
<1>2. body(0) = s /\ \A i \in 1..Len(q) : body(i) = Split(f[i - 1], q[i])
  OBVIOUS
<1> HIDE DEF body
<1>3. DOMAIN f = 0..Len(q) /\ \A i \in 0..Len(q) : f[i] = body(i)
  BY <1>1
<1>4. f = [i \in 0..Len(q) |-> f[i]]
  BY <1>1, <1>3
<1> QED
  BY <1>2, <1>3, <1>4

(* The items can be read, one after another, and the reader stays ahead of *)
(* what was said.                                                          *)
LEMMA SplitRuns ==
    ASSUME NEW n, NEW said \in Seq(ShownItems(n)), NEW s \in Ahead(n, said),
           NEW q \in Seq(ShownItems(n))
    PROVE  \E f \in [0..Len(q) -> Ahead(n, said)] :
              IsSplitRun(f, s, q) /\ SplitAll(s, q) = f[Len(q)]
<1> DEFINE A == Ahead(n, said)
           k == Len(q)
           g == [p \in (1..k) \X A |-> Split(p[2], q[p[1]])]
<1>1. k \in Nat /\ \A i \in 1..k : q[i] \in ShownItems(n)
  BY LenProperties, ElementOfSeq
<1>2. \A i \in 1..k : \A x \in A : g[<<i, x>>] = Split(x, q[i]) /\ g[<<i, x>>] \in A
  BY <1>1, SplitIs
<1> HIDE DEF g
<1>3. PICK f \in [0..k -> A] : f[0] = s /\ \A i \in 1..k : f[i] = g[<<i, f[i - 1]>>]
  <2>1. s \in A /\ StaysIn(A, g, k)
    BY <1>2 DEF StaysIn
  <2>2. k \in Nat
    BY <1>1
  <2> HIDE DEF A, k
  <2>3. \E f \in [0..k -> A] : RunOf(f, s, g, k)
    BY <2>1, <2>2, StepsExist
  <2> QED
    BY <2>3 DEF RunOf
<1>4. IsSplitRun(f, s, q)
  <2> DEFINE h == [i \in 0..k |-> IF i = 0 THEN s ELSE Split(f[i - 1], q[i])]
  <2>1. ASSUME NEW i \in 0..k
        PROVE  f[i] = h[i]
    <3>1. CASE i = 0
      BY <1>1, <1>3, <3>1
    <3>2. CASE i # 0
      <4>1. i \in 1..k /\ i - 1 \in 0..k
        BY <1>1, <3>2
      <4>2. f[i] = g[<<i, f[i - 1]>>] /\ f[i - 1] \in A
        BY <1>3, <4>1
      <4> HIDE DEF A
      <4> QED
        BY <1>2, <3>2, <4>1, <4>2
    <3> QED
      BY <3>1, <3>2
  <2>2. f = [i \in 0..k |-> f[i]] /\ h = [i \in 0..k |-> h[i]]
    BY <1>3
  <2>3. f = h
    <3> HIDE DEF h
    <3> QED
      BY <2>1, <2>2
  <2> QED
    BY <2>3 DEF IsSplitRun
<1> DEFINE c == CHOOSE x : IsSplitRun(x, s, q)
<1>5. IsSplitRun(c, s, q)
  BY <1>4
<1>6. SplitAll(s, q) = c[k]
  BY DEF SplitAll, IsSplitRun
<1>7. c = f
  <2> HIDE DEF c
  <2>1. DOMAIN c = 0..k /\ DOMAIN f = 0..k /\ c[0] = s /\ f[0] = s
        /\ \A i \in 1..k : c[i] = Split(c[i - 1], q[i]) /\ f[i] = Split(f[i - 1], q[i])
    <3> HIDE DEF k
    <3> QED
      BY <1>1, <1>4, <1>5, SplitRunAt DEF k
  <2> DEFINE B == {i \in Nat : i \in 0..k => c[i] = f[i]}
  <2>2. \A j \in Nat : j \in 0..k => j \in B
    <3>1. TAKE j \in Nat
    <3>2. 0 \in B
      BY <2>1
    <3>3. ASSUME NEW i \in 1..j, i - 1 \in B
          PROVE  i \in B
      BY <2>1, <3>3
    <3>4. j \in B
      <4> HIDE DEF B
      <4> QED
        BY <3>2, <3>3, StepByStep
    <3> QED
      BY <3>4
  <2>3. \A i \in 0..k : c[i] = f[i]
    BY <1>1, <2>2
  <2>4. c = [i \in 0..k |-> c[i]]
    BY <1>5, SplitRunAt
  <2>5. f = [i \in 0..k |-> f[i]]
    BY <1>3
  <2> QED
    BY <2>3, <2>4, <2>5
<1> HIDE DEF c
<1> QED
  BY <1>3, <1>4, <1>6, <1>7

(* Nothing to read, one more item, and one part after another.             *)
LEMMA SplitNone ==
    ASSUME NEW n, NEW said \in Seq(ShownItems(n)), NEW s \in Ahead(n, said)
    PROVE  SplitAll(s, <<>>) = s
<1> DEFINE q == <<>>
<1>1. q \in Seq(ShownItems(n)) /\ Len(q) = 0
  BY EmptySeq
<1> HIDE DEF q
<1>2. PICK f \in [0..Len(q) -> Ahead(n, said)] :
              IsSplitRun(f, s, q) /\ SplitAll(s, q) = f[Len(q)]
  BY <1>1, SplitRuns
<1>3. f[0] = s
  BY <1>1, <1>2, SplitRunAt
<1> QED
  BY <1>1, <1>2, <1>3 DEF q

(* However much is read, the reader stays ahead of what was said.          *)
LEMMA SplitStays ==
    ASSUME NEW n, NEW said \in Seq(ShownItems(n)), NEW s \in Ahead(n, said),
           NEW q \in Seq(ShownItems(n))
    PROVE  SplitAll(s, q) \in Ahead(n, said)
<1>1. PICK f \in [0..Len(q) -> Ahead(n, said)] :
              IsSplitRun(f, s, q) /\ SplitAll(s, q) = f[Len(q)]
  BY SplitRuns
<1>2. Len(q) \in 0..Len(q)
  BY LenProperties
<1> QED
  BY <1>1, <1>2

(* Two runs over the same items agree.                                     *)
LEMMA SplitSame ==
    ASSUME NEW f, NEW g, NEW s, NEW q, NEW r, Len(q) \in Nat, Len(r) \in Nat,
           IsSplitRun(f, s, q), IsSplitRun(g, s, r),
           NEW k \in Nat, k <= Len(q), k <= Len(r), \A i \in 1..k : q[i] = r[i]
    PROVE  f[k] = g[k]
<1>1. /\ f[0] = s /\ \A i \in 1..Len(q) : f[i] = Split(f[i - 1], q[i])
      /\ g[0] = s /\ \A i \in 1..Len(r) : g[i] = Split(g[i - 1], r[i])
  BY SplitRunAt
<1> DEFINE B == {i \in Nat : f[i] = g[i]}
<1>2. 0 \in B
  BY <1>1
<1>3. ASSUME NEW i \in 1..k, i - 1 \in B
      PROVE  i \in B
  <2>1. i \in 1..Len(q) /\ i \in 1..Len(r) /\ i \in Nat
    OBVIOUS
  <2> QED
    BY <1>1, <1>3, <2>1
<1>4. k \in B
  <2> HIDE DEF B
  <2> QED
    BY <1>2, <1>3, StepByStep
<1> QED
  BY <1>4

(* Reading an item more is one step more.                                  *)
LEMMA SplitOne ==
    ASSUME NEW n, NEW said \in Seq(ShownItems(n)), NEW s \in Ahead(n, said),
           NEW q \in Seq(ShownItems(n)), NEW x \in ShownItems(n)
    PROVE  SplitAll(s, Append(q, x)) = Split(SplitAll(s, q), x)
<1> DEFINE r == Append(q, x)
           k == Len(q)
<1>1. /\ r \in Seq(ShownItems(n)) /\ Len(r) = k + 1 /\ k \in Nat /\ r[k + 1] = x
      /\ \A i \in 1..k : r[i] = q[i]
  BY AppendProperties, LenProperties
<1> HIDE DEF r
<1>2. PICK f \in [0..Len(q) -> Ahead(n, said)] :
              IsSplitRun(f, s, q) /\ SplitAll(s, q) = f[Len(q)]
  BY SplitRuns
<1>3. PICK g \in [0..Len(r) -> Ahead(n, said)] :
              IsSplitRun(g, s, r) /\ SplitAll(s, r) = g[Len(r)]
  BY <1>1, SplitRuns
<1>4. f[k] = g[k]
  <2>1. Len(q) \in Nat /\ Len(r) \in Nat /\ k <= Len(q) /\ k <= Len(r)
        /\ \A i \in 1..k : q[i] = r[i]
    BY <1>1
  <2> HIDE DEF k
  <2> QED
    BY <1>1, <1>2, <1>3, <2>1, SplitSame, ZenonT(30)
<1>5. g[k + 1] = Split(g[k], r[k + 1])
  <2>1. Len(r) \in Nat /\ IsSplitRun(g, s, r)
    BY <1>1, <1>3
  <2>2. \A i \in 1..Len(r) : g[i] = Split(g[i - 1], r[i])
    BY <2>1, SplitRunAt
  <2> DEFINE m == k + 1
  <2>3. m \in 1..Len(r) /\ m - 1 = k
    BY <1>1
  <2> HIDE DEF m, k
  <2>4. g[m] = Split(g[k], r[m])
    BY <2>2, <2>3
  <2> QED
    BY <2>4 DEF m
<1> QED
  BY <1>1, <1>2, <1>3, <1>4, <1>5 DEF r

(* An item added to the second part is added to both.                      *)
LEMMA ConcatAppend ==
    ASSUME NEW S, NEW q \in Seq(S), NEW p \in Seq(S), NEW x \in S
    PROVE  q \o Append(p, x) = Append(q \o p, x) /\ q \o p \in Seq(S)
<1> DEFINE o == <<x>>
<1>1. o \in Seq(S) /\ Append(p, x) = p \o o /\ q \o p \in Seq(S)
  BY OneSequence, AppendIsConcat, ConcatProperties
<1>2. Append(q \o p, x) = (q \o p) \o o
  BY <1>1, AppendIsConcat
<1>3. o \in Seq(S)
  BY <1>1
<1> HIDE DEF o
<1>4. (q \o p) \o o = q \o (p \o o)
  BY <1>3, ConcatAssociative
<1> QED
  BY <1>1, <1>2, <1>4, Zenon

(* Text is live, and shown.                                                *)
LEMMA TextShown ==
    ASSUME NEW n, NEW q \in Seq(TextItems(n))
    PROVE  q \in Seq(ShownItems(n)) /\ q \in Seq(LiveItems(n))
<1>1. TextItems(n) \subseteq LiveItems(n)
  BY DEF TextItems, LiveItems
<1>2. Len(q) \in Nat /\ q \in [1..Len(q) -> TextItems(n)]
  BY LenProperties
<1>3. q \in [1..Len(q) -> LiveItems(n)]
  BY <1>1, <1>2
<1>4. q \in Seq(LiveItems(n))
  BY <1>2, <1>3, SeqDef
<1> QED
  BY <1>4, LiveShown

(* Items read in two parts are read as one.                                *)
LEMMA SplitParts ==
    ASSUME NEW n, NEW said \in Seq(ShownItems(n)), NEW s \in Ahead(n, said),
           NEW q \in Seq(ShownItems(n)), NEW r \in Seq(ShownItems(n))
    PROVE  SplitAll(s, q \o r) = SplitAll(SplitAll(s, q), r)
<1> DEFINE t == SplitAll(s, q)
           B == {k \in Nat : k <= Len(r) => SplitAll(s, q \o UpTo(r, k)) = SplitAll(t, UpTo(r, k))}
<1>1. t \in Ahead(n, said)
  BY SplitStays
<1>2. /\ UpTo(r, 0) = <<>> /\ UpTo(r, Len(r)) = r /\ Len(r) \in Nat
      /\ \A k \in 1..Len(r) : /\ UpTo(r, k - 1) \in Seq(ShownItems(n)) /\ r[k] \in ShownItems(n)
                              /\ UpTo(r, k) = Append(UpTo(r, k - 1), r[k])
  BY UpToIs, LenProperties
<1> HIDE DEF t
<1>3. 0 \in B
  <2>1. q \o <<>> = q
    BY ConcatEmptySeq
  <2>2. SplitAll(t, <<>>) = t
    BY <1>1, SplitNone
  <2> QED
    BY <1>2, <2>1, <2>2 DEF t
<1>4. ASSUME NEW k \in 1..Len(r), k - 1 \in B
      PROVE  k \in B
  <2> DEFINE p == UpTo(r, k - 1)
             x == r[k]
  <2>1. p \in Seq(ShownItems(n)) /\ x \in ShownItems(n) /\ UpTo(r, k) = Append(p, x)
    BY <1>2
  <2>2. SplitAll(s, q \o p) = SplitAll(t, p)
    BY <1>2, <1>4
  <2> HIDE DEF p, x
  <2>3. q \o Append(p, x) = Append(q \o p, x) /\ q \o p \in Seq(ShownItems(n))
    BY <2>1, ConcatAppend
  <2>4. SplitAll(s, q \o Append(p, x)) = SplitAll(t, Append(p, x))
    <3>1. SplitAll(t, Append(p, x)) = Split(SplitAll(t, p), x)
      BY <1>1, <2>1, SplitOne
    <3> DEFINE u == q \o p
    <3>2. u \in Seq(ShownItems(n)) /\ SplitAll(s, u) = SplitAll(t, p) /\ q \o Append(p, x) = Append(u, x)
      BY <2>2, <2>3
    <3> HIDE DEF u
    <3>3. SplitAll(s, Append(u, x)) = Split(SplitAll(s, u), x)
      BY <2>1, <3>2, SplitOne
    <3> QED
      BY <3>1, <3>2, <3>3
  <2>5. k \in Nat
    OBVIOUS
  <2> QED
    BY <2>1, <2>4, <2>5
<1>5. Len(r) \in B
  <2> HIDE DEF B
  <2> QED
    BY <1>2, <1>3, <1>4, StepByStep
<1> QED
  BY <1>2, <1>5 DEF t

(***************************************************************************)
(* Tags.                                                                   *)
(***************************************************************************)
(* The halves of the tag that ends a thought, or begins one.               *)
Half(thought, ch) == ch = IF thought THEN "c1" ELSE "o1"
Ends(thought, ch) == ch = IF thought THEN "c2" ELSE "o2"
TagAt(q, thought, i) == Half(thought, q[i].ch) /\ Ends(thought, q[i + 1].ch)
Plain(q, thought, m) == \A i \in 1..m - 1 : ~TagAt(q, thought, i)

(* What is read of a text without a tag.                                   *)
Kept(said, thought, q) == IF thought THEN said ELSE said \o q
ReadOn(said, thought, q, prev) == [out |-> Kept(said, thought, q), thought |-> thought, prev |-> prev]

(* A character is put out, or skipped in a thought, unless it ends a tag.  *)
LEMMA SplitChar ==
    ASSUME NEW n, NEW s \in Splits(n), NEW x \in TextItems(n)
    PROVE  /\ Half(s.thought, s.prev) /\ Ends(s.thought, x.ch) =>
                 Split(s, x) = Reader(IF s.thought THEN s.out ELSE Front(s.out), ~s.thought)
           /\ ~(Half(s.thought, s.prev) /\ Ends(s.thought, x.ch)) =>
                 Split(s, x) = [out |-> IF s.thought THEN s.out ELSE Append(s.out, x),
                                thought |-> s.thought, prev |-> x.ch]
<1>1. x.n # 0
  BY DEF TextItems
<1>2. s.thought \in BOOLEAN /\ s = [out |-> s.out, thought |-> s.thought, prev |-> s.prev]
  BY DEF Splits
<1>3. CASE s.thought
  BY <1>1, <1>2, <1>3 DEF Split, Half, Ends, Reader
<1>4. CASE ~s.thought
  BY <1>1, <1>2, <1>4 DEF Split, Half, Ends, Reader
<1> QED
  BY <1>3, <1>4

(* A text without a tag is put out, or skipped in a thought, as it is.     *)
LEMMA PlainRun ==
    ASSUME NEW n, NEW said \in Seq(ShownItems(n)), NEW thought \in BOOLEAN,
           NEW q \in Seq(TextItems(n)), q # <<>>, Plain(q, thought, Len(q))
    PROVE  SplitAll(Reader(said, thought), q) = ReadOn(said, thought, q, q[Len(q)].ch)
<1> DEFINE s == Reader(said, thought)
           k == Len(q)
           B == {i \in Nat : i \in 1..k =>
                    SplitAll(s, UpTo(q, i)) = ReadOn(said, thought, UpTo(q, i), q[i].ch)}
<1>1. s \in Ahead(n, said)
  BY ReaderIs
<1>2. q \in Seq(ShownItems(n)) /\ k \in Nat /\ k # 0 /\ \A i \in 1..k : q[i] \in TextItems(n)
  BY TextShown, LenProperties, ElementOfSeq, EmptySeq
<1>3. /\ UpTo(q, 0) = <<>> /\ UpTo(q, k) = q
      /\ \A i \in 1..k : /\ UpTo(q, i - 1) \in Seq(ShownItems(n)) /\ q[i] \in ShownItems(n)
                         /\ UpTo(q, i) = Append(UpTo(q, i - 1), q[i])
  BY <1>2, UpToIs
<1>4. 0 \in B
  OBVIOUS
<1>5. ASSUME NEW i \in 1..k, i - 1 \in B
      PROVE  i \in B
  <2> DEFINE p == UpTo(q, i - 1)
             x == q[i]
             t == SplitAll(s, p)
  <2>1. p \in Seq(ShownItems(n)) /\ x \in ShownItems(n) /\ x \in TextItems(n)
        /\ UpTo(q, i) = Append(p, x)
    BY <1>2, <1>3
  <2>2. SplitAll(s, UpTo(q, i)) = Split(t, x)
    <3> HIDE DEF s, p, x
    <3> QED
      BY <1>1, <1>2, <2>1, SplitOne
  <2>3. /\ t.out = Kept(said, thought, p) /\ t.thought = thought
        /\ ~(Half(thought, t.prev) /\ Ends(thought, x.ch))
    <3>1. CASE i = 1
      <4>1. p = <<>>
        BY <1>3, <3>1
      <4>2. t = s
        <5> HIDE DEF s
        <5> QED
          BY <1>1, <4>1, SplitNone
      <4>3. said \o <<>> = said
        BY ConcatEmptySeq
      <4>4. s.out = said /\ s.thought = thought /\ s.prev = ""
        BY DEF Reader
      <4>5. ~Half(thought, "")
        BY DEF Half
      <4> QED
        BY <4>1, <4>2, <4>3, <4>4, <4>5 DEF Kept
    <3>2. CASE i # 1
      <4> DEFINE j == i - 1
      <4>1. j \in 1..k /\ j \in 1..k - 1 /\ j + 1 = i /\ j \in B
        BY <1>2, <1>5, <3>2
      <4>2. t = ReadOn(said, thought, p, q[j].ch)
        <5> HIDE DEF s
        <5> QED
          BY <4>1
      <4>3. ~TagAt(q, thought, j)
        BY <4>1 DEF Plain
      <4>4. t.out = Kept(said, thought, p) /\ t.thought = thought /\ t.prev = q[j].ch
        BY <4>2 DEF ReadOn
      <4> HIDE DEF t, p, j
      <4> QED
        BY <4>1, <4>3, <4>4 DEF TagAt
    <3> QED
      BY <3>1, <3>2
  <2>4. t \in Splits(n)
    <3> HIDE DEF s, p
    <3> QED
      BY <1>1, <2>1, SplitStays DEF Ahead
  <2> HIDE DEF t
  <2>5. Split(t, x) = [out |-> IF thought THEN t.out ELSE Append(t.out, x),
                       thought |-> thought, prev |-> x.ch]
    <3> HIDE DEF x
    <3> QED
      BY <2>1, <2>3, <2>4, SplitChar
  <2>6. ~thought => Append(said \o p, x) = said \o Append(p, x)
    <3> DEFINE S == ShownItems(n)
    <3>1. said \in Seq(S) /\ p \in Seq(S) /\ x \in S
      BY <2>1
    <3> HIDE DEF p, x, S
    <3>2. said \o Append(p, x) = Append(said \o p, x)
      BY <3>1, ConcatAppend
    <3> QED
      BY <3>2
  <2>7. Split(t, x) = ReadOn(said, thought, UpTo(q, i), x.ch)
    <3> HIDE DEF p, x
    <3> QED
      BY <2>1, <2>3, <2>5, <2>6 DEF ReadOn, Kept
  <2>8. i \in Nat
    OBVIOUS
  <2> QED
    BY <2>2, <2>7, <2>8
<1>6. k \in B
  <2> HIDE DEF B
  <2> QED
    BY <1>2, <1>4, <1>5, StepByStep
<1> QED
  BY <1>2, <1>3, <1>6

(* A sequence cut in two.                                                  *)
LEMMA CutIs ==
    ASSUME NEW S, NEW q \in Seq(S), NEW m \in 0..Len(q)
    PROVE  /\ UpTo(q, m) \in Seq(S) /\ From(q, m + 1) \in Seq(S)
           /\ Len(UpTo(q, m)) = m /\ Len(From(q, m + 1)) = Len(q) - m
           /\ UpTo(q, m) \o From(q, m + 1) = q
           /\ \A i \in 1..m : UpTo(q, m)[i] = q[i]
           /\ \A i \in 1..Len(q) - m : From(q, m + 1)[i] = q[m + i]
<1>1. Len(q) \in Nat /\ \A i \in 1..Len(q) : q[i] \in S
  BY LenProperties, ElementOfSeq
<1> DEFINE k == Len(q)
<1> HIDE DEF k
<1>2. k \in Nat /\ m \in 0..k /\ \A i \in 1..k : q[i] \in S
  BY <1>1 DEF k
<1>3. /\ SubSeq(q, 1, m) \in Seq(S) /\ Len(SubSeq(q, 1, m)) = m
      /\ \A i \in 1..m : SubSeq(q, 1, m)[i] = q[i]
  <2>1. 1 \in Int /\ m \in Int /\ \A i \in 1..m : q[i] \in S
    BY <1>2
  <2>2. /\ SubSeq(q, 1, m) \in Seq(S) /\ Len(SubSeq(q, 1, m)) = IF 1 <= m THEN m - 1 + 1 ELSE 0
        /\ \A i \in 1..m - 1 + 1 : SubSeq(q, 1, m)[i] = q[1 + i - 1]
    BY <2>1, SubSeqProperties
  <2> QED
    BY <1>2, <2>2
<1>4. /\ SubSeq(q, m + 1, k) \in Seq(S) /\ Len(SubSeq(q, m + 1, k)) = k - m
      /\ \A i \in 1..k - m : SubSeq(q, m + 1, k)[i] = q[m + i]
  <2> DEFINE b == m + 1
  <2>1. b \in Int /\ k \in Int /\ \A i \in b..k : q[i] \in S
    BY <1>2
  <2>2. b = m + 1
    OBVIOUS
  <2> HIDE DEF b
  <2>3. /\ SubSeq(q, b, k) \in Seq(S) /\ Len(SubSeq(q, b, k)) = IF b <= k THEN k - b + 1 ELSE 0
        /\ \A i \in 1..k - b + 1 : SubSeq(q, b, k)[i] = q[b + i - 1]
    BY <2>1, SubSeqProperties
  <2>4. (IF b <= k THEN k - b + 1 ELSE 0) = k - m /\ k - b + 1 = k - m
        /\ \A i \in 1..k - m : b + i - 1 = m + i
    BY <1>2, <2>2
  <2> QED
    BY <2>3, <2>4 DEF b
<1>5. SubSeq(q, 1, m) \o SubSeq(q, m + 1, k) = q
  <2>1. 1 \in 1..Len(q) + 1 /\ m \in 1 - 1..Len(q) /\ k \in m..Len(q)
    BY <1>2 DEF k
  <2>2. SubSeq(q, 1, m) \o SubSeq(q, m + 1, k) = SubSeq(q, 1, k)
    BY <2>1, ConcatAdjacentSubSeq
  <2> QED
    BY <2>2, SubSeqFull DEF k
<1> QED
  BY <1>3, <1>4, <1>5 DEF k, UpTo, From

(* Up to the first tag there is none, and after it reading starts over.    *)
LEMMA TagRun ==
    ASSUME NEW n, NEW said \in Seq(ShownItems(n)), NEW thought \in BOOLEAN,
           NEW q \in Seq(TextItems(n)), NEW i \in 1..Len(q) - 1,
           TagAt(q, thought, i), Plain(q, thought, i)
    PROVE  /\ UpTo(q, i - 1) \in Seq(TextItems(n)) /\ From(q, i + 2) \in Seq(TextItems(n))
           /\ Len(From(q, i + 2)) <= Len(q) - 2
           /\ SplitAll(Reader(said, thought), q) =
                 SplitAll(Reader(Kept(said, thought, UpTo(q, i - 1)), ~thought), From(q, i + 2))
<1> DEFINE s == Reader(said, thought)
           p == UpTo(q, i)
           b == UpTo(q, i - 1)
           r == From(q, i + 2)
           x == q[i]
           y == q[i + 1]
           t == SplitAll(s, p)
           w == SplitAll(s, UpTo(q, i + 1))
<1>1. s \in Ahead(n, said)
  BY ReaderIs
<1>2. /\ Len(q) \in Nat /\ i \in 1..Len(q) /\ i \in 0..Len(q) /\ i - 1 \in 0..Len(q)
      /\ i + 1 \in 0..Len(q) /\ i + 1 \in 1..Len(q)
  BY LenProperties
<1>3. x \in TextItems(n) /\ y \in TextItems(n) /\ x.ch # "" /\ q \in Seq(ShownItems(n))
  BY <1>2, ElementOfSeq, TextShown DEF TagAt, Half
<1>4. b \in Seq(TextItems(n))
  BY <1>2, CutIs
<1>5. p \in Seq(TextItems(n)) /\ Len(p) = i /\ \A j \in 1..i : p[j] = q[j]
  BY <1>2, CutIs
<1>6. /\ UpTo(q, i + 1) \in Seq(TextItems(n)) /\ r \in Seq(TextItems(n))
      /\ Len(r) = Len(q) - (i + 1) /\ UpTo(q, i + 1) \o r = q
  <2> DEFINE m == i + 1
  <2>1. m \in 0..Len(q) /\ m + 1 = i + 2
    BY <1>2
  <2> HIDE DEF m
  <2>2. /\ UpTo(q, m) \in Seq(TextItems(n)) /\ From(q, m + 1) \in Seq(TextItems(n))
        /\ Len(From(q, m + 1)) = Len(q) - m /\ UpTo(q, m) \o From(q, m + 1) = q
    BY <2>1, CutIs
  <2> QED
    BY <2>1, <2>2 DEF m
<1>7. p = Append(b, x) /\ UpTo(q, i + 1) = Append(p, y)
  <2> DEFINE m == i + 1
  <2>1. m \in 1..Len(q) /\ m - 1 = i
    BY <1>2
  <2> HIDE DEF m
  <2>2. UpTo(q, m) = Append(UpTo(q, m - 1), q[m])
    BY <2>1, UpToIs
  <2>3. UpTo(q, i) = Append(UpTo(q, i - 1), q[i])
    BY <1>2, UpToIs
  <2> QED
    BY <2>1, <2>2, <2>3 DEF m
<1>8. t = ReadOn(said, thought, p, x.ch)
  <2>1. p # <<>> /\ p[Len(p)] = x
    BY <1>2, <1>5, EmptySeq
  <2>2. Plain(p, thought, Len(p))
    <3> HIDE DEF p
    <3> QED
      BY <1>2, <1>5 DEF Plain, TagAt
  <2> HIDE DEF p
  <2> QED
    BY <1>5, <2>1, <2>2, PlainRun
<1>9. w = Split(t, y)
  <2>1. p \in Seq(ShownItems(n)) /\ y \in ShownItems(n)
    BY <1>3, <1>5, TextShown DEF ShownItems, LiveItems, TextItems
  <2>2. UpTo(q, i + 1) = Append(p, y)
    BY <1>7
  <2> HIDE DEF s, p, y
  <2>3. SplitAll(s, Append(p, y)) = Split(SplitAll(s, p), y)
    BY <1>1, <2>1, SplitOne
  <2> QED
    BY <2>2, <2>3
<1>10. t \in Splits(n) /\ t.out = Kept(said, thought, p) /\ t.thought = thought /\ t.prev = x.ch
  <2>1. p \in Seq(ShownItems(n))
    BY <1>5, TextShown
  <2>2. t \in Splits(n)
    <3> HIDE DEF s, p
    <3> QED
      BY <1>1, <2>1, SplitStays DEF Ahead
  <2> QED
    BY <1>8, <2>2 DEF ReadOn
<1>11. Split(t, y) = Reader(IF thought THEN t.out ELSE Front(t.out), ~thought)
  <2>1. Half(t.thought, t.prev) /\ Ends(t.thought, y.ch)
    BY <1>10 DEF TagAt
  <2> HIDE DEF t, y
  <2> QED
    BY <1>3, <1>10, <2>1, SplitChar
<1>12. ~thought => Front(said \o p) = said \o b
  <2> DEFINE S == ShownItems(n)
  <2>1. said \in Seq(S) /\ b \in Seq(S) /\ x \in S /\ p = Append(b, x)
    BY <1>3, <1>4, <1>7, TextShown DEF ShownItems, LiveItems, TextItems
  <2> HIDE DEF S, b, x, p
  <2>2. said \o Append(b, x) = Append(said \o b, x) /\ said \o b \in Seq(S)
    BY <2>1, ConcatAppend
  <2> DEFINE u == said \o b
  <2>3. u \in Seq(S) /\ said \o p = Append(u, x)
    BY <2>1, <2>2
  <2> HIDE DEF u
  <2>4. Front(Append(u, x)) = u
    BY <2>1, <2>3, FrontAppend
  <2> QED
    BY <2>3, <2>4 DEF u
<1>13. w = Reader(Kept(said, thought, b), ~thought)
  <2> HIDE DEF b, p, t, w, y
  <2> QED
    BY <1>9, <1>10, <1>11, <1>12 DEF Kept
<1>14. SplitAll(s, UpTo(q, i + 1) \o r) = SplitAll(w, r)
  <2> DEFINE m == UpTo(q, i + 1)
  <2>1. m \in Seq(ShownItems(n)) /\ r \in Seq(ShownItems(n))
    BY <1>6, TextShown
  <2> HIDE DEF s, m, r
  <2> QED
    BY <1>1, <2>1, SplitParts DEF m
<1>15. Len(r) <= Len(q) - 2
  <2> HIDE DEF r
  <2> QED
    BY <1>2, <1>6
<1>16. SplitAll(s, q) = SplitAll(Reader(Kept(said, thought, b), ~thought), r)
  <2> HIDE DEF s, b, r, w
  <2> QED
    BY <1>6, <1>13, <1>14
<1> QED
  BY <1>4, <1>6, <1>15, <1>16

(* A text without a tag may be read in two parts.                          *)
LEMMA CutRun ==
    ASSUME NEW n, NEW said \in Seq(ShownItems(n)), NEW thought \in BOOLEAN,
           NEW q \in Seq(TextItems(n)), NEW m \in 1..Len(q) - 1, Plain(q, thought, Len(q))
    PROVE  SplitAll(Reader(said, thought), q) =
              SplitAll(Reader(Kept(said, thought, UpTo(q, m)), thought), From(q, m + 1))
<1> DEFINE p == UpTo(q, m)
           r == From(q, m + 1)
<1>1. m \in 0..Len(q) /\ Len(q) \in Nat /\ Len(q) # 0
  BY LenProperties
<1>2. /\ p \in Seq(TextItems(n)) /\ r \in Seq(TextItems(n)) /\ Len(r) = Len(q) - m /\ p \o r = q
      /\ \A i \in 1..Len(q) - m : r[i] = q[m + i]
  BY <1>1, CutIs
<1>3. p \in Seq(ShownItems(n)) /\ r \in Seq(ShownItems(n)) /\ q # <<>>
  BY <1>1, <1>2, TextShown, EmptySeq
<1> HIDE DEF p, r
<1>4. r # <<>> /\ Plain(r, thought, Len(r)) /\ r[Len(r)] = q[Len(q)]
  <2> DEFINE k == Len(q)
             l == Len(r)
  <2>1. k \in Nat /\ l \in Nat /\ m \in 1..k - 1 /\ l = k - m /\ m + l = k /\ l \in 1..k - m
    BY <1>1, <1>2
  <2>2. \A i \in 1..k - m : r[i] = q[m + i]
    BY <1>2
  <2>3. r # <<>>
    BY <2>1, EmptySeq
  <2>4. \A i \in 1..k - 1 : ~TagAt(q, thought, i)
    BY DEF Plain
  <2> HIDE DEF k, l
  <2>5. r[l] = q[k]
    BY <2>1, <2>2
  <2>6. ASSUME NEW i \in 1..l - 1
        PROVE  ~TagAt(r, thought, i)
    <3>1. i \in 1..k - m /\ i + 1 \in 1..k - m /\ m + i \in 1..k - 1 /\ m + (i + 1) = (m + i) + 1
      BY <2>1
    <3>2. r[i] = q[m + i] /\ r[i + 1] = q[(m + i) + 1]
      BY <2>2, <3>1
    <3>3. ~TagAt(q, thought, m + i)
      BY <2>4, <3>1
    <3> QED
      BY <3>2, <3>3 DEF TagAt
  <2> QED
    BY <2>3, <2>5, <2>6 DEF Plain, k, l
<1> DEFINE u == Kept(said, thought, p)
<1>5. u \in Seq(ShownItems(n)) /\ Kept(u, thought, r) = Kept(said, thought, q)
  <2>1. said \o p \in Seq(ShownItems(n)) /\ (said \o p) \o r = said \o (p \o r)
    BY <1>3, ConcatProperties, ConcatAssociative
  <2> QED
    BY <1>2, <2>1 DEF Kept
<1> HIDE DEF u
<1>6. SplitAll(Reader(u, thought), r) = ReadOn(u, thought, r, r[Len(r)].ch)
  BY <1>2, <1>4, <1>5, PlainRun
<1>7. SplitAll(Reader(said, thought), q) = ReadOn(said, thought, q, q[Len(q)].ch)
  BY <1>3, PlainRun
<1> QED
  BY <1>4, <1>5, <1>6, <1>7 DEF ReadOn, u, p, r

(* The first tag of a text.                                                *)
FirstTag(q, thought, i) ==
    /\ i = 0 => Plain(q, thought, Len(q))
    /\ i # 0 => i \in 1..Len(q) - 1 /\ TagAt(q, thought, i) /\ Plain(q, thought, i)

(* Find returns the first place of the tag, or zero where it is not.       *)
LEMMA FindIs ==
    ASSUME NEW q, Len(q) \in Nat, NEW thought \in BOOLEAN, NEW first, NEW second,
           \A ch : (Half(thought, ch) <=> ch = first) /\ (Ends(thought, ch) <=> ch = second)
    PROVE  FirstTag(q, thought, Find(q, first, second))
<1> DEFINE k == Len(q)
           T == {i \in 1..k - 1 : Ch(q, i) = first /\ Ch(q, i + 1) = second}
           i == Find(q, first, second)
<1>1. \A j \in 1..k - 1 : j \in T <=> TagAt(q, thought, j)
  BY DEF TagAt, Ch
<1>2. i = IF T = {} THEN 0 ELSE CHOOSE j \in T : \A l \in T : j <= l
  BY DEF Find
<1>3. T \subseteq Nat /\ T \subseteq 1..k - 1
  OBVIOUS
<1> HIDE DEF T, i, k
<1>4. CASE T = {}
  <2>1. i = 0 /\ \A j \in 1..k - 1 : ~TagAt(q, thought, j)
    BY <1>1, <1>2, <1>4
  <2> QED
    BY <2>1 DEF FirstTag, Plain, k, i
<1>5. CASE T # {}
  <2>1. \E j \in T : \A l \in T : j <= l
    BY <1>3, <1>5, LeastNatural, Zenon
  <2>2. i \in T /\ \A l \in T : i <= l
    BY <1>2, <1>5, <2>1
  <2>3. k \in Nat
    BY DEF k
  <2>4. i \in 1..k - 1 /\ TagAt(q, thought, i) /\ i # 0
    BY <1>1, <1>3, <2>2
  <2>5. ASSUME NEW j \in 1..i - 1
        PROVE  ~TagAt(q, thought, j)
    <3>1. j \in 1..k - 1 /\ ~(i <= j)
      BY <2>3, <2>4
    <3> QED
      BY <1>1, <2>2, <3>1
  <2> QED
    BY <2>4, <2>5 DEF FirstTag, Plain, k, i
<1> QED
  BY <1>4, <1>5

(* The next tag is the first of the kind looked for, and no item before it *)
(* is part of one.                                                         *)
LEMMA NextTagIs ==
    ASSUME NEW n, NEW v \in Views(n)
    PROVE  FirstTag(v.buffer, v.inThinking, NextTag(v))
<1>1. v.buffer \in Seq(TextItems(n)) /\ v.inThinking \in BOOLEAN
  BY DEF Views
<1>2. Len(v.buffer) \in Nat
  BY <1>1, LenProperties
<1>3. CASE v.inThinking
  <2>1. \A ch : (Half(TRUE, ch) <=> ch = "c1") /\ (Ends(TRUE, ch) <=> ch = "c2")
    BY DEF Half, Ends
  <2>2. FirstTag(v.buffer, TRUE, Find(v.buffer, "c1", "c2"))
    BY <1>2, <2>1, FindIs
  <2> QED
    BY <1>1, <1>3, <2>2 DEF NextTag
<1>4. CASE ~v.inThinking
  <2>1. \A ch : (Half(FALSE, ch) <=> ch = "o1") /\ (Ends(FALSE, ch) <=> ch = "o2")
    BY DEF Half, Ends
  <2>2. FirstTag(v.buffer, FALSE, Find(v.buffer, "o1", "o2"))
    BY <1>2, <2>1, FindIs
  <2>3. v.inThinking = FALSE
    BY <1>1, <1>4
  <2> QED
    BY <1>4, <2>2, <2>3 DEF NextTag
<1> QED
  BY <1>3, <1>4

(***************************************************************************)
(* Where the reader is.                                                    *)
(***************************************************************************)
(* A thought that was started is open in the tag style.                    *)
Odd(v) == IF v.started THEN 1 ELSE 0

(* A thought is one of the reasoning events, or of the text: then some of  *)
(* it is still held back.                                                  *)
FlagsOK(v) ==
    /\ v.open => v.started
    /\ v.started => v.open \/ (v.inThinking /\ ~v.drop /\ v.buffer # <<>>)

Sound(v, n) == Good(v, n, Odd(v)) /\ FlagsOK(v)
Settled(v, n) == Sound(v, n) /\ ~v.open

(* The state of a reader of what was said and is held back.                *)
Spoken(v) == AnswersIn(Got(v))
Reads(v) == SplitAll(Reader(Spoken(v), v.inThinking), v.buffer)

(* Reading leaves the part of the state alone that writes.                 *)
SameWriter(u, v) ==
    /\ u.begun <=> v.begun
    /\ u.next = v.next /\ u.block = v.block /\ u.type = v.type /\ u.out = v.out

(* A state that reads otherwise but has written the same is as good.       *)
LEMMA SameGood ==
    ASSUME NEW n, NEW k, NEW v, Good(v, n, k), NEW u \in Views(n), SameWriter(u, v)
    PROVE  Good(u, n, k) /\ Spoken(u) = Spoken(v)
<1>1. Got(u) = Got(v)
  BY DEF Got, SameWriter
<1> QED
  BY <1>1 DEF Good, SameWriter, Spoken

(* The reader of what a state holds is ahead of what it has said.          *)
LEMMA ReadsIs ==
    ASSUME NEW n, NEW v, Sound(v, n)
    PROVE  /\ v \in Views(n) /\ Spoken(v) \in Seq(ShownItems(n))
           /\ v.buffer \in Seq(TextItems(n)) /\ v.buffer \in Seq(ShownItems(n))
           /\ Reader(Spoken(v), v.inThinking) \in Ahead(n, Spoken(v))
           /\ Reads(v) \in Ahead(n, Spoken(v)) /\ Reads(v) \in Splits(n)
<1>1. v \in Views(n) /\ wire \in Seq(ShownEvents(n))
  BY DEF Sound, Good
<1>2. v.out \in Seq(ShownEvents(n)) /\ v.inThinking \in BOOLEAN /\ v.buffer \in Seq(TextItems(n))
  BY <1>1 DEF Views
<1>3. Spoken(v) \in Seq(ShownItems(n))
  BY <1>1, <1>2, ConcatProperties, ShownTypes DEF Spoken, Got
<1>4. v.buffer \in Seq(ShownItems(n))
  BY <1>2, TextShown
<1> DEFINE s == Reader(Spoken(v), v.inThinking)
<1>5. s \in Ahead(n, Spoken(v))
  BY <1>2, <1>3, ReaderIs
<1>6. Reads(v) \in Ahead(n, Spoken(v))
  <2> DEFINE q == v.buffer
             said == Spoken(v)
  <2>1. q \in Seq(ShownItems(n)) /\ said \in Seq(ShownItems(n)) /\ s \in Ahead(n, said)
    BY <1>3, <1>4, <1>5
  <2>2. Reads(v) = SplitAll(s, q)
    BY DEF Reads
  <2> HIDE DEF s, q, said
  <2>3. SplitAll(s, q) \in Ahead(n, said)
    BY <2>1, SplitStays
  <2> QED
    BY <2>2, <2>3 DEF said
<1> QED
  BY <1>1, <1>2, <1>3, <1>4, <1>5, <1>6 DEF Ahead

(* What is held back may be read in two parts.                             *)
LEMMA ReaderParts ==
    ASSUME NEW said, NEW thought
    PROVE  /\ Reader(said, thought).out = said /\ Reader(said, thought).prev = ""
           /\ Reader(said, thought).thought = thought
BY DEF Reader

(* Nothing is held back.                                                   *)
LEMMA ReadsNone ==
    ASSUME NEW n, NEW v, Sound(v, n), v.buffer = <<>>
    PROVE  Reads(v) = Reader(Spoken(v), v.inThinking)
<1> DEFINE s == Reader(Spoken(v), v.inThinking)
           said == Spoken(v)
<1>1. s \in Ahead(n, said) /\ said \in Seq(ShownItems(n))
  BY ReadsIs
<1>2. Reads(v) = SplitAll(s, <<>>)
  BY DEF Reads
<1> HIDE DEF s, said
<1>3. SplitAll(s, <<>>) = s
  BY <1>1, SplitNone
<1> QED
  BY <1>2, <1>3 DEF s

(* What is held back has no tag: a thought adds nothing to what was said,  *)
(* and text all of it.                                                     *)
LEMMA ReadsPlain ==
    ASSUME NEW n, NEW v, Sound(v, n), NextTag(v) = 0
    PROVE  Reads(v).out = Kept(Spoken(v), v.inThinking, v.buffer)
<1> DEFINE said == Spoken(v)
           q == v.buffer
           thought == v.inThinking
<1>1. said \in Seq(ShownItems(n)) /\ q \in Seq(TextItems(n)) /\ thought \in BOOLEAN
  <2>1. v \in Views(n) /\ said \in Seq(ShownItems(n)) /\ q \in Seq(TextItems(n))
    BY ReadsIs
  <2>2. thought \in BOOLEAN
    BY <2>1 DEF Views
  <2> QED
    BY <2>1, <2>2
<1>2. Plain(q, thought, Len(q))
  <2>1. v \in Views(n)
    BY ReadsIs
  <2>2. FirstTag(q, thought, NextTag(v))
    BY <2>1, NextTagIs
  <2> QED
    BY <2>2 DEF FirstTag
<1>3. CASE q = <<>>
  <2>1. Reads(v) = Reader(Spoken(v), v.inThinking)
    BY <1>3, ReadsNone
  <2>2. said \o <<>> = said
    BY <1>1, ConcatEmptySeq
  <2> DEFINE r == Reader(Spoken(v), v.inThinking)
  <2>3. r.out = said
    BY ReaderParts
  <2> HIDE DEF said, q, thought, r
  <2>4. Kept(said, thought, q) = said
    BY <1>3, <2>2 DEF Kept
  <2> QED
    BY <2>1, <2>3, <2>4 DEF said, q, thought, r
<1>4. CASE q # <<>>
  <2>1. Reads(v) = SplitAll(Reader(said, thought), q)
    BY DEF Reads
  <2> HIDE DEF said, q, thought
  <2>2. SplitAll(Reader(said, thought), q) = ReadOn(said, thought, q, q[Len(q)].ch)
    BY <1>1, <1>2, <1>4, PlainRun
  <2>3. Reads(v).out = Kept(said, thought, q)
    BY <2>1, <2>2 DEF ReadOn
  <2> QED
    BY <2>3 DEF said, q, thought
<1> QED
  BY <1>3, <1>4

(***************************************************************************)
(* One step of the reader.                                                 *)
(***************************************************************************)
Streaming == ask.client \in {"claude", "openai"} /\ Tagged

(* Answer items sent are said, and said last.                              *)
LEMMA SendAnswer ==
    ASSUME NEW n \in Nat \ {0}, NEW k \in {0, 1}, NEW v, Good(v, n, k),
           NEW items \in Seq(LiveItems(n)), Streaming
    PROVE  /\ Good(Send(v, items, 0), n, k) /\ SameReader(Send(v, items, 0), v)
           /\ Spoken(Send(v, items, 0)) = Spoken(v) \o items
<1> DEFINE x == Send(v, items, 0)
<1>1. SentAs(x, v, n, k, items, 0)
  <2>1. Turned(0, k) /\ Tagged /\ ask.client \in {"claude", "openai"}
    BY DEF Turned, Streaming
  <2> QED
    BY <2>1, SendIs
<1> HIDE DEF x
<1>2. Then(0, k) = k
  BY DEF Then
<1>3. Good(x, n, k) /\ SameReader(x, v) /\ Spoken(x) = Spoken(v) \o items
  BY <1>1, <1>2 DEF SentAs, Spoken
<1> QED
  BY <1>3 DEF x

(* A thought sent says nothing, and its marks go in turn.                  *)
LEMMA SendThought ==
    ASSUME NEW n \in Nat \ {0}, NEW state \in {1, 2, 3}, NEW v, Good(v, n, Before(state)),
           NEW items \in Seq(LiveItems(n)), Streaming
    PROVE  /\ Good(Send(v, items, state), n, After(state))
           /\ SameReader(Send(v, items, state), v) /\ Spoken(Send(v, items, state)) = Spoken(v)
<1> DEFINE x == Send(v, items, state)
           k == Before(state)
<1>1. k \in {0, 1} /\ Good(v, n, k)
  BY DEF Before
<1>2. SentAs(x, v, n, k, items, state)
  <2>1. Turned(state, k) /\ Tagged /\ ask.client \in {"claude", "openai"}
    BY DEF Turned, Streaming
  <2> HIDE DEF k
  <2> QED
    BY <1>1, <2>1, SendIs
<1> HIDE DEF x, k
<1>3. Then(state, k) = After(state)
  BY DEF Then
<1>4. Spoken(v) \o <<>> = Spoken(v)
  <2>1. v \in Views(n) /\ wire \in Seq(ShownEvents(n))
    BY <1>1 DEF Good
  <2>2. v.out \in Seq(ShownEvents(n))
    BY <2>1 DEF Views
  <2>3. Spoken(v) \in Seq(ShownItems(n))
    BY <2>1, <2>2, ConcatProperties, ShownTypes DEF Spoken, Got
  <2> QED
    BY <2>3, ConcatEmptySeq
<1>5. Good(x, n, After(state)) /\ SameReader(x, v) /\ Spoken(x) = Spoken(v)
  <2>1. Good(x, n, After(state)) /\ SameReader(x, v)
    BY <1>2, <1>3 DEF SentAs
  <2>2. state # 0
    OBVIOUS
  <2>3. Spoken(x) = Spoken(v) \o <<>>
    BY <1>2, <2>2 DEF SentAs, Spoken
  <2> QED
    BY <1>4, <2>1, <2>3
<1> QED
  BY <1>5 DEF x

(* A thought that ends is closed.                                          *)
LEMMA EndThoughtIs ==
    ASSUME NEW n \in Nat \ {0}, NEW v, Good(v, n, Odd(v)), v.started => ~v.drop,
           NEW items \in Seq(LiveItems(n)), Streaming
    PROVE  /\ Good(EndThought(v, items), n, 0) /\ SameReader(EndThought(v, items), v)
           /\ Spoken(EndThought(v, items)) = Spoken(v)
<1>1. CASE v.drop
  BY <1>1 DEF EndThought, Odd, SameReader
<1>2. CASE ~v.drop /\ v.started
  <2>1. Good(v, n, Before(3)) /\ After(3) = 0
    BY <1>2 DEF Odd, Before, After
  <2>2. EndThought(v, items) = Send(v, items, 3)
    BY <1>2 DEF EndThought
  <2> QED
    BY <2>1, <2>2, SendThought
<1>3. CASE ~v.drop /\ ~v.started
  <2> DEFINE u == Send(v, items, 1)
             none == <<>>
  <2>1. Good(v, n, Before(1)) /\ After(1) = Before(3) /\ After(3) = 0
    BY <1>3 DEF Odd, Before, After
  <2>2. Good(u, n, After(1)) /\ SameReader(u, v) /\ Spoken(u) = Spoken(v)
    BY <2>1, SendThought
  <2>3. EndThought(v, items) = Send(u, none, 3) /\ none \in Seq(LiveItems(n))
    BY <1>3, EmptySeq DEF EndThought
  <2> HIDE DEF u, none
  <2>4. Good(u, n, Before(3))
    BY <2>1, <2>2
  <2> DEFINE w == Send(u, none, 3)
  <2>5. Good(w, n, After(3)) /\ SameReader(w, u) /\ Spoken(w) = Spoken(u)
    BY <2>3, <2>4, SendThought
  <2> HIDE DEF w
  <2>6. Good(w, n, 0) /\ SameReader(w, v) /\ Spoken(w) = Spoken(v)
    BY <2>1, <2>2, <2>5 DEF SameReader
  <2> QED
    BY <2>3, <2>6 DEF w
<1> QED
  BY <1>1, <1>2, <1>3

(* Past a tag: what comes before it is said, or is the end of a thought.   *)
Passed(w, v, n) ==
    /\ Settled(w, n) /\ Reads(w) = Reads(v)
    /\ Len(w.buffer) < Len(v.buffer)

(* What precedes a tag is sent, the tag is dropped, and the rest is read   *)
(* as before.                                                              *)
LEMMA PastTagIs ==
    ASSUME NEW n \in Nat \ {0}, NEW v, Settled(v, n), NextTag(v) # 0, Streaming
    PROVE  Passed(PastTag(v, NextTag(v)), v, n)
<1> DEFINE at == NextTag(v)
           q == v.buffer
           before == UpTo(q, at - 1)
           rest == From(q, at + 2)
           thought == v.inThinking
           w == PastTag(v, at)
<1>1. v \in Views(n) /\ Good(v, n, Odd(v)) /\ FlagsOK(v) /\ ~v.open
  BY DEF Settled, Sound, Good
<1>2. q \in Seq(TextItems(n)) /\ thought \in BOOLEAN /\ Spoken(v) \in Seq(ShownItems(n))
  <2>1. Sound(v, n)
    BY DEF Settled
  <2>2. Spoken(v) \in Seq(ShownItems(n))
    BY <2>1, ReadsIs
  <2> QED
    BY <1>1, <2>2 DEF Views
<1>3. at \in 1..Len(q) - 1 /\ TagAt(q, thought, at) /\ Plain(q, thought, at)
  <2>1. FirstTag(q, thought, at)
    BY <1>1, NextTagIs
  <2> HIDE DEF q, thought
  <2> QED
    BY <2>1 DEF FirstTag
<1>4. /\ before \in Seq(TextItems(n)) /\ rest \in Seq(TextItems(n))
      /\ Len(rest) <= Len(q) - 2
      /\ Reads(v) = SplitAll(Reader(Kept(Spoken(v), thought, before), ~thought), rest)
  <2> DEFINE said == Spoken(v)
  <2>1. said \in Seq(ShownItems(n)) /\ Reads(v) = SplitAll(Reader(said, thought), q)
    BY <1>2 DEF Reads
  <2> HIDE DEF said, at, q, thought
  <2>2. /\ before \in Seq(TextItems(n)) /\ rest \in Seq(TextItems(n))
        /\ Len(rest) <= Len(q) - 2
        /\ SplitAll(Reader(said, thought), q) =
              SplitAll(Reader(Kept(said, thought, before), ~thought), rest)
    BY <1>2, <1>3, <2>1, TagRun
  <2> QED
    BY <2>1, <2>2 DEF said
<1>5. before \in Seq(LiveItems(n)) /\ Len(rest) \in Nat /\ Len(q) \in Nat
  BY <1>2, <1>4, TextShown, LenProperties
<1> HIDE DEF at, before, rest, w
<1>6. CASE thought
  <2> DEFINE u == EndThought(v, before)
  <2>1. Good(u, n, 0) /\ SameReader(u, v) /\ Spoken(u) = Spoken(v)
    BY <1>1, <1>5, EndThoughtIs DEF FlagsOK
  <2>2. w = LeaveThought([u EXCEPT !.buffer = rest])
    BY <1>6 DEF w, PastTag, before, rest
  <2> HIDE DEF u
  <2>3. u \in Views(n)
    BY <2>1 DEF Good
  <2>4. /\ w \in Views(n) /\ SameWriter(w, u) /\ w.buffer = rest /\ ~w.inThinking /\ ~w.started
        /\ w.open = u.open
    BY <1>4, <2>2, <2>3 DEF Views, SameWriter, LeaveThought
  <2>5. w.inThinking = FALSE
    BY <2>4 DEF Views
  <2>6. Good(w, n, 0) /\ Spoken(w) = Spoken(v)
    BY <2>1, <2>4, SameGood
  <2>7. Settled(w, n)
    BY <1>1, <2>1, <2>4, <2>6 DEF Settled, Sound, Odd, FlagsOK, SameReader
  <2>8. Reads(w) = Reads(v)
    BY <1>4, <1>6, <2>4, <2>5, <2>6 DEF Reads, Kept
  <2>9. Len(w.buffer) < Len(v.buffer)
    BY <1>4, <1>5, <2>4
  <2> QED
    BY <2>7, <2>8, <2>9 DEF Passed, w, at
<1>7. CASE ~thought
  <2> DEFINE u == IF at > 1 THEN Send(v, before, 0) ELSE v
  <2>1. ~v.started /\ Good(v, n, 0)
    BY <1>1, <1>7 DEF FlagsOK, Odd
  <2>2. Good(u, n, 0) /\ SameReader(u, v) /\ Spoken(u) = Spoken(v) \o before
    <3>1. CASE at > 1
      BY <1>5, <2>1, <3>1, SendAnswer
    <3>2. CASE ~(at > 1)
      <4>1. before = <<>>
        <5>1. at = 1
          BY <1>3, <1>5, <3>2
        <5>2. SubSeq(q, 1, 0) = <<>>
          BY SubSeqEmpty
        <5> QED
          BY <5>1, <5>2 DEF before, UpTo
      <4>2. Spoken(v) \o <<>> = Spoken(v)
        BY <1>2, ConcatEmptySeq
      <4> QED
        BY <2>1, <3>2, <4>1, <4>2 DEF SameReader
    <3> QED
      BY <3>1, <3>2
  <2> DEFINE source == IF v.source = "unknown" THEN "tag" ELSE v.source
             drop == ~TagAllowed(v)
  <2>3. u \in Views(n) /\ u.source = v.source /\ source \in {"unknown", "tag", "reasoning"}
        /\ drop \in BOOLEAN
    BY <1>1, <2>2 DEF Good, SameReader, Views
  <2>4. w = [u EXCEPT !.buffer = rest, !.inThinking = TRUE, !.drop = drop,
                      !.source = source, !.started = FALSE]
    BY <1>7, <2>3 DEF w, PastTag, before, rest
  <2> HIDE DEF u, source, drop
  <2>5. /\ w \in Views(n) /\ SameWriter(w, u) /\ w.buffer = rest /\ w.inThinking = TRUE /\ ~w.started
        /\ w.open = u.open
    BY <1>4, <2>3, <2>4 DEF Views, SameWriter
  <2>6. Good(w, n, 0) /\ Spoken(w) = Spoken(v) \o before
    BY <2>2, <2>5, SameGood
  <2>7. Settled(w, n)
    BY <1>1, <2>2, <2>5, <2>6 DEF Settled, Sound, Odd, FlagsOK, SameReader
  <2>8. Reads(w) = Reads(v)
    <3>1. (~thought) = TRUE
      BY <1>2, <1>7
    <3> QED
      BY <1>4, <1>7, <2>5, <2>6, <3>1 DEF Reads, Kept
  <2>9. Len(w.buffer) < Len(v.buffer)
    BY <1>4, <1>5, <2>5
  <2> QED
    BY <2>7, <2>8, <2>9 DEF Passed, w, at
<1> QED
  BY <1>6, <1>7

(* What is left after the last tag is taken as far as it is safe, or all   *)
(* of it.                                                                  *)
Emptied(w, said) == /\ w.buffer = <<>> /\ w.inThinking = FALSE /\ ~w.started
                    /\ Spoken(w) = said
Taken(w, v, n, force) ==
    /\ Settled(w, n)
    /\ ~force => Reads(w) = Reads(v)
    /\ force => Emptied(w, Reads(v).out)

(* Text outside a thought is sent up to what may be half a tag, and read   *)
(* as before.                                                              *)
LEMMA TakeTextIs ==
    ASSUME NEW n \in Nat \ {0}, NEW v, Settled(v, n), NextTag(v) = 0, ~v.inThinking,
           NEW force \in BOOLEAN, Streaming
    PROVE  Taken(TakeText(v, force), v, n, force)
<1> DEFINE q == v.buffer
           m == Safe(v, force)
           p == UpTo(q, m)
           r == From(q, m + 1)
           u == Send(v, p, 0)
           w == TakeText(v, force)
<1>1. v \in Views(n) /\ Good(v, n, Odd(v)) /\ FlagsOK(v) /\ ~v.open /\ Sound(v, n)
  BY DEF Settled, Sound, Good
<1>2. q \in Seq(TextItems(n)) /\ Spoken(v) \in Seq(ShownItems(n)) /\ v.inThinking = FALSE
  BY <1>1, ReadsIs DEF Views
<1>3. ~v.started /\ Good(v, n, 0)
  BY <1>1 DEF FlagsOK, Odd
<1>4. Len(q) \in Nat /\ m = (IF force THEN Len(q) ELSE Len(q) - Keep) /\ Keep \in Nat \ {0}
      /\ HoldText \in Nat /\ Keep <= HoldText
  BY <1>2, LenProperties, StreamsAssumption DEF Safe
<1>5. w = IF (force \/ Len(q) > HoldText) /\ m > 0
          THEN [u EXCEPT !.buffer = From(u.buffer, m + 1)] ELSE v
  BY DEF TakeText
<1>6. Reads(v).out = Spoken(v) \o q
  BY <1>1, <1>2, ReadsPlain DEF Kept
<1>7. CASE (force \/ Len(q) > HoldText) /\ m > 0
  <2>1. m \in 0..Len(q) /\ (~force => m \in 1..Len(q) - 1) /\ (force => m = Len(q))
    BY <1>4, <1>7
  <2>2. /\ p \in Seq(TextItems(n)) /\ r \in Seq(TextItems(n)) /\ Len(r) = Len(q) - m
        /\ p \o r = q
    <3> HIDE DEF m, q
    <3> QED
      BY <1>2, <2>1, CutIs
  <2>3. p \in Seq(LiveItems(n)) /\ p \in Seq(ShownItems(n))
    BY <2>2, TextShown
  <2>4. Good(u, n, 0) /\ SameReader(u, v) /\ Spoken(u) = Spoken(v) \o p
    <3> HIDE DEF p
    <3> QED
      BY <1>3, <2>3, SendAnswer
  <2>5. w = [u EXCEPT !.buffer = r] /\ u \in Views(n)
    BY <1>5, <1>7, <2>4 DEF SameReader, Good
  <2> HIDE DEF u, w, r, p, m, q
  <2>6. /\ w \in Views(n) /\ SameWriter(w, u) /\ w.buffer = r /\ w.inThinking = u.inThinking
        /\ w.started = u.started /\ w.open = u.open
    BY <2>2, <2>5 DEF Views, SameWriter
  <2>7. Good(w, n, 0) /\ Spoken(w) = Spoken(v) \o p
    BY <2>4, <2>6, SameGood
  <2>8. w.inThinking = FALSE /\ ~w.started /\ ~w.open
    BY <1>1, <1>2, <1>3, <2>4, <2>6 DEF SameReader
  <2>9. Settled(w, n)
    BY <2>7, <2>8 DEF Settled, Sound, Odd, FlagsOK
  <2>10. ~force => Reads(w) = Reads(v)
    <3> SUFFICES ASSUME ~force
                 PROVE  Reads(w) = Reads(v)
      OBVIOUS
    <3>1. Plain(q, FALSE, Len(q))
      <4>1. FirstTag(v.buffer, v.inThinking, NextTag(v))
        BY <1>1, NextTagIs
      <4> QED
        BY <1>2, <4>1 DEF FirstTag, q
    <3> DEFINE said == Spoken(v)
    <3>2. said \in Seq(ShownItems(n)) /\ m \in 1..Len(q) - 1
      BY <1>2, <2>1
    <3>3. Reads(v) = SplitAll(Reader(said, FALSE), q)
      BY <1>2 DEF Reads, q
    <3>4. Reads(w) = SplitAll(Reader(said \o p, FALSE), r)
      BY <2>6, <2>7, <2>8 DEF Reads
    <3> DEFINE thought == FALSE
    <3>5. thought \in BOOLEAN /\ Plain(q, thought, Len(q)) /\ q \in Seq(TextItems(n))
          /\ m \in 1..Len(q) - 1
      BY <1>2, <3>1, <3>2
    <3> HIDE DEF said, thought
    <3>6. SplitAll(Reader(said, thought), q) =
             SplitAll(Reader(Kept(said, thought, UpTo(q, m)), thought), From(q, m + 1))
      BY <3>2, <3>5, CutRun
    <3> QED
      BY <3>3, <3>4, <3>6 DEF thought, Kept, p, r
  <2>11. force => Emptied(w, Reads(v).out)
    <3> SUFFICES ASSUME force
                 PROVE  Emptied(w, Reads(v).out)
      OBVIOUS
    <3>1. r = <<>>
      <4>1. Len(r) = 0
        BY <1>4, <2>1, <2>2
      <4> QED
        BY <2>2, <4>1, EmptySeq
    <3>2. p = q
      <4>1. p \o <<>> = p
        BY <2>2, ConcatEmptySeq
      <4> QED
        BY <2>2, <3>1, <4>1
    <3> QED
      BY <1>6, <2>6, <2>7, <2>8, <3>1, <3>2 DEF Emptied
  <2> QED
    BY <2>9, <2>10, <2>11 DEF Taken, w
<1>8. CASE ~((force \/ Len(q) > HoldText) /\ m > 0)
  <2>1. w = v
    BY <1>5, <1>8
  <2>2. force => q = <<>>
    <3>1. force => Len(q) = 0
      BY <1>4, <1>8
    <3> QED
      BY <1>2, <3>1, EmptySeq
  <2>3. Spoken(v) \o <<>> = Spoken(v)
    BY <1>2, ConcatEmptySeq
  <2>4. force => Emptied(v, Reads(v).out)
    <3> HIDE DEF w, m
    <3> QED
      BY <1>2, <1>3, <1>6, <2>2, <2>3 DEF Emptied
  <2> QED
    BY <2>1, <2>4 DEF Taken
<1> QED
  BY <1>7, <1>8

(* Text of a thought is sent up to what may be half a tag, and read as     *)
(* before.                                                                 *)
LEMMA TakeThoughtIs ==
    ASSUME NEW n \in Nat \ {0}, NEW v, Settled(v, n), NextTag(v) = 0, v.inThinking,
           NEW force \in BOOLEAN, Streaming
    PROVE  Taken(TakeThought(v, force), v, n, force)
<1> DEFINE q == v.buffer
           m == Safe(v, FALSE)
           p == UpTo(q, m)
           r == From(q, m + 1)
           w == TakeThought(v, force)
<1>1. v \in Views(n) /\ Good(v, n, Odd(v)) /\ FlagsOK(v) /\ ~v.open /\ Sound(v, n)
  BY DEF Settled, Sound, Good
<1>2. q \in Seq(TextItems(n)) /\ Spoken(v) \in Seq(ShownItems(n)) /\ v.inThinking = TRUE
  BY <1>1, ReadsIs DEF Views
<1>3. Len(q) \in Nat /\ m = Len(q) - Keep /\ Keep \in Nat \ {0}
      /\ HoldThought \in Nat /\ Keep <= HoldThought
  BY <1>2, LenProperties, StreamsAssumption DEF Safe
<1>4. Reads(v).out = Spoken(v)
  BY <1>1, <1>2, ReadsPlain DEF Kept
<1>5. q \in Seq(LiveItems(n))
  BY <1>2, TextShown
<1>6. CASE force
  <2> DEFINE u == IF q = <<>> THEN v ELSE EndThought(v, q)
  <2>1. w = LeaveThought([u EXCEPT !.buffer = <<>>])
    BY <1>6 DEF TakeThought
  <2>2. Good(u, n, 0) /\ SameReader(u, v) /\ Spoken(u) = Spoken(v)
    <3>1. CASE q = <<>>
      BY <1>1, <3>1 DEF FlagsOK, Odd, SameReader
    <3>2. CASE q # <<>>
      <4>1. v.started => ~v.drop
        BY <1>1 DEF FlagsOK
      <4> HIDE DEF q, w
      <4> QED
        BY <1>1, <1>5, <3>2, <4>1, EndThoughtIs
    <3> QED
      BY <3>1, <3>2
  <2> DEFINE none == <<>>
  <2>3. u \in Views(n) /\ none \in Seq(TextItems(n)) /\ w = LeaveThought([u EXCEPT !.buffer = none])
    BY <2>1, <2>2, EmptySeq DEF Good
  <2> HIDE DEF u, w, none
  <2>4. /\ w \in Views(n) /\ SameWriter(w, u) /\ w.buffer = none /\ ~w.inThinking /\ ~w.started
        /\ w.open = u.open
    BY <2>3 DEF Views, SameWriter, LeaveThought
  <2>5. w.inThinking = FALSE
    BY <2>4 DEF Views
  <2>6. Good(w, n, 0) /\ Spoken(w) = Spoken(v)
    BY <2>2, <2>4, SameGood
  <2>7. Settled(w, n)
    BY <1>1, <2>2, <2>4, <2>6 DEF Settled, Sound, Odd, FlagsOK, SameReader
  <2>8. Emptied(w, Reads(v).out)
    BY <1>4, <2>4, <2>5, <2>6 DEF Emptied, none
  <2> QED
    BY <1>6, <2>7, <2>8 DEF Taken, w
<1>7. CASE ~force /\ Len(q) > HoldThought /\ m > 0
  <2> DEFINE state == IF v.started THEN 2 ELSE 1
             x == Send(v, p, state)
             u == IF v.drop THEN v ELSE [x EXCEPT !.started = TRUE]
  <2>1. m \in 0..Len(q) /\ m \in 1..Len(q) - 1
    <3> DEFINE k == Len(q)
    <3>1. k \in Nat /\ m = k - Keep /\ Keep \in Nat \ {0} /\ m > 0
      BY <1>3, <1>7
    <3> HIDE DEF k, m
    <3>2. m \in 0..k /\ m \in 1..k - 1
      BY <3>1
    <3> QED
      BY <3>2 DEF k
  <2>2. /\ p \in Seq(TextItems(n)) /\ r \in Seq(TextItems(n)) /\ Len(r) = Len(q) - m
    <3> HIDE DEF m, q
    <3> QED
      BY <1>2, <2>1, CutIs
  <2>3. p \in Seq(LiveItems(n)) /\ r # <<>>
    <3>1. p \in Seq(LiveItems(n))
      BY <2>2, TextShown
    <3>2. Len(r) # 0
      <4> HIDE DEF r, m, q
      <4> QED
        BY <1>3, <2>1, <2>2
    <3> QED
      BY <3>1, <3>2, EmptySeq
  <2>4. w = [u EXCEPT !.buffer = From(u.buffer, m + 1)]
    BY <1>7 DEF TakeThought
  <2>5. /\ Good(u, n, Odd(u)) /\ Spoken(u) = Spoken(v) /\ u.buffer = q /\ u.inThinking = TRUE
        /\ ~u.open /\ u.drop = v.drop /\ (u.started => ~u.drop)
    <3>1. CASE v.drop
      BY <1>1, <1>2, <3>1 DEF FlagsOK
    <3>2. CASE ~v.drop
      <4>1. state \in {1, 2, 3} /\ Good(v, n, Before(state)) /\ After(state) = 1
        BY <1>1 DEF Odd, Before, After
      <4>2. p \in Seq(LiveItems(n))
        BY <2>3
      <4>3. Good(x, n, 1) /\ SameReader(x, v) /\ Spoken(x) = Spoken(v)
        <5> HIDE DEF p, state
        <5> QED
          BY <4>1, <4>2, SendThought
      <4>4. u = [x EXCEPT !.started = TRUE] /\ x \in Views(n)
        BY <3>2, <4>3 DEF Good
      <4> HIDE DEF x, u, p, w
      <4>5. /\ u \in Views(n) /\ SameWriter(u, x) /\ u.started /\ u.buffer = x.buffer
            /\ u.inThinking = x.inThinking /\ u.open = x.open /\ u.drop = x.drop
        BY <4>4 DEF Views, SameWriter
      <4>6. Good(u, n, 1) /\ Spoken(u) = Spoken(v)
        BY <4>3, <4>5, SameGood
      <4> QED
        BY <1>1, <1>2, <3>2, <4>3, <4>5, <4>6 DEF Odd, SameReader
    <3> QED
      BY <3>1, <3>2
  <2>6. w = [u EXCEPT !.buffer = r] /\ u \in Views(n)
    BY <2>4, <2>5 DEF Good
  <2> HIDE DEF u, w, r, p, m, q
  <2>7. /\ w \in Views(n) /\ SameWriter(w, u) /\ w.buffer = r /\ w.inThinking = u.inThinking
        /\ w.started = u.started /\ w.open = u.open /\ w.drop = u.drop
    BY <2>2, <2>6 DEF Views, SameWriter
  <2>8. Good(w, n, Odd(w)) /\ Spoken(w) = Spoken(v)
    <3>1. Odd(w) = Odd(u)
      BY <2>7 DEF Odd
    <3> QED
      BY <2>5, <2>7, <3>1, SameGood
  <2>9. Settled(w, n)
    BY <2>3, <2>5, <2>7, <2>8 DEF Settled, Sound, FlagsOK
  <2>10. Reads(w) = Reads(v)
    <3>1. Plain(q, TRUE, Len(q))
      <4>1. FirstTag(v.buffer, v.inThinking, NextTag(v))
        BY <1>1, NextTagIs
      <4> QED
        BY <1>2, <4>1 DEF FirstTag, q
    <3> DEFINE said == Spoken(v)
    <3>2. said \in Seq(ShownItems(n))
      BY <1>2
    <3>3. Reads(v) = SplitAll(Reader(said, TRUE), q)
      BY <1>2 DEF Reads, q
    <3>4. Reads(w) = SplitAll(Reader(said, TRUE), r)
      BY <2>5, <2>7, <2>8 DEF Reads
    <3> DEFINE thought == TRUE
    <3>5. thought \in BOOLEAN /\ Plain(q, thought, Len(q)) /\ q \in Seq(TextItems(n))
          /\ m \in 1..Len(q) - 1
      BY <1>2, <2>1, <3>1, <3>2
    <3> HIDE DEF said, thought
    <3>6. SplitAll(Reader(said, thought), q) =
             SplitAll(Reader(Kept(said, thought, UpTo(q, m)), thought), From(q, m + 1))
      BY <3>2, <3>5, CutRun
    <3> QED
      BY <3>3, <3>4, <3>6 DEF thought, Kept, r
  <2> QED
    BY <1>7, <2>9, <2>10 DEF Taken, w
<1>8. CASE ~force /\ ~(Len(q) > HoldThought /\ m > 0)
  <2>1. w = v
    BY <1>8 DEF TakeThought
  <2> QED
    BY <1>8, <2>1 DEF Taken
<1> QED
  BY <1>6, <1>7, <1>8

(***************************************************************************)
(* What the events of a stream do to the reader.                           *)
(***************************************************************************)
IsDrainRun(f, v) ==
    f = [n \in 0..Len(v.buffer) |->
            IF n = 0 THEN v
            ELSE IF NextTag(f[n - 1]) = 0 THEN f[n - 1]
            ELSE PastTag(f[n - 1], NextTag(f[n - 1]))]

PassTag(u) == IF NextTag(u) = 0 THEN u ELSE PastTag(u, NextTag(u))

(* Draining is a tag passed at each step.                                  *)
LEMMA DrainRunAt ==
    ASSUME NEW f, NEW v, Len(v.buffer) \in Nat, IsDrainRun(f, v)
    PROVE  f[0] = v /\ \A i \in 1..Len(v.buffer) : f[i] = PassTag(f[i - 1])
<1> DEFINE body(i) == IF i = 0 THEN v
                      ELSE IF NextTag(f[i - 1]) = 0 THEN f[i - 1]
                      ELSE PastTag(f[i - 1], NextTag(f[i - 1]))
<1>1. f = [i \in 0..Len(v.buffer) |-> body(i)]
  BY DEF IsDrainRun
<1>2. body(0) = v /\ \A i \in 1..Len(v.buffer) : body(i) = PassTag(f[i - 1])
  BY DEF PassTag
<1> HIDE DEF body
<1>3. \A i \in 0..Len(v.buffer) : f[i] = body(i)
  BY <1>1
<1> QED
  BY <1>2, <1>3

(* A reader that has read the same, and may have further tags to pass.     *)
SameReads(v, n) == {u \in Views(n) : Settled(u, n) /\ Reads(u) = Reads(v)}

(* To pass a tag, or to find none, changes nothing of what is read.        *)
LEMMA PassTagIs ==
    ASSUME NEW n \in Nat \ {0}, NEW v, NEW u \in SameReads(v, n), Streaming
    PROVE  /\ PassTag(u) \in SameReads(v, n)
           /\ NextTag(u) = 0 => PassTag(u) = u
           /\ NextTag(u) # 0 => Len(PassTag(u).buffer) < Len(u.buffer)
<1>1. u \in Views(n) /\ Settled(u, n) /\ Reads(u) = Reads(v)
  BY DEF SameReads
<1>2. CASE NextTag(u) = 0
  BY <1>2 DEF PassTag
<1>3. CASE NextTag(u) # 0
  <2> DEFINE w == PastTag(u, NextTag(u))
  <2>1. Passed(w, u, n) /\ PassTag(u) = w
    BY <1>1, <1>3, PastTagIs DEF PassTag
  <2> HIDE DEF w
  <2>2. w \in Views(n)
    BY <2>1 DEF Passed, Settled, Sound, Good
  <2> QED
    BY <1>1, <1>3, <2>1, <2>2 DEF Passed, SameReads
<1> QED
  BY <1>2, <1>3

(* The loop passes every tag: each makes what is held back shorter.        *)
LEMMA DrainIs ==
    ASSUME NEW n \in Nat \ {0}, NEW v, Settled(v, n), NEW force \in BOOLEAN, Streaming
    PROVE  Taken(Drain(v, force), v, n, force)
<1> DEFINE S == SameReads(v, n)
           k == Len(v.buffer)
           g == [p \in (1..k) \X S |-> PassTag(p[2])]
<1>1. v \in Views(n) /\ v \in S
  BY DEF Settled, Sound, Good, SameReads
<1>2. k \in Nat
  <2>1. v.buffer \in Seq(TextItems(n))
    BY <1>1 DEF Views
  <2> QED
    BY <2>1, LenProperties
<1>3. \A x \in S : PassTag(x) \in S
  BY PassTagIs
<1>4. \A i \in 1..k : \A x \in S : g[<<i, x>>] = PassTag(x)
  OBVIOUS
<1> HIDE DEF g, S
<1>5. PICK f \in [0..k -> S] : f[0] = v /\ \A i \in 1..k : f[i] = g[<<i, f[i - 1]>>]
  <2>1. StaysIn(S, g, k)
    BY <1>3, <1>4 DEF StaysIn
  <2>2. k \in Nat
    BY <1>2
  <2> HIDE DEF k
  <2>3. \E f \in [0..k -> S] : RunOf(f, v, g, k)
    BY <1>1, <2>1, <2>2, StepsExist
  <2> QED
    BY <2>3 DEF RunOf
<1>6. IsDrainRun(f, v)
  <2> DEFINE body(i) == IF i = 0 THEN v
                        ELSE IF NextTag(f[i - 1]) = 0 THEN f[i - 1]
                        ELSE PastTag(f[i - 1], NextTag(f[i - 1]))
             h == [i \in 0..k |-> body(i)]
  <2>1. ASSUME NEW i \in 0..k
        PROVE  f[i] = body(i)
    <3>1. CASE i = 0
      BY <1>5, <3>1
    <3>2. CASE i # 0
      <4>1. i \in 1..k /\ i - 1 \in 0..k
        BY <1>2, <3>2
      <4>2. f[i] = PassTag(f[i - 1])
        <5>1. f[i] = g[<<i, f[i - 1]>>] /\ f[i - 1] \in S
          BY <1>5, <4>1
        <5> QED
          BY <1>4, <4>1, <5>1
      <4> QED
        BY <3>2, <4>2 DEF PassTag
    <3> QED
      BY <3>1, <3>2
  <2>2. f = [i \in 0..k |-> f[i]]
    BY <1>5
  <2>3. f = h
    <3> HIDE DEF body
    <3> QED
      BY <2>1, <2>2
  <2> QED
    BY <2>3 DEF IsDrainRun
<1> DEFINE past == CHOOSE x : IsDrainRun(x, v)
           last == past[k]
<1>7. IsDrainRun(past, v)
  BY <1>6
<1>8. Drain(v, force) = IF last.inThinking THEN TakeThought(last, force) ELSE TakeText(last, force)
  BY DEF Drain, IsDrainRun
<1> HIDE DEF past
<1>9. past[0] = v /\ \A i \in 1..k : past[i] = PassTag(past[i - 1])
  BY <1>2, <1>7, DrainRunAt
<1> DEFINE B == {i \in Nat : past[i] \in S /\ (NextTag(past[i]) = 0 \/ Len(past[i].buffer) <= k - i)}
<1>10. 0 \in B
  BY <1>1, <1>2, <1>9
<1>11. ASSUME NEW i \in 1..k, i - 1 \in B
       PROVE  i \in B
  <2> DEFINE u == past[i - 1]
             w == past[i]
  <2>1. u \in S /\ (NextTag(u) = 0 \/ Len(u.buffer) <= k - (i - 1)) /\ w = PassTag(u) /\ i \in Nat
    BY <1>9, <1>11
  <2> HIDE DEF u, w
  <2>2. /\ w \in S /\ (NextTag(u) = 0 => w = u)
        /\ NextTag(u) # 0 => Len(w.buffer) < Len(u.buffer)
    BY <2>1, PassTagIs DEF S
  <2>3. u.buffer \in Seq(TextItems(n)) /\ w.buffer \in Seq(TextItems(n))
    BY <2>1, <2>2 DEF S, SameReads, Views
  <2>4. Len(u.buffer) \in Nat /\ Len(w.buffer) \in Nat
    BY <2>3, LenProperties
  <2>5. NextTag(w) = 0 \/ Len(w.buffer) <= k - i
    <3>1. CASE NextTag(u) = 0
      BY <2>2, <3>1
    <3>2. CASE NextTag(u) # 0
      <4> DEFINE a == Len(u.buffer)
                 b == Len(w.buffer)
      <4>1. a \in Nat /\ b \in Nat /\ a <= k - (i - 1) /\ b < a
        BY <2>1, <2>2, <2>4, <3>2
      <4> HIDE DEF a, b, k
      <4>2. b <= k - i
        BY <1>2, <4>1
      <4> QED
        BY <4>2 DEF b
    <3> QED
      BY <3>1, <3>2
  <2> QED
    BY <2>1, <2>2, <2>5 DEF w
<1>12. k \in B
  <2> HIDE DEF B, k
  <2> QED
    BY <1>2, <1>10, <1>11, StepByStep
<1>13. last \in S /\ (NextTag(last) = 0 \/ Len(last.buffer) <= 0)
  <2>1. k - k = 0
    BY <1>2
  <2> HIDE DEF k
  <2> QED
    BY <1>12, <2>1
<1> HIDE DEF last
<1>14. last \in Views(n) /\ Settled(last, n) /\ Reads(last) = Reads(v)
  BY <1>13 DEF S, SameReads
<1>15. NextTag(last) = 0
  <2>1. last.buffer \in Seq(TextItems(n))
    BY <1>14 DEF Views
  <2>2. Len(last.buffer) \in Nat
    BY <2>1, LenProperties
  <2>3. FirstTag(last.buffer, last.inThinking, NextTag(last))
    BY <1>14, NextTagIs
  <2>4. NextTag(last) # 0 => 1 <= Len(last.buffer) - 1
    <3> DEFINE a == Len(last.buffer)
               i == NextTag(last)
    <3>1. i # 0 => i \in 1..a - 1
      BY <2>3 DEF FirstTag
    <3>2. a \in Nat
      BY <2>2
    <3> HIDE DEF a, i
    <3>3. i # 0 => 1 <= a - 1
      BY <3>1, <3>2
    <3> QED
      BY <3>3 DEF a, i
  <2> QED
    BY <1>13, <2>2, <2>4
<1>16. Taken(Drain(v, force), last, n, force)
  <2>1. CASE last.inThinking
    BY <1>8, <1>14, <1>15, <2>1, TakeThoughtIs
  <2>2. CASE ~last.inThinking
    BY <1>8, <1>14, <1>15, <2>2, TakeTextIs
  <2> QED
    BY <2>1, <2>2
<1> QED
  BY <1>14, <1>16 DEF Taken

(* A thought of the reasoning events is closed before the text goes on.    *)
LEMMA CloseEventThoughtIs ==
    ASSUME NEW n \in Nat \ {0}, NEW v, Sound(v, n), Streaming
    PROVE  /\ Settled(CloseEventThought(v), n) /\ Reads(CloseEventThought(v)) = Reads(v)
           /\ CloseEventThought(v).buffer = v.buffer
           /\ CloseEventThought(v).inThinking = v.inThinking
           /\ Spoken(CloseEventThought(v)) = Spoken(v)
<1>1. v \in Views(n) /\ Good(v, n, Odd(v)) /\ FlagsOK(v)
  BY DEF Sound, Good
<1>2. CASE v.open
  <2> DEFINE none == <<>>
             x == Send(v, none, 3)
             w == CloseEventThought(v)
  <2>1. none \in Seq(LiveItems(n)) /\ Good(v, n, Before(3)) /\ After(3) = 0
    BY <1>1, <1>2, EmptySeq DEF FlagsOK, Odd, Before, After
  <2>2. w = [x EXCEPT !.open = FALSE, !.started = FALSE]
    BY <1>2 DEF CloseEventThought
  <2> HIDE DEF none, w
  <2>3. Good(x, n, 0) /\ SameReader(x, v) /\ Spoken(x) = Spoken(v)
    BY <2>1, SendThought
  <2>4. x \in Views(n)
    BY <2>3 DEF Good
  <2> HIDE DEF x
  <2>5. /\ w \in Views(n) /\ SameWriter(w, x) /\ ~w.open /\ ~w.started
        /\ w.buffer = x.buffer /\ w.inThinking = x.inThinking
    BY <2>2, <2>4 DEF Views, SameWriter
  <2>6. Good(w, n, 0) /\ Spoken(w) = Spoken(v)
    BY <2>3, <2>5, SameGood
  <2>7. w.buffer = v.buffer /\ w.inThinking = v.inThinking
    BY <2>3, <2>5 DEF SameReader
  <2>8. Settled(w, n)
    BY <2>5, <2>6 DEF Settled, Sound, Odd, FlagsOK
  <2>9. Reads(w) = Reads(v)
    BY <2>6, <2>7 DEF Reads
  <2> QED
    BY <2>6, <2>7, <2>8, <2>9 DEF w
<1>3. CASE ~v.open
  BY <1>1, <1>3 DEF CloseEventThought, Settled
<1> QED
  BY <1>2, <1>3

(* More text is read after what was held back.                             *)
LEMMA TextIs ==
    ASSUME NEW n \in Nat \ {0}, NEW v, Sound(v, n), NEW items \in Seq(TextItems(n)),
           NEW force \in BOOLEAN, Streaming
    PROVE  /\ Settled(Text(v, items, force), n)
           /\ ~force => Reads(Text(v, items, force)) = SplitAll(Reads(v), items)
           /\ force => Emptied(Text(v, items, force), SplitAll(Reads(v), items).out)
<1> DEFINE w == CloseEventThought(v)
           q == w.buffer
           u == [w EXCEPT !.buffer = q \o items]
           x == Drain(u, force)
<1>1. Settled(w, n) /\ Reads(w) = Reads(v)
  BY CloseEventThoughtIs
<1>2. x = Text(v, items, force)
  BY DEF Text
<1> HIDE DEF w
<1>3. w \in Views(n) /\ Good(w, n, Odd(w)) /\ FlagsOK(w) /\ ~w.open /\ Sound(w, n)
  BY <1>1 DEF Settled, Sound, Good
<1>4. q \in Seq(TextItems(n)) /\ q \o items \in Seq(TextItems(n))
  BY <1>3, ConcatProperties DEF Views
<1>5. /\ u \in Views(n) /\ SameWriter(u, w) /\ u.buffer = q \o items
      /\ u.inThinking = w.inThinking /\ u.started = w.started /\ u.open = w.open /\ u.drop = w.drop
  <2> DEFINE r == q \o items
  <2>1. r \in Seq(TextItems(n)) /\ u = [w EXCEPT !.buffer = r]
    BY <1>4
  <2> HIDE DEF r, u
  <2>2. /\ u \in Views(n) /\ SameWriter(u, w) /\ u.buffer = r
        /\ u.inThinking = w.inThinking /\ u.started = w.started /\ u.open = w.open /\ u.drop = w.drop
    BY <1>3, <2>1 DEF Views, SameWriter
  <2> QED
    BY <2>2 DEF r
<1> HIDE DEF u, x
<1>6. Good(u, n, Odd(u)) /\ Spoken(u) = Spoken(w)
  <2>1. Odd(u) = Odd(w)
    BY <1>5 DEF Odd
  <2> QED
    BY <1>3, <1>5, <2>1, SameGood
<1>7. Settled(u, n)
  <2>1. q # <<>> => u.buffer # <<>>
    BY <1>4, <1>5, ConcatEqualIffEmpty
  <2> QED
    BY <1>3, <1>5, <1>6, <2>1 DEF Settled, Sound, FlagsOK
<1>8. Reads(u) = SplitAll(Reads(v), items)
  <2> DEFINE s == Reader(Spoken(w), w.inThinking)
             said == Spoken(w)
  <2>1. s \in Ahead(n, said) /\ said \in Seq(ShownItems(n)) /\ q \in Seq(ShownItems(n))
    BY <1>3, ReadsIs
  <2>2. items \in Seq(ShownItems(n))
    BY TextShown
  <2>3. Reads(u) = SplitAll(s, q \o items) /\ Reads(w) = SplitAll(s, q)
    BY <1>5, <1>6 DEF Reads
  <2> HIDE DEF s, said, q
  <2>4. SplitAll(s, q \o items) = SplitAll(SplitAll(s, q), items)
    BY <2>1, <2>2, SplitParts
  <2> QED
    BY <1>1, <2>3, <2>4
<1>9. Taken(x, u, n, force)
  BY <1>7, DrainIs DEF x
<1> QED
  BY <1>2, <1>8, <1>9 DEF Taken

(* A piece of thought from the reasoning events says nothing.              *)
LEMMA ReasoningIs ==
    ASSUME NEW n \in Nat \ {0}, NEW v, Sound(v, n), NEW items \in Seq(LiveItems(n)), Streaming
    PROVE  Sound(Reasoning(v, items), n) /\ Reads(Reasoning(v, items)) = Reads(v)
<1> DEFINE w == Reasoning(v, items)
           u == [v EXCEPT !.source = "reasoning"]
<1>1. v \in Views(n) /\ Good(v, n, Odd(v)) /\ FlagsOK(v)
  BY DEF Sound, Good
<1>2. /\ u \in Views(n) /\ SameWriter(u, v) /\ u.buffer = v.buffer
      /\ u.inThinking = v.inThinking /\ u.started = v.started /\ u.open = v.open /\ u.drop = v.drop
  BY <1>1 DEF Views, SameWriter
<1> HIDE DEF u
<1>3. Good(u, n, Odd(v)) /\ Spoken(u) = Spoken(v)
  BY <1>1, <1>2, SameGood
<1>4. CASE ~ask.thinking \/ ~ReasoningAllowed(v)
  BY <1>4 DEF Reasoning
<1>5. CASE ~(~ask.thinking \/ ~ReasoningAllowed(v)) /\ v.started
  <2> DEFINE x == Send(u, items, 2)
  <2>1. Good(u, n, Before(2)) /\ After(2) = 1
    BY <1>3, <1>5 DEF Odd, Before, After
  <2>2. w = x
    BY <1>5 DEF Reasoning, u
  <2> HIDE DEF w
  <2>3. Good(x, n, 1) /\ SameReader(x, u) /\ Spoken(x) = Spoken(v)
    BY <1>3, <2>1, SendThought
  <2> HIDE DEF x
  <2>4. Sound(x, n)
    BY <1>1, <1>2, <1>5, <2>3 DEF Sound, Odd, FlagsOK, SameReader
  <2>5. Reads(x) = Reads(v)
    BY <1>2, <2>3 DEF Reads, SameReader
  <2> QED
    BY <2>2, <2>4, <2>5 DEF w
<1>6. CASE ~(~ask.thinking \/ ~ReasoningAllowed(v)) /\ ~v.started
  <2> DEFINE x == Send(u, items, 1)
  <2>1. Good(u, n, Before(1)) /\ After(1) = 1
    BY <1>3, <1>6 DEF Odd, Before, After
  <2>2. w = [x EXCEPT !.started = TRUE, !.open = TRUE]
    BY <1>6 DEF Reasoning, u
  <2> HIDE DEF w
  <2>3. Good(x, n, 1) /\ SameReader(x, u) /\ Spoken(x) = Spoken(v)
    BY <1>3, <2>1, SendThought
  <2>4. x \in Views(n)
    BY <2>3 DEF Good
  <2> HIDE DEF x
  <2>5. /\ w \in Views(n) /\ SameWriter(w, x) /\ w.buffer = x.buffer /\ w.open /\ w.started
        /\ w.inThinking = x.inThinking
    BY <2>2, <2>4 DEF Views, SameWriter
  <2>6. Good(w, n, 1) /\ Spoken(w) = Spoken(v)
    BY <2>3, <2>5, SameGood
  <2>7. Sound(w, n)
    BY <2>5, <2>6 DEF Sound, Odd, FlagsOK
  <2>8. Reads(w) = Reads(v)
    BY <1>2, <2>3, <2>5, <2>6 DEF Reads, SameReader
  <2> QED
    BY <2>7, <2>8 DEF w
<1> QED
  BY <1>4, <1>5, <1>6

(* An item that ends the reader's thought.                                 *)
LEMMA SplitTool ==
    ASSUME NEW n, NEW s \in Splits(n), NEW tool, tool.n = 0
    PROVE  Split(s, tool) = Reader(Append(s.out, tool), FALSE)
<1>1. s = [out |-> s.out, thought |-> s.thought, prev |-> s.prev]
  BY DEF Splits
<1> QED
  BY <1>1 DEF Split, Reader

(***************************************************************************)
(* Tools, and the end of a stream.                                         *)
(***************************************************************************)
Wrote(u, v, n, e) ==
    /\ u \in Views(n) /\ wire \in Seq(ShownEvents(n)) /\ Got(v) \in Seq(ShownEvents(n))
    /\ SameReader(u, v) /\ (u.begun <=> v.begun)
    /\ u.next = v.next /\ u.block = v.block /\ u.type = v.type
    /\ Got(u) = Append(Got(v), e) /\ Got(u) # <<>>
    /\ ItemsOf(Got(v)) \in Seq(ShownItems(n))
    /\ ItemsOf(Got(u)) = ItemsOf(Got(v)) \o e.items /\ Spoken(u) = Spoken(v) \o SaidBy(e)
    /\ e.items = <<>> => ItemsOf(Got(u)) = ItemsOf(Got(v)) /\ Spoken(u) = Spoken(v)
    /\ Got(v) # <<>> /\ Begins(Got(v)) => Begins(Got(u))

(* What an event appended to a state adds.                                 *)
LEMMA WroteIs ==
    ASSUME NEW n, NEW v \in Views(n), wire \in Seq(ShownEvents(n)), NEW e \in ShownEvents(n)
    PROVE  Wrote(Write(v, e), v, n, e)
<1> DEFINE u == Write(v, e)
<1>1. /\ u \in Views(n) /\ SameReader(u, v) /\ u.begun = v.begun /\ u.next = v.next
      /\ u.block = v.block /\ u.type = v.type
      /\ Got(v) \in Seq(ShownEvents(n)) /\ Got(u) = Append(Got(v), e) /\ Got(u) # <<>>
  BY WriteIs
<1>2. /\ ItemsOf(Got(v)) \in Seq(ShownItems(n))
      /\ ItemsOf(Got(u)) = ItemsOf(Got(v)) \o e.items
      /\ Spoken(u) = Spoken(v) \o SaidBy(e)
      /\ e.items = <<>> => ItemsOf(Got(u)) = ItemsOf(Got(v)) /\ Spoken(u) = Spoken(v)
  BY ItemsWritten DEF SaidBy, Spoken
<1> HIDE DEF u
<1>3. ASSUME Got(v) # <<>>, Begins(Got(v))
      PROVE  Begins(Got(u))
  <2>1. 1 \in 1..Len(Got(v))
    BY <1>1, <1>3, LenProperties, EmptySeq
  <2>2. Got(u)[1] = Got(v)[1]
    BY <1>1, <2>1, AppendProperties
  <2> QED
    BY <1>3, <2>2 DEF Begins
<1> QED
  BY <1>1, <1>2, <1>3 DEF Wrote, u

(* One item that is not a mark.                                            *)
LEMMA ToolMarks ==
    ASSUME NEW n \in Nat \ {0}, NEW s \in Seq(ShownItems(n)), NEW tool \in LiveItems(n),
           NEW k \in {0, 1}, MarksAre(s, MarkLevel(k))
    PROVE  <<tool>> \in Seq(ShownItems(n)) /\ MarksAre(s \o <<tool>>, MarkLevel(k))
<1> DEFINE one == <<tool>>
           j == MarkLevel(k)
<1>1. one \in Seq(LiveItems(n)) /\ j \in {0, 1} /\ MarksAre(s, j)
  BY OneSequence DEF MarkLevel
<1> HIDE DEF one, j
<1>2. one \in Seq(ShownItems(n)) /\ MarksAre(s \o one, j)
  BY <1>1, LiveShown, LiveAppended
<1> QED
  BY <1>2 DEF one, j

(* A tool is a block of its own.                                           *)
ToolShown(x, w, n, k, tool) ==
    /\ Good(x, n, k) /\ SameReader(x, w) /\ Spoken(x) = Spoken(w) \o <<tool>>

(* A tool shown to a Claude client is a block of its own.                  *)
LEMMA ClaudeToolUseIs ==
    ASSUME NEW n \in Nat \ {0}, NEW k \in {0, 1}, NEW v, Good(v, n, k), ask.client = "claude",
           NEW tool \in LiveItems(n)
    PROVE  ToolShown(ClaudeToolUse(v, tool), v, n, k, tool)
<1> DEFINE m == EnsureMessageStart(v)
           w == CloseActiveBlock(m)
           e1 == Event("block_start", w.next, "tool", <<>>)
           e2 == Event("block_delta", w.next, "answer", <<tool>>)
           e3 == Event("block_stop", w.next, "", <<>>)
           a == Write(w, e1)
           b == Write(a, e2)
           c == Write(b, e3)
           x == [c EXCEPT !.next = c.next + 1]
           one == <<tool>>
<1>1. ClaudeToolUse(v, tool) = x
  BY DEF ClaudeToolUse
<1>2. Good(m, n, k) /\ SameReader(m, v) /\ m.begun /\ Spoken(m) = Spoken(v)
  BY Ensured DEF Spoken
<1> HIDE DEF m
<1>3. Good(w, n, k) /\ SameReader(w, m) /\ w.begun /\ w.block < 0 /\ Spoken(w) = Spoken(m)
  BY <1>2, BlockClosed DEF Spoken
<1> HIDE DEF w
<1>4. w \in Views(n) /\ wire \in Seq(ShownEvents(n)) /\ w.next \in Nat /\ w.next \in Int /\ w.block \in Int
  <2>1. w \in Views(n) /\ wire \in Seq(ShownEvents(n))
    BY <1>3 DEF Good
  <2>2. w.next \in Nat /\ w.block \in Int
    BY <2>1 DEF Views
  <2> QED
    BY <2>1, <2>2
<1>5. one \in Seq(ShownItems(n)) /\ <<>> \in Seq(ShownItems(n))
  BY OneSequence, EmptySeq, LiveShown
<1>6. /\ e1 \in ShownEvents(n) /\ e1.ev = "block_start" /\ e1.items = <<>> /\ e1.index = w.next
      /\ e2 \in ShownEvents(n) /\ e2.ev = "block_delta" /\ e2.items = one /\ e2.index = w.next
      /\ SaidBy(e2) = one
      /\ e3 \in ShownEvents(n) /\ e3.ev = "block_stop" /\ e3.items = <<>> /\ e3.index = w.next
  <2> DEFINE i == w.next
  <2>1. i \in Int
    BY <1>4
  <2> HIDE DEF one, i
  <2>2. /\ Event("block_start", i, "tool", <<>>) \in ShownEvents(n)
        /\ Event("block_start", i, "tool", <<>>).ev = "block_start"
        /\ Event("block_start", i, "tool", <<>>).items = <<>>
        /\ Event("block_start", i, "tool", <<>>).index = i
    <3> DEFINE none == <<>>
    <3>1. none \in Seq(ShownItems(n))
      BY <1>5
    <3> HIDE DEF none
    <3>2. /\ Event("block_start", i, "tool", none) \in ShownEvents(n)
          /\ Event("block_start", i, "tool", none).ev = "block_start"
          /\ Event("block_start", i, "tool", none).items = none
          /\ Event("block_start", i, "tool", none).index = i
      BY <2>1, <3>1 DEF Event, ShownEvents
    <3> QED
      BY <3>2 DEF none
  <2>3. /\ Event("block_delta", i, "answer", one) \in ShownEvents(n)
        /\ Event("block_delta", i, "answer", one).ev = "block_delta"
        /\ Event("block_delta", i, "answer", one).items = one
        /\ Event("block_delta", i, "answer", one).index = i
        /\ SaidBy(Event("block_delta", i, "answer", one)) = one
    BY <1>5, <2>1 DEF Event, ShownEvents, SaidBy
  <2>4. /\ Event("block_stop", i, "", <<>>) \in ShownEvents(n)
        /\ Event("block_stop", i, "", <<>>).ev = "block_stop"
        /\ Event("block_stop", i, "", <<>>).items = <<>>
        /\ Event("block_stop", i, "", <<>>).index = i
    BY <1>5, <2>1 DEF Event, ShownEvents
  <2> QED
    BY <2>2, <2>3, <2>4 DEF one, i
<1> HIDE DEF e1, e2, e3, one
<1>7. Wrote(a, w, n, e1)
  BY <1>4, <1>6, WroteIs
<1> HIDE DEF a
<1>8. Wrote(b, a, n, e2)
  BY <1>6, <1>7, WroteIs DEF Wrote
<1> HIDE DEF b
<1>9. Wrote(c, b, n, e3)
  BY <1>6, <1>8, WroteIs DEF Wrote
<1> HIDE DEF c
<1>10. Got(w) # <<>> /\ Begins(Got(w)) /\ TypeFits(w) /\ BlocksAre(Got(w), w.next, w.block)
       /\ MarksAre(ItemsOf(Got(w)), MarkLevel(k))
  BY <1>3 DEF Good, Begins, TypeFits, MarkLevel
<1> DEFINE next == w.next
<1>11. BlocksAre(Got(a), next + 1, next)
  <2>1. Got(a) = Append(Got(w), e1) /\ e1.ev # "message_stop"
    BY <1>6, <1>7 DEF Wrote
  <2> QED
    BY <1>3, <1>6, <1>10, <2>1, BlockAppended DEF Begins
<1>12. BlocksAre(Got(b), next + 1, next)
  <2>1. Got(b) = Append(Got(a), e2) /\ e2.ev # "message_stop" /\ next >= 0
    BY <1>4, <1>6, <1>8 DEF Wrote
  <2> DEFINE l == next + 1
  <2>2. BlocksAre(Got(a), l, next) /\ e2.index = next
    BY <1>6, <1>11
  <2> HIDE DEF l, next
  <2>3. BlocksAre(Got(b), l, next)
    BY <1>6, <2>1, <2>2, BlockAppended
  <2> QED
    BY <2>3 DEF l, next
<1>13. BlocksAre(Got(c), next + 1, -1)
  <2>1. Got(c) = Append(Got(b), e3) /\ e3.ev # "message_stop" /\ next >= 0
    BY <1>4, <1>6, <1>9 DEF Wrote
  <2> DEFINE l == next + 1
  <2>2. BlocksAre(Got(b), l, next) /\ e3.index = next
    BY <1>6, <1>12
  <2> HIDE DEF l, next
  <2>3. BlocksAre(Got(c), l, -1)
    BY <1>6, <2>1, <2>2, BlockAppended
  <2> QED
    BY <2>3 DEF l, next
<1>14. /\ c \in Views(n) /\ c.begun /\ c.next = next /\ c.block = w.block /\ c.type = w.type
       /\ SameReader(c, w) /\ Got(c) # <<>> /\ Begins(Got(c))
  BY <1>3, <1>7, <1>8, <1>9, <1>10 DEF Wrote, SameReader
<1>15. /\ ItemsOf(Got(c)) = ItemsOf(Got(w)) \o one /\ Spoken(c) = Spoken(w) \o one
       /\ ItemsOf(Got(w)) \in Seq(ShownItems(n))
  <2>1. ItemsOf(Got(a)) = ItemsOf(Got(w)) /\ Spoken(a) = Spoken(w) /\ ItemsOf(Got(w)) \in Seq(ShownItems(n))
    BY <1>6, <1>7 DEF Wrote
  <2>2. ItemsOf(Got(b)) = ItemsOf(Got(a)) \o one /\ Spoken(b) = Spoken(a) \o one
    BY <1>6, <1>8 DEF Wrote
  <2>3. ItemsOf(Got(c)) = ItemsOf(Got(b)) /\ Spoken(c) = Spoken(b)
    BY <1>6, <1>9 DEF Wrote
  <2> QED
    BY <2>1, <2>2, <2>3
<1>16. MarksAre(ItemsOf(Got(c)), MarkLevel(k))
  <2> DEFINE s == ItemsOf(Got(w))
  <2>1. s \in Seq(ShownItems(n)) /\ MarksAre(s, MarkLevel(k))
    BY <1>10, <1>15
  <2> HIDE DEF s
  <2>2. MarksAre(s \o one, MarkLevel(k))
    BY <2>1, ToolMarks DEF one
  <2> QED
    BY <1>15, <2>2 DEF s
<1>17. /\ x \in Views(n) /\ x.begun /\ x.next = next + 1 /\ x.block = w.block /\ x.type = w.type
       /\ SameReader(x, c) /\ x.out = c.out
  <2> DEFINE l == c.next + 1
  <2>1. l \in Nat /\ l = next + 1 /\ x = [c EXCEPT !.next = l]
    BY <1>4, <1>14
  <2> HIDE DEF l, x
  <2> QED
    BY <1>14, <2>1 DEF Views, SameReader
<1> HIDE DEF x
<1>18. Got(x) = Got(c)
  BY <1>17 DEF Got
<1>19. BlocksAre(Got(x), x.next, x.block)
  <2>1. -1 < 0
    OBVIOUS
  <2> QED
    BY <1>3, <1>4, <1>13, <1>17, <1>18, <2>1 DEF BlocksAre
<1>20. Good(x, n, k)
  <2>1. MarksAre(ItemsOf(Got(x)), MarkLevel(k)) /\ TypeFits(x) /\ Begins(Got(x)) /\ Got(x) # <<>>
    BY <1>10, <1>14, <1>16, <1>17, <1>18 DEF TypeFits
  <2> QED
    BY <1>4, <1>17, <1>19, <2>1 DEF Good, TypeFits, Begins, MarkLevel
<1>21. SameReader(x, v)
  BY <1>2, <1>3, <1>14, <1>17 DEF SameReader
<1>22. Spoken(x) = Spoken(v) \o one
  BY <1>2, <1>3, <1>15, <1>18 DEF Spoken
<1> QED
  BY <1>1, <1>20, <1>21, <1>22 DEF ToolShown, one

(* A tool is a chunk of its own.                                           *)
LEMMA OpenAIToolUseIs ==
    ASSUME NEW n \in Nat \ {0}, NEW k \in {0, 1}, NEW v, Good(v, n, k), ask.client = "openai",
           NEW tool \in LiveItems(n)
    PROVE  ToolShown(OpenAIToolUse(v, tool), v, n, k, tool)
<1> DEFINE e == Event("chunk", -1, "answer", <<tool>>)
           u == Write(v, e)
           x == [u EXCEPT !.begun = TRUE]
           one == <<tool>>
<1>1. OpenAIToolUse(v, tool) = x
  BY DEF OpenAIToolUse
<1>2. v \in Views(n) /\ wire \in Seq(ShownEvents(n)) /\ BlocksAre(Got(v), v.next, v.block)
      /\ TypeFits(v) /\ MarksAre(ItemsOf(Got(v)), MarkLevel(k))
  BY DEF Good, TypeFits, MarkLevel
<1>3. one \in Seq(ShownItems(n))
  BY OneSequence, LiveShown
<1>4. e \in ShownEvents(n) /\ e.ev = "chunk" /\ e.items = one /\ SaidBy(e) = one
  <2> DEFINE i == -1
  <2>1. i \in Int
    OBVIOUS
  <2> HIDE DEF one, i
  <2>2. /\ Event("chunk", i, "answer", one) \in ShownEvents(n)
        /\ Event("chunk", i, "answer", one).ev = "chunk"
        /\ Event("chunk", i, "answer", one).items = one
        /\ SaidBy(Event("chunk", i, "answer", one)) = one
    BY <1>3, <2>1 DEF Event, ShownEvents, SaidBy
  <2> QED
    BY <2>2 DEF one, i
<1> HIDE DEF e, one
<1>5. Wrote(u, v, n, e)
  BY <1>2, <1>4, WroteIs
<1> HIDE DEF u
<1>6. BlocksAre(Got(u), u.next, u.block)
  <2>1. Got(u) = Append(Got(v), e) /\ u.next = v.next /\ u.block = v.block
        /\ e.ev \notin {"message_start", "block_start", "block_delta", "block_stop", "message_stop"}
    BY <1>4, <1>5 DEF Wrote
  <2> QED
    BY <1>2, <2>1, BlockAppended
<1>7. MarksAre(ItemsOf(Got(u)), MarkLevel(k))
  <2> DEFINE s == ItemsOf(Got(v))
  <2>1. s \in Seq(ShownItems(n)) /\ MarksAre(s, MarkLevel(k)) /\ ItemsOf(Got(u)) = s \o one
    BY <1>2, <1>4, <1>5 DEF Wrote
  <2> HIDE DEF s
  <2>2. MarksAre(s \o one, MarkLevel(k))
    BY <2>1, ToolMarks DEF one
  <2> QED
    BY <2>1, <2>2 DEF s
<1>8. u \in Views(n) /\ SameReader(u, v) /\ TypeFits(u) /\ Got(u) # <<>> /\ Spoken(u) = Spoken(v) \o one
  BY <1>2, <1>4, <1>5 DEF Wrote, TypeFits
<1>9. /\ x \in Views(n) /\ x.begun /\ SameReader(x, u) /\ x.next = u.next /\ x.block = u.block
      /\ x.type = u.type /\ x.out = u.out
  BY <1>8 DEF Views, SameReader
<1> HIDE DEF x
<1>10. Got(x) = Got(u)
  BY <1>9 DEF Got
<1>11. Good(x, n, k)
  <2>1. ask.client # "claude"
    OBVIOUS
  <2>2. BlocksAre(Got(x), x.next, x.block) /\ TypeFits(x) /\ MarksAre(ItemsOf(Got(x)), MarkLevel(k))
        /\ Got(x) # <<>>
    BY <1>6, <1>7, <1>8, <1>9, <1>10 DEF TypeFits
  <2> QED
    BY <1>2, <1>9, <2>1, <2>2 DEF Good, TypeFits, MarkLevel
<1>12. SameReader(x, v) /\ Spoken(x) = Spoken(v) \o one
  BY <1>8, <1>9, <1>10 DEF SameReader, Spoken
<1> QED
  BY <1>1, <1>11, <1>12 DEF ToolShown, one

(* What is held back comes first, then the tool; it ends a thought.        *)
LEMMA ToolUseIs ==
    ASSUME NEW n \in Nat \ {0}, NEW v, Sound(v, n), NEW tool \in LiveItems(n), tool.n = 0,
           Streaming
    PROVE  Sound(OnToolUse(v, tool), n) /\ Reads(OnToolUse(v, tool)) = Split(Reads(v), tool)
<1> DEFINE none == <<>>
           w == Text(v, none, TRUE)
           x == OnToolUse(v, tool)
<1>1. none \in Seq(TextItems(n)) /\ TRUE \in BOOLEAN
  BY EmptySeq
<1>2. Settled(w, n) /\ Emptied(w, SplitAll(Reads(v), none).out)
  <2> DEFINE force == TRUE
  <2>1. force \in BOOLEAN /\ force
    OBVIOUS
  <2> HIDE DEF force, none
  <2>2. Settled(Text(v, none, force), n) /\ Emptied(Text(v, none, force), SplitAll(Reads(v), none).out)
    BY <1>1, <2>1, TextIs
  <2> QED
    BY <2>2 DEF force
<1>3. SplitAll(Reads(v), none) = Reads(v) /\ Reads(v) \in Splits(n)
  BY ReadsIs, SplitNone
<1>4. x = IF ask.client = "claude" THEN ClaudeToolUse(w, tool) ELSE OpenAIToolUse(w, tool)
  BY DEF OnToolUse, Streaming
<1> HIDE DEF w, x, none
<1>5. Good(w, n, 0) /\ w.buffer = <<>> /\ w.inThinking = FALSE /\ ~w.started /\ ~w.open
      /\ Spoken(w) = Reads(v).out
  BY <1>2, <1>3 DEF Settled, Sound, Emptied, Odd
<1>6. ToolShown(x, w, n, 0, tool)
  <2>1. CASE ask.client = "claude"
    BY <1>4, <1>5, <2>1, ClaudeToolUseIs
  <2>2. CASE ask.client = "openai"
    <3>1. ask.client # "claude"
      BY <2>2
    <3> QED
      BY <1>4, <1>5, <2>2, <3>1, OpenAIToolUseIs
  <2> QED
    BY <2>1, <2>2 DEF Streaming
<1>7. /\ Good(x, n, 0) /\ x.buffer = <<>> /\ x.inThinking = FALSE /\ ~x.started /\ ~x.open
      /\ Spoken(x) = Spoken(w) \o <<tool>>
  BY <1>5, <1>6 DEF ToolShown, SameReader
<1>8. Sound(x, n)
  BY <1>7 DEF Sound, Odd, FlagsOK
<1>9. Reads(x) = Reader(Spoken(x), FALSE)
  BY <1>7, <1>8, ReadsNone
<1>10. Spoken(x) = Append(Reads(v).out, tool)
  <2>1. Reads(v).out \in Seq(ShownItems(n)) /\ tool \in ShownItems(n)
    BY <1>3 DEF Splits, ShownItems
  <2>2. Append(Reads(v).out, tool) = Reads(v).out \o <<tool>>
    BY <2>1, AppendIsConcat
  <2> QED
    BY <1>5, <1>7, <2>2
<1>11. Split(Reads(v), tool) = Reader(Append(Reads(v).out, tool), FALSE)
  BY <1>3, SplitTool
<1> QED
  BY <1>8, <1>9, <1>10, <1>11 DEF x

(* A whole answer, and one that is in order as far as it goes.             *)
Whole(q, n) ==
    /\ q \in Seq(ShownEvents(n)) /\ Placed(q) /\ MarksAre(ItemsOf(q), 0)
    /\ Cardinality(Stops(q)) = Cardinality(Starts(q))

InOrder(q, n) ==
    /\ q \in Seq(ShownEvents(n)) /\ Placed(q) /\ Kind(q, "message_stop") = {}
    /\ \E k \in {0, 1} : MarksAre(ItemsOf(q), k)

(* An event that is not of a block, and has nothing in it but the answer.  *)
LEMMA WholeAppended ==
    ASSUME NEW n, NEW q \in Seq(ShownEvents(n)), NEW e \in ShownEvents(n),
           Whole(q, n), e.items = <<>>,
           e.ev \notin {"message_start", "block_start", "block_delta", "block_stop"}
    PROVE  Whole(Append(q, e), n) /\ AnswersIn(Append(q, e)) = AnswersIn(q)
<1>1. IsHistory(q) /\ Append(q, e) \in Seq(ShownEvents(n))
      /\ ItemsOf(q) \in Seq(ShownItems(n)) /\ AnswersIn(q) \in Seq(ShownItems(n))
      /\ ItemsOf(Append(q, e)) = ItemsOf(q) \o <<>>
      /\ AnswersIn(Append(q, e)) = AnswersIn(q) \o <<>>
  BY ShownAppend
<1>2. ItemsOf(Append(q, e)) = ItemsOf(q) /\ AnswersIn(Append(q, e)) = AnswersIn(q)
  BY <1>1, ConcatEmptySeq
<1>3. Placed(Append(q, e))
  <2>1. Placed(q)
    BY DEF Whole
  <2> QED
    BY <1>1, <2>1, PlacedAppend
<1>4. Starts(Append(q, e)) = Starts(q) /\ Stops(Append(q, e)) = Stops(q)
  <2> DEFINE r == Append(q, e)
             k == Len(q)
  <2>1. /\ Starts(r) = Starts(q) \cup (IF e.ev = "block_start" THEN {k + 1} ELSE {})
        /\ Stops(r) = Stops(q) \cup (IF e.ev = "block_stop" THEN {k + 1} ELSE {})
    BY <1>1, EventAppended DEF Starts, Stops
  <2> HIDE DEF r, k
  <2>2. Starts(r) = Starts(q) /\ Stops(r) = Stops(q)
    BY <2>1
  <2> QED
    BY <2>2 DEF r
<1>5. MarksAre(ItemsOf(Append(q, e)), 0)
      /\ Cardinality(Stops(Append(q, e))) = Cardinality(Starts(Append(q, e)))
  BY <1>2, <1>4 DEF Whole
<1> QED
  BY <1>1, <1>2, <1>3, <1>5 DEF Whole

(* A history in order stays so with an event that is not of a block.       *)
LEMMA OrderAppended ==
    ASSUME NEW n, NEW q \in Seq(ShownEvents(n)), NEW e \in ShownEvents(n),
           InOrder(q, n), e.items = <<>>,
           e.ev \notin {"message_start", "block_start", "block_delta", "block_stop", "message_stop"}
    PROVE  InOrder(Append(q, e), n) /\ AnswersIn(Append(q, e)) = AnswersIn(q)
<1>1. IsHistory(q) /\ Append(q, e) \in Seq(ShownEvents(n))
      /\ ItemsOf(q) \in Seq(ShownItems(n)) /\ AnswersIn(q) \in Seq(ShownItems(n))
      /\ ItemsOf(Append(q, e)) = ItemsOf(q) \o <<>>
      /\ AnswersIn(Append(q, e)) = AnswersIn(q) \o <<>>
  BY ShownAppend
<1>2. ItemsOf(Append(q, e)) = ItemsOf(q) /\ AnswersIn(Append(q, e)) = AnswersIn(q)
  BY <1>1, ConcatEmptySeq
<1>3. Placed(Append(q, e))
  <2>1. Placed(q)
    BY DEF InOrder
  <2> QED
    BY <1>1, <2>1, PlacedAppend
<1>4. Kind(Append(q, e), "message_stop") = {}
  BY <1>1, EventAppended DEF InOrder
<1> QED
  BY <1>1, <1>2, <1>3, <1>4 DEF InOrder

(* Nothing has been written.                                               *)
LEMMA NothingIs ==
    ASSUME NEW n, NEW q, q = <<>>
    PROVE  /\ q \in Seq(ShownEvents(n)) /\ BlocksAre(q, 0, -1) /\ Whole(q, n) /\ InOrder(q, n)
           /\ ItemsOf(q) = <<>> /\ AnswersIn(q) = <<>> /\ MarksAre(ItemsOf(q), 0)
<1>1. q \in Seq(ShownEvents(n)) /\ Len(q) = 0 /\ DOMAIN q = {}
  BY EmptySeq
<1>2. IsHistory(q)
  BY <1>1, HistoryOf
<1>3. ItemsOf(q) = <<>> /\ AnswersIn(q) = <<>>
  <2>1. [i \in DOMAIN q |-> q[i].items] = <<>>
        /\ [i \in DOMAIN q |-> IF q[i].part = "answer" THEN q[i].items ELSE <<>>] = <<>>
    BY <1>1
  <2>2. Len(<<>>) = 0
    BY EmptySeq
  <2>3. FlattenSeq(<<>>) = <<>>
    BY <2>2 DEF FlattenSeq
  <2> QED
    BY <2>1, <2>3 DEF ItemsOf, AnswersIn
<1>4. \A ev : Kind(q, ev) = {}
  BY <1>1 DEF Kind
<1>5. Placed(q)
  BY <1>4 DEF Placed, Starts, Stops
<1>6. Cardinality({}) = 0
  BY FS_EmptySet
<1>7. BlocksAre(q, 0, -1)
  <2> DEFINE b == -1
  <2>1. b \in Int /\ b < 0 /\ ~(b >= 0)
    OBVIOUS
  <2> HIDE DEF b
  <2>2. OpenNow(q) = {} /\ Starts(q) = {} /\ Stops(q) = {} /\ Kind(q, "message_stop") = {}
    BY <1>4 DEF OpenNow, Starts, Stops
  <2>3. BlocksAre(q, 0, b)
    BY <1>2, <1>5, <1>6, <2>1, <2>2 DEF BlocksAre
  <2> QED
    BY <2>3 DEF b
<1>8. MarksAre(ItemsOf(q), 0)
  <2> DEFINE s == ItemsOf(q)
  <2>1. DOMAIN s = {}
    BY <1>3
  <2> HIDE DEF s
  <2>2. MarksIn(s) = {}
    BY <2>1 DEF MarksIn
  <2>3. Cardinality(MarksIn(s)) % 2 = 0
    BY <1>6, <2>2
  <2>4. MarksAre(s, 0)
    BY <2>2, <2>3 DEF MarksAre
  <2> QED
    BY <2>4 DEF s
<1> QED
  BY <1>1, <1>3, <1>4, <1>5, <1>6, <1>7, <1>8 DEF Whole, InOrder, Starts, Stops

(***************************************************************************)
(* The content of a buffered answer.                                       *)
(***************************************************************************)
CutSpan(t) ==
    LET i == Find(t, "o1", "o2")
        j == IF i = 0 THEN 0 ELSE Find(From(t, i), "c1", "c2")
    IN  IF j = 0 THEN t ELSE UpTo(t, i - 1) \o From(t, i + j + 1)

IsCutRun(f, s) ==
    f = [n \in 0..Len(s) |->
            IF n = 0 THEN s
            ELSE LET t == f[n - 1]
                     i == Find(t, "o1", "o2")
                     j == IF i = 0 THEN 0 ELSE Find(From(t, i), "c1", "c2")
                 IN  IF j = 0 THEN t ELSE UpTo(t, i - 1) \o From(t, i + j + 1)]

(* Find returns a place of the sequence, or zero.                          *)
LEMMA TagFound ==
    ASSUME NEW q, Len(q) \in Nat
    PROVE  /\ Find(q, "o1", "o2") # 0 => Find(q, "o1", "o2") \in 1..Len(q) - 1
           /\ Find(q, "c1", "c2") # 0 => Find(q, "c1", "c2") \in 1..Len(q) - 1
<1>1. \A ch : (Half(TRUE, ch) <=> ch = "c1") /\ (Ends(TRUE, ch) <=> ch = "c2")
  BY DEF Half, Ends
<1>2. \A ch : (Half(FALSE, ch) <=> ch = "o1") /\ (Ends(FALSE, ch) <=> ch = "o2")
  BY DEF Half, Ends
<1>3. FirstTag(q, TRUE, Find(q, "c1", "c2"))
  BY <1>1, FindIs
<1>4. FirstTag(q, FALSE, Find(q, "o1", "o2"))
  BY <1>2, FindIs
<1> QED
  BY <1>3, <1>4 DEF FirstTag

(* A thought cut out leaves live items.                                    *)
LEMMA CutSpanIs ==
    ASSUME NEW S, NEW t \in Seq(S)
    PROVE  CutSpan(t) \in Seq(S)
<1> DEFINE i == Find(t, "o1", "o2")
           r == From(t, i)
           j == IF i = 0 THEN 0 ELSE Find(r, "c1", "c2")
           k == Len(t)
<1>1. k \in Nat
  BY LenProperties
<1>2. CASE j = 0
  BY <1>2 DEF CutSpan
<1>3. CASE j # 0
  <2>1. i # 0 /\ i \in 1..k - 1
    BY <1>1, <1>3, TagFound
  <2> HIDE DEF i, k
  <2>2. i - 1 \in 0..k /\ i - 1 + 1 = i
    BY <1>1, <2>1
  <2> DEFINE a == i - 1
  <2>3. a \in 0..Len(t) /\ a + 1 = i
    BY <2>2 DEF k
  <2> HIDE DEF a
  <2>4. UpTo(t, a) \in Seq(S) /\ From(t, a + 1) \in Seq(S) /\ Len(From(t, a + 1)) = Len(t) - a
    BY <2>3, CutIs
  <2>5. Len(r) = k - a /\ Len(r) \in Nat
    BY <2>3, <2>4, LenProperties DEF k
  <2>6. j \in 1..Len(r) - 1
    BY <1>3, <2>1, <2>5, TagFound
  <2> HIDE DEF j, r
  <2> DEFINE b == i + j
  <2>7. b \in 0..k /\ b + 1 = i + j + 1
    BY <1>1, <2>1, <2>3, <2>5, <2>6
  <2>8. b \in 0..Len(t)
    BY <2>7 DEF k
  <2> HIDE DEF b
  <2>9. From(t, b + 1) \in Seq(S)
    BY <2>8, CutIs
  <2>10. UpTo(t, a) \o From(t, b + 1) \in Seq(S)
    BY <2>4, <2>9, ConcatProperties
  <2>11. CutSpan(t) = UpTo(t, i - 1) \o From(t, i + j + 1)
    BY <1>3 DEF CutSpan, i, j, r
  <2> QED
    BY <2>7, <2>10, <2>11 DEF a
<1> QED
  BY <1>2, <1>3

(* Whatever is cut out, what is left is content.                           *)
LEMMA ExtractIs ==
    ASSUME NEW S, NEW s \in Seq(S)
    PROVE  ExtractThinking(s) \in Seq(S)
<1> DEFINE T == Seq(S)
           k == Len(s)
           g == [p \in (1..k) \X T |-> CutSpan(p[2])]
<1>1. k \in Nat /\ s \in T
  BY LenProperties
<1>2. \A x \in T : CutSpan(x) \in T
  BY CutSpanIs
<1>3. \A i \in 1..k : \A x \in T : g[<<i, x>>] = CutSpan(x)
  OBVIOUS
<1> HIDE DEF g, T
<1>4. PICK f \in [0..k -> T] : f[0] = s /\ \A i \in 1..k : f[i] = g[<<i, f[i - 1]>>]
  <2>1. StaysIn(T, g, k) /\ k \in Nat
    BY <1>1, <1>2, <1>3 DEF StaysIn
  <2> HIDE DEF k
  <2>2. \E f \in [0..k -> T] : RunOf(f, s, g, k)
    BY <1>1, <2>1, StepsExist
  <2> QED
    BY <2>2 DEF RunOf
<1> DEFINE body(r, n) == IF n = 0 THEN s
                         ELSE LET t == r[n - 1]
                                  i == Find(t, "o1", "o2")
                                  j == IF i = 0 THEN 0 ELSE Find(From(t, i), "c1", "c2")
                              IN  IF j = 0 THEN t ELSE UpTo(t, i - 1) \o From(t, i + j + 1)
<1>5. \A h, n : body(h, n) = IF n = 0 THEN s ELSE CutSpan(h[n - 1])
  BY DEF CutSpan
<1>6. IsCutRun(f, s)
  <2> DEFINE h == [i \in 0..k |-> body(f, i)]
  <2>1. ASSUME NEW i \in 0..k
        PROVE  f[i] = body(f, i)
    <3> HIDE DEF body
    <3>1. CASE i = 0
      BY <1>4, <1>5, <3>1
    <3>2. CASE i # 0
      <4>1. i \in 1..k /\ i - 1 \in 0..k
        BY <1>1, <3>2
      <4>2. f[i] = g[<<i, f[i - 1]>>] /\ f[i - 1] \in T
        BY <1>4, <4>1
      <4>3. f[i] = CutSpan(f[i - 1])
        BY <1>3, <4>1, <4>2
      <4> QED
        BY <1>5, <3>2, <4>3
    <3> QED
      BY <3>1, <3>2
  <2>2. f = [i \in 0..k |-> f[i]]
    BY <1>4
  <2>3. f = h
    <3> HIDE DEF body
    <3> QED
      BY <2>1, <2>2
  <2> QED
    BY <2>3 DEF IsCutRun
<1> DEFINE cut == CHOOSE x : IsCutRun(x, s)
<1>7. IsCutRun(cut, s)
  BY <1>6
<1>8. ExtractThinking(s) = cut[k]
  BY DEF ExtractThinking, IsCutRun
<1> HIDE DEF cut
<1>9. \A i \in 0..k : cut[i] = IF i = 0 THEN s ELSE CutSpan(cut[i - 1])
  <2>1. cut = [i \in 0..k |-> body(cut, i)]
    BY <1>7 DEF IsCutRun
  <2> HIDE DEF body
  <2>2. \A i \in 0..k : cut[i] = body(cut, i)
    BY <2>1
  <2> QED
    BY <1>5, <2>2
<1> DEFINE B == {i \in Nat : cut[i] \in T}
<1>10. 0 \in B
  BY <1>1, <1>9
<1>11. ASSUME NEW i \in 1..k, i - 1 \in B
       PROVE  i \in B
  <2>1. i \in 0..k /\ i # 0 /\ i \in Nat /\ cut[i - 1] \in T
    BY <1>1, <1>11
  <2> QED
    BY <1>2, <1>9, <2>1
<1>12. k \in B
  <2> HIDE DEF B, k
  <2> QED
    BY <1>1, <1>10, <1>11, StepByStep
<1> QED
  BY <1>8, <1>12 DEF T

(***************************************************************************)
(* The end of an answer.                                                   *)
(***************************************************************************)
LEMMA BareEvent ==
    ASSUME NEW n,
           NEW ev \in {"message_start", "block_start", "block_delta", "block_stop",
                       "message_delta", "message_stop", "chunk", "finish", "response",
                       "error", "http_error"}
    PROVE  LET e == Event(ev, -1, "", <<>>)
           IN  e \in ShownEvents(n) /\ e.ev = ev /\ e.items = <<>>
<1> DEFINE i == -1
           none == <<>>
<1>1. i \in Int /\ none \in Seq(ShownItems(n)) /\ "" \in {"", "answer", "thought", "text", "thinking", "tool"}
  BY EmptySeq
<1> HIDE DEF i, none
<1>2. /\ Event(ev, i, "", none) \in ShownEvents(n)
      /\ Event(ev, i, "", none).ev = ev /\ Event(ev, i, "", none).items = none
  BY <1>1 DEF Event, ShownEvents
<1> QED
  BY <1>2 DEF i, none

(* A good state without an open block or thought has written a whole       *)
(* answer so far.                                                          *)
LEMMA GoodWhole ==
    ASSUME NEW n, NEW v, Good(v, n, 0), v.block < 0
    PROVE  Whole(Got(v), n)
<1>1. v \in Views(n) /\ wire \in Seq(ShownEvents(n)) /\ BlocksAre(Got(v), v.next, v.block)
      /\ MarksAre(ItemsOf(Got(v)), 0)
  BY DEF Good
<1>2. Got(v) \in Seq(ShownEvents(n))
  <2>1. v.out \in Seq(ShownEvents(n))
    BY <1>1 DEF Views
  <2> QED
    BY <1>1, <2>1, ConcatProperties DEF Got
<1> QED
  BY <1>1, <1>2 DEF Whole, BlocksAre

(* The last events of a message of the Claude dialect.                     *)
LEMMA FinishClaudeIs ==
    ASSUME NEW n \in Nat \ {0}, NEW v, Good(v, n, 0), ask.client = "claude"
    PROVE  LET x == FinishClaude(v)
           IN  /\ Whole(Got(x), n) /\ AnswersIn(Got(x)) = Spoken(v) /\ Got(x) # <<>>
               /\ x \in Views(n)
<1> DEFINE c == CloseActiveBlock(v)
           w == EnsureMessageStart(c)
           e1 == Event("message_delta", -1, "", <<>>)
           e2 == Event("message_stop", -1, "", <<>>)
           a == Write(w, e1)
           x == Write(a, e2)
<1>1. FinishClaude(v) = x
  BY DEF FinishClaude
<1>2. Good(c, n, 0) /\ c.block < 0 /\ Spoken(c) = Spoken(v)
  BY BlockClosed DEF Spoken
<1> HIDE DEF c
<1>3. Good(w, n, 0) /\ w.block = c.block /\ Spoken(w) = Spoken(c)
  BY <1>2, Ensured DEF Spoken
<1> HIDE DEF w
<1>4. w \in Views(n) /\ wire \in Seq(ShownEvents(n))
  BY <1>3 DEF Good
<1>5. e1 \in ShownEvents(n) /\ e1.ev = "message_delta" /\ e1.items = <<>>
  BY BareEvent
<1>6. e2 \in ShownEvents(n) /\ e2.ev = "message_stop" /\ e2.items = <<>>
  BY BareEvent
<1> HIDE DEF e1, e2
<1>7. Whole(Got(w), n)
  <2>1. w.block < 0
    BY <1>2, <1>3
  <2> QED
    BY <1>3, <2>1, GoodWhole
<1>8. Wrote(a, w, n, e1)
  BY <1>4, <1>5, WroteIs
<1> HIDE DEF a
<1>9. Wrote(x, a, n, e2)
  BY <1>6, <1>8, WroteIs DEF Wrote
<1> HIDE DEF x
<1>10. Whole(Got(a), n) /\ Spoken(a) = Spoken(w)
  <2>1. Got(a) = Append(Got(w), e1) /\ Got(w) \in Seq(ShownEvents(n))
    BY <1>8 DEF Wrote
  <2> QED
    BY <1>5, <1>7, <2>1, WholeAppended DEF Spoken
<1>11. Whole(Got(x), n) /\ Spoken(x) = Spoken(a)
  <2>1. Got(x) = Append(Got(a), e2) /\ Got(a) \in Seq(ShownEvents(n))
    BY <1>9 DEF Wrote
  <2> QED
    BY <1>6, <1>10, <2>1, WholeAppended DEF Spoken
<1>12. Got(x) # <<>> /\ x \in Views(n)
  BY <1>9 DEF Wrote
<1> QED
  BY <1>1, <1>2, <1>3, <1>10, <1>11, <1>12 DEF Spoken

(* An answer that the client can be left with: its thoughts are closed, and *)
(* its blocks when the message has stopped.                                *)
Fine(q, n) ==
    /\ q \in Seq(ShownEvents(n)) /\ Placed(q) /\ MarksAre(ItemsOf(q), 0)
    /\ Kind(q, "message_stop") # {} => Cardinality(Stops(q)) = Cardinality(Starts(q))

Closing(e) ==
    e.ev \notin {"message_start", "block_start", "block_delta", "block_stop", "message_stop"}

(* An event that ends no message, with nothing said out of turn, leaves an *)
(* answer fine.                                                            *)
LEMMA FineAppended ==
    ASSUME NEW n, NEW q \in Seq(ShownEvents(n)), NEW e \in ShownEvents(n), Closing(e),
           Placed(q), Kind(q, "message_stop") = {}, MarksAre(ItemsOf(q) \o e.items, 0)
    PROVE  Fine(Append(q, e), n) /\ AnswersIn(Append(q, e)) = AnswersIn(q) \o SaidBy(e)
<1>1. IsHistory(q) /\ Append(q, e) \in Seq(ShownEvents(n))
      /\ ItemsOf(Append(q, e)) = ItemsOf(q) \o e.items
      /\ AnswersIn(Append(q, e)) = AnswersIn(q) \o SaidBy(e)
  BY ShownAppend DEF SaidBy
<1>2. Placed(Append(q, e))
  BY <1>1, PlacedAppend DEF Closing
<1>3. Kind(Append(q, e), "message_stop") = {}
  BY <1>1, EventAppended DEF Closing
<1> QED
  BY <1>1, <1>2, <1>3 DEF Fine

(* What the handler leaves the client with.                                *)
LeftWith(x, n, said) ==
    /\ x \in Views(n) /\ Fine(Got(x), n) /\ AnswersIn(Got(x)) = said /\ Got(x) # <<>>

(* The end of an OpenAI stream leaves the client with all that was said.   *)
LEMMA FinishOpenAIIs ==
    ASSUME NEW n \in Nat \ {0}, NEW v, Good(v, n, 0)
    PROVE  LeftWith(FinishOpenAI(v), n, Spoken(v))
<1> DEFINE e == Event("finish", -1, "", <<>>)
           x == Write(v, e)
<1>1. FinishOpenAI(v) = x
  BY DEF FinishOpenAI
<1>2. v \in Views(n) /\ wire \in Seq(ShownEvents(n)) /\ BlocksAre(Got(v), v.next, v.block)
      /\ MarksAre(ItemsOf(Got(v)), 0)
  BY DEF Good
<1>3. e \in ShownEvents(n) /\ e.ev = "finish" /\ e.items = <<>>
  BY BareEvent
<1>4. e.part # "answer"
  BY DEF Event
<1> HIDE DEF e
<1>5. Wrote(x, v, n, e)
  BY <1>2, <1>3, WroteIs
<1> HIDE DEF x
<1>6. /\ x \in Views(n) /\ Got(v) \in Seq(ShownEvents(n)) /\ Got(x) = Append(Got(v), e)
      /\ Got(x) # <<>> /\ Spoken(x) = Spoken(v)
      /\ ItemsOf(Got(v)) \o e.items = ItemsOf(Got(v))
  BY <1>3, <1>5, ConcatEmptySeq DEF Wrote
<1>7. Placed(Got(v)) /\ Kind(Got(v), "message_stop") = {}
  BY <1>2 DEF BlocksAre
<1>8. Fine(Got(x), n)
  <2>1. Closing(e)
    BY <1>3 DEF Closing
  <2> QED
    BY <1>2, <1>3, <1>6, <1>7, <2>1, FineAppended
<1> QED
  BY <1>1, <1>6, <1>8 DEF LeftWith, Spoken

(* The buffered handlers answer with everything at once.                   *)
LEMMA FinishBufferedIs ==
    ASSUME NEW n \in Nat \ {0}, NEW v \in Views(n), wire = <<>>, v.out = <<>>
    PROVE  /\ \E said \in Seq(ShownItems(n)) : LeftWith(FinishBuffered(v), n, said)
           /\ FinishBuffered(v).begun <=> v.begun
<1> DEFINE items == ExtractThinking(v.content) \o v.tools
           e == Event("response", -1, "answer", items)
           x == Write(v, e)
<1>1. FinishBuffered(v) = x
  BY DEF FinishBuffered
<1>2. items \in Seq(LiveItems(n)) /\ items \in Seq(ShownItems(n))
  <2>1. v.content \in Seq(LiveItems(n)) /\ v.tools \in Seq(LiveItems(n))
    BY DEF Views
  <2>2. ExtractThinking(v.content) \in Seq(LiveItems(n))
    BY <2>1, ExtractIs
  <2>3. items \in Seq(LiveItems(n))
    BY <2>1, <2>2, ConcatProperties
  <2> HIDE DEF items
  <2> QED
    BY <2>3, LiveShown
<1> HIDE DEF items
<1>3. e \in ShownEvents(n) /\ e.ev = "response" /\ e.items = items /\ e.part = "answer"
  <2> DEFINE i == -1
  <2>1. i \in Int
    OBVIOUS
  <2> HIDE DEF i
  <2>2. /\ Event("response", i, "answer", items) \in ShownEvents(n)
        /\ Event("response", i, "answer", items).ev = "response"
        /\ Event("response", i, "answer", items).part = "answer"
        /\ Event("response", i, "answer", items).items = items
    BY <1>2, <2>1 DEF Event, ShownEvents
  <2> QED
    BY <2>2 DEF i
<1> HIDE DEF e
<1>4. wire \in Seq(ShownEvents(n)) /\ Got(v) = <<>>
  <2>1. wire \in Seq(ShownEvents(n))
    BY EmptySeq
  <2>2. <<>> \o <<>> = <<>>
    BY ConcatEmptySeq
  <2> QED
    BY <2>1, <2>2 DEF Got
<1>5. Wrote(x, v, n, e)
  BY <1>3, <1>4, WroteIs
<1> HIDE DEF x
<1>6. /\ x \in Views(n) /\ Got(v) \in Seq(ShownEvents(n)) /\ Got(x) = Append(Got(v), e)
      /\ Got(x) # <<>> /\ (x.begun <=> v.begun)
  BY <1>5 DEF Wrote
<1>7. Placed(Got(v)) /\ Kind(Got(v), "message_stop") = {} /\ ItemsOf(Got(v)) = <<>>
      /\ MarksAre(ItemsOf(Got(v)), 0)
  <2> DEFINE q == Got(v)
  <2>1. q = <<>>
    BY <1>4
  <2> HIDE DEF q
  <2>2. InOrder(q, n) /\ Whole(q, n) /\ ItemsOf(q) = <<>>
    BY <2>1, NothingIs
  <2>3. Placed(q) /\ Kind(q, "message_stop") = {} /\ ItemsOf(q) = <<>> /\ MarksAre(ItemsOf(q), 0)
    BY <2>2 DEF InOrder, Whole
  <2> QED
    BY <2>3 DEF q
<1>8. MarksAre(ItemsOf(Got(v)) \o e.items, 0)
  <2> DEFINE s == ItemsOf(Got(v))
             k == 0
  <2>1. s \in Seq(ShownItems(n)) /\ k \in {0, 1} /\ MarksAre(s, k) /\ k = 0
    BY <1>6, <1>7, ShownTypes
  <2> HIDE DEF s, k
  <2>2. MarksAre(s \o items, k)
    BY <1>2, <2>1, LiveAppended
  <2> QED
    BY <1>3, <2>1, <2>2 DEF s
<1>9. Fine(Got(x), n) /\ AnswersIn(Got(x)) \in Seq(ShownItems(n))
  <2>1. Closing(e)
    BY <1>3 DEF Closing
  <2>2. Fine(Got(x), n)
    BY <1>3, <1>6, <1>7, <1>8, <2>1, FineAppended
  <2> QED
    BY <2>2, ShownTypes DEF Fine
<1> QED
  BY <1>1, <1>6, <1>9 DEF LeftWith

(* What is held back goes out at the end.                                  *)
LEMMA FinishIs ==
    ASSUME NEW n \in Nat \ {0}, NEW v, Sound(v, n), Streaming
    PROVE  LeftWith(Finish(v), n, Reads(v).out)
<1> DEFINE none == <<>>
           force == TRUE
           t == Text(v, none, force)
           w == CloseEventThought(t)
<1>1. none \in Seq(TextItems(n)) /\ force \in BOOLEAN /\ force
  BY EmptySeq
<1>2. Reads(v) \in Ahead(n, Spoken(v)) /\ Spoken(v) \in Seq(ShownItems(n))
  BY ReadsIs
<1>3. SplitAll(Reads(v), none) = Reads(v)
  BY <1>2, SplitNone
<1> DEFINE f == Finish(v)
<1>4. f = IF ask.client = "claude" THEN FinishClaude(w) ELSE FinishOpenAI(w)
  BY DEF Finish, Streaming
<1> HIDE DEF none, force, f
<1>5. Settled(t, n) /\ Emptied(t, Reads(v).out)
  BY <1>1, <1>3, TextIs
<1> HIDE DEF t
<1>6. Settled(w, n) /\ Spoken(w) = Spoken(t)
  BY <1>5, CloseEventThoughtIs DEF Settled
<1>7. ~w.started
  <2>1. w.buffer = t.buffer /\ w.inThinking = t.inThinking
    BY <1>5, CloseEventThoughtIs DEF Settled
  <2> HIDE DEF w
  <2> QED
    BY <1>5, <1>6, <2>1 DEF Settled, Sound, FlagsOK, Emptied
<1> HIDE DEF w
<1>8. Good(w, n, 0) /\ Spoken(w) = Reads(v).out
  BY <1>5, <1>6, <1>7 DEF Settled, Sound, Odd, Emptied
<1>9. CASE ask.client = "claude"
  <2> DEFINE x == FinishClaude(w)
  <2>1. Whole(Got(x), n) /\ AnswersIn(Got(x)) = Spoken(w) /\ Got(x) # <<>> /\ x \in Views(n)
    BY <1>8, <1>9, FinishClaudeIs
  <2> HIDE DEF x
  <2>2. LeftWith(x, n, Spoken(w))
    BY <2>1 DEF LeftWith, Whole, Fine
  <2> QED
    BY <1>4, <1>8, <1>9, <2>2 DEF f, x
<1>10. CASE ask.client # "claude"
  <2>1. LeftWith(FinishOpenAI(w), n, Spoken(w))
    BY <1>8, FinishOpenAIIs
  <2> QED
    BY <1>4, <1>8, <1>10, <2>1 DEF f
<1> QED
  BY <1>9, <1>10

(***************************************************************************)
(* What the stream has brought so far.                                     *)
(***************************************************************************)
SentEvents(n) == [kind : {"text", "reasoning", "tool"}, items : Seq(LiveItems(n))]
PartOf(e) == IF e.kind = "reasoning" THEN <<>> ELSE e.items

(* One more event brings one more part.                                    *)
LEMMA SentAppend ==
    ASSUME NEW n, NEW q \in Seq(SentEvents(n)), NEW e \in SentEvents(n)
    PROVE  /\ Append(q, e) \in Seq(SentEvents(n))
           /\ TextAndTools(q) \in Seq(LiveItems(n))
           /\ TextAndTools(Append(q, e)) = TextAndTools(q) \o PartOf(e)
           /\ FlattenSeq([i \in 1..Len(q) |-> q[i].items]) \in Seq(LiveItems(n))
<1> DEFINE S == LiveItems(n)
           r == Append(q, e)
           k == Len(q)
           items(p) == [i \in 1..Len(p) |-> p[i].items]
           parts(p) == [i \in DOMAIN p |-> PartOf(p[i])]
<1>1. /\ k \in Nat /\ DOMAIN q = 1..k /\ DOMAIN r = 1..k + 1
      /\ r \in Seq(SentEvents(n)) /\ r[k + 1] = e /\ \A i \in 1..k : r[i] = q[i]
  BY LenProperties, AppendProperties
<1>2. \A x \in SentEvents(n) : x.items \in Seq(S) /\ PartOf(x) \in Seq(S)
  BY EmptySeq DEF SentEvents, PartOf
<1>9. TextAndTools(q) = FlattenSeq(parts(q)) /\ TextAndTools(r) = FlattenSeq(parts(r))
  BY DEF TextAndTools, PartOf
<1> HIDE DEF S, r
<1>3. \A i \in 1..k : q[i] \in SentEvents(n)
  BY ElementOfSeq
<1> HIDE DEF k
<1>4. items(q) \in Seq(Seq(S)) /\ parts(q) \in Seq(Seq(S))
  <2>1. items(q) \in [1..k -> Seq(S)]
    BY <1>1, <1>2, <1>3 DEF k
  <2>2. parts(q) \in [1..k -> Seq(S)]
    BY <1>1, <1>2, <1>3
  <2> HIDE DEF items, parts
  <2> QED
    BY <1>1, <2>1, <2>2, SeqDef
<1>5. Len(parts(q)) = k
  <2>1. DOMAIN parts(q) = 1..k
    BY <1>1
  <2> HIDE DEF parts
  <2> QED
    BY <1>1, <1>4, <2>1, LenProperties
<1>6. parts(r) = Append(parts(q), PartOf(e))
  <2>1. parts(r) = [i \in 1..k + 1 |-> IF i = k + 1 THEN PartOf(e) ELSE parts(q)[i]]
    BY <1>1
  <2>2. Append(parts(q), PartOf(e)) =
           [i \in 1..k + 1 |-> IF i = k + 1 THEN PartOf(e) ELSE parts(q)[i]]
    BY <1>4, <1>5, <1>2, AppendIs
  <2> QED
    BY <2>1, <2>2
<1>7. FlattenSeq(items(q)) \in Seq(S) /\ FlattenSeq(parts(q)) \in Seq(S)
  BY <1>4, FlattenTypes
<1>8. FlattenSeq(parts(r)) = FlattenSeq(parts(q)) \o PartOf(e)
  BY <1>2, <1>4, <1>6, FlattenAppend
<1> QED
  BY <1>1, <1>7, <1>8, <1>9 DEF S, r

(* What a stream has brought is live.                                      *)
LEMMA SentTypes ==
    ASSUME NEW n, NEW q \in Seq(SentEvents(n))
    PROVE  /\ TextAndTools(q) \in Seq(LiveItems(n)) /\ TextAndTools(q) \in Seq(ShownItems(n))
           /\ FlattenSeq([i \in 1..Len(q) |-> q[i].items]) \in Seq(LiveItems(n))
<1> DEFINE none == <<>>
           e == [kind |-> "text", items |-> none]
<1>1. none \in Seq(LiveItems(n))
  BY EmptySeq
<1> HIDE DEF none
<1>2. e \in SentEvents(n)
  BY <1>1 DEF SentEvents
<1> HIDE DEF e
<1> QED
  BY <1>2, SentAppend, LiveShown

(* A stream that has brought nothing.                                      *)
LEMMA NothingSent ==
    ASSUME NEW n, NEW q, q = <<>>
    PROVE  q \in Seq(SentEvents(n)) /\ TextAndTools(q) = <<>>
<1>1. q \in Seq(SentEvents(n)) /\ DOMAIN q = {}
  BY EmptySeq
<1>2. [i \in DOMAIN q |-> IF q[i].kind = "reasoning" THEN <<>> ELSE q[i].items] = <<>>
  BY <1>1
<1>3. FlattenSeq(<<>>) = <<>>
  <2>1. Len(<<>>) = 0
    BY EmptySeq
  <2> QED
    BY <2>1 DEF FlattenSeq
<1> QED
  BY <1>1, <1>2, <1>3 DEF TextAndTools

(* The atoms of a chunk are text of their stream.                          *)
LEMMA AtomsTyped ==
    ASSUME sent \in Seq(SentEvents(spent.streams)), NEW chunk \in Seq(STRING) \ {<<>>}
    PROVE  Atoms(chunk) \in Seq(TextItems(spent.streams)) /\ Atoms(chunk) # <<>>
<1> DEFINE n == spent.streams
           m == Len(FlattenSeq([i \in 1..Len(sent) |-> sent[i].items]))
           k == Len(chunk)
           f == [i \in 1..k |-> [ch |-> chunk[i], of |-> n, n |-> m + i]]
<1>1. m \in Nat
  BY SentTypes, LenProperties
<1>2. k \in Nat /\ k # 0 /\ \A i \in 1..k : chunk[i] \in STRING
  BY LenProperties, ElementOfSeq, EmptySeq
<1>3. Atoms(chunk) = f
  BY DEF Atoms
<1> HIDE DEF n, m, k
<1>4. ASSUME NEW i \in 1..k
      PROVE  f[i] \in TextItems(n)
  <2>1. m + i \in Nat \ {0} /\ chunk[i] \in Spelled
    BY <1>1, <1>2 DEF Spelled
  <2> QED
    BY <2>1 DEF TextItems
<1>5. f \in [1..k -> TextItems(n)] /\ DOMAIN f # {}
  <2>1. DOMAIN f = 1..k /\ 1 \in 1..k
    BY <1>2
  <2>2. f \in [1..k -> TextItems(n)]
    BY <1>4
  <2> QED
    BY <2>1, <2>2
<1>6. f \in Seq(TextItems(n)) /\ f # <<>>
  <2> HIDE DEF f
  <2>1. f \in Seq(TextItems(n))
    BY <1>2, <1>5, SeqDef
  <2>2. f # <<>>
    <3>1. DOMAIN f = 1..Len(f)
      BY <2>1, LenProperties
    <3>2. Len(<<>>) = 0
      BY EmptySeq
    <3>3. ASSUME f = <<>>
          PROVE  FALSE
      <4>1. DOMAIN f = 1..0
        BY <3>1, <3>2, <3>3
      <4> QED
        BY <1>5, <4>1
    <3> QED
      BY <3>3
  <2> QED
    BY <2>1, <2>2
<1> QED
  BY <1>3, <1>6 DEF n

(***************************************************************************)
(* Tools.                                                                  *)
(***************************************************************************)
ToolItems(n) == [ch : Spelled, of : {n}, n : {0}]
LiveTools == [id : Spelled, name : STRING, made : BOOLEAN,
              input : {"none", "empty", "partial", "whole", "broken"}]

(* The item of a tool is one of its stream.                                *)
LEMMA ToolItemTyped ==
    ASSUME NEW tool \in LiveTools
    PROVE  ToolItem(tool) \in ToolItems(spent.streams)
BY DEF ToolItem, ToolItems, LiveTools

(* The tool that collects its input, before and after an event.            *)
LEMMA ReceivingTyped ==
    ASSUME NEW tool \in LiveTools \cup {NoTool}, NEW e \in ToolEvents
    PROVE  Receiving(tool, e) \in LiveTools \cup {NoTool}
<1>1. e.id \in STRING /\ e.name \in STRING
  BY StreamsAssumption
<1> DEFINE c == Collecting(tool, e)
           a == Accumulate(c.input, e.input)
<1>2. c \in LiveTools \cup {NoTool}
  <2>1. CASE e.name = "" \/ (tool # NoTool /\ ~StartsAnother(tool, e) /\ e.id = "")
    BY <2>1 DEF Collecting
  <2>2. CASE e.name # "" /\ (tool = NoTool \/ StartsAnother(tool, e))
    <3> DEFINE id == IF e.id = "" THEN "made" ELSE e.id
               made == e.id = ""
    <3>1. c = [id |-> id, name |-> e.name, made |-> made, input |-> "empty"]
      BY <2>2 DEF Collecting
    <3>2. id \in Spelled /\ made \in BOOLEAN
      BY <1>1 DEF Spelled
    <3> HIDE DEF id, made, c
    <3> QED
      BY <1>1, <3>1, <3>2 DEF LiveTools
  <2>3. CASE e.name # "" /\ tool # NoTool /\ ~StartsAnother(tool, e) /\ e.id # ""
    <3>1. c = [tool EXCEPT !.id = e.id, !.made = FALSE] /\ tool \in LiveTools
      BY <2>3 DEF Collecting
    <3> HIDE DEF c
    <3> QED
      BY <1>1, <3>1 DEF LiveTools, Spelled
  <2> QED
    BY <2>1, <2>2, <2>3
<1> HIDE DEF c
<1>3. CASE c = NoTool
  BY <1>3 DEF Receiving, c
<1>4. CASE c # NoTool
  <2>1. c \in LiveTools
    BY <1>2, <1>4
  <2>2. a \in {"none", "empty", "partial", "whole", "broken"}
    BY <2>1 DEF Accumulate, LiveTools
  <2> HIDE DEF a
  <2>3. [c EXCEPT !.input = a] \in LiveTools
    BY <2>1, <2>2 DEF LiveTools
  <2>4. Receiving(tool, e) = [c EXCEPT !.input = a]
    BY <1>4 DEF Receiving, c, a
  <2> QED
    BY <2>3, <2>4
<1> QED
  BY <1>3, <1>4

(* The tools that an event finishes are of the stream being read.          *)
LEMMA ToolsShownTyped ==
    ASSUME call.tool \in LiveTools \cup {NoTool}, NEW e \in ToolEvents
    PROVE  ToolsShown(e) \in Seq(ToolItems(spent.streams))
<1> DEFINE old == call.tool
           tool == Receiving(old, e)
           done == StartsAnother(old, e)
           ends == e.stop /\ tool # NoTool /\ Finishable(tool)
           a == IF done THEN <<ToolItem(old)>> ELSE <<>>
           b == IF ends THEN <<ToolItem(tool)>> ELSE <<>>
           S == ToolItems(spent.streams)
<1>1. a \in Seq(S)
  <2>1. CASE done
    <3>1. old \in LiveTools
      BY <2>1 DEF StartsAnother
    <3>2. ToolItem(old) \in S
      BY <3>1, ToolItemTyped
    <3> QED
      BY <2>1, <3>2, OneSequence
  <2>2. CASE ~done
    BY <2>2, EmptySeq
  <2> QED
    BY <2>1, <2>2
<1>2. b \in Seq(S)
  <2>1. CASE ends
    <3>1. tool \in LiveTools
      BY <2>1, ReceivingTyped
    <3>2. ToolItem(tool) \in S
      BY <3>1, ToolItemTyped
    <3> QED
      BY <2>1, <3>2, OneSequence
  <2>2. CASE ~ends
    BY <2>2, EmptySeq
  <2> QED
    BY <2>1, <2>2
<1>3. ToolsShown(e) = IF done /\ ~Finishable(old) THEN <<>> ELSE a \o b
  BY DEF ToolsShown
<1> HIDE DEF a, b, done, old, S
<1>4. a \o b \in Seq(S) /\ <<>> \in Seq(S)
  BY <1>1, <1>2, ConcatProperties, EmptySeq
<1> QED
  BY <1>3, <1>4 DEF S

(* Tools shown one after another, as ShowTools does.                       *)
ToolsUsed(v, tools) ==
    LET shown[n \in 0..Len(tools)] ==
            IF n = 0 THEN v ELSE OnToolUse(shown[n - 1], tools[n])
    IN  shown[Len(tools)]

IsToolRun(f, v, tools) ==
    f = [n \in 0..Len(tools) |-> IF n = 0 THEN v ELSE OnToolUse(f[n - 1], tools[n])]

(* Showing tools is a step for each.                                       *)
LEMMA ToolRunAt ==
    ASSUME NEW f, NEW v, NEW tools, Len(tools) \in Nat, IsToolRun(f, v, tools)
    PROVE  f[0] = v /\ \A i \in 1..Len(tools) : f[i] = OnToolUse(f[i - 1], tools[i])
<1> DEFINE body(i) == IF i = 0 THEN v ELSE OnToolUse(f[i - 1], tools[i])
<1>1. f = [i \in 0..Len(tools) |-> body(i)]
  BY DEF IsToolRun
<1>2. body(0) = v /\ \A i \in 1..Len(tools) : body(i) = OnToolUse(f[i - 1], tools[i])
  OBVIOUS
<1> HIDE DEF body
<1>3. \A i \in 0..Len(tools) : f[i] = body(i)
  BY <1>1
<1> QED
  BY <1>2, <1>3

Closed(A, T) == \A u \in A : \A tool \in T : OnToolUse(u, tool) \in A

(* Tools can be shown one after another.                                   *)
LEMMA ToolRuns ==
    ASSUME NEW A, NEW T, Closed(A, T), NEW v \in A, NEW tools \in Seq(T)
    PROVE  \E f : IsToolRun(f, v, tools) /\ ToolsUsed(v, tools) = f[Len(tools)]
<1> DEFINE k == Len(tools)
           g == [p \in (1..k) \X A |-> OnToolUse(p[2], tools[p[1]])]
<1>1. k \in Nat /\ \A i \in 1..k : tools[i] \in T
  BY LenProperties, ElementOfSeq
<1>2. \A i \in 1..k : \A x \in A : g[<<i, x>>] = OnToolUse(x, tools[i]) /\ g[<<i, x>>] \in A
  BY <1>1 DEF Closed
<1> HIDE DEF g
<1>3. PICK f \in [0..k -> A] : f[0] = v /\ \A i \in 1..k : f[i] = g[<<i, f[i - 1]>>]
  <2>1. StaysIn(A, g, k)
    BY <1>2 DEF StaysIn
  <2> HIDE DEF k
  <2>2. \E f \in [0..k -> A] : RunOf(f, v, g, k)
    BY <1>1, <2>1, StepsExist
  <2> QED
    BY <2>2 DEF RunOf
<1>4. IsToolRun(f, v, tools)
  <2> DEFINE h == [i \in 0..k |-> IF i = 0 THEN v ELSE OnToolUse(f[i - 1], tools[i])]
  <2>1. ASSUME NEW i \in 0..k
        PROVE  f[i] = h[i]
    <3>1. CASE i = 0
      BY <1>1, <1>3, <3>1
    <3>2. CASE i # 0
      <4>1. i \in 1..k /\ i - 1 \in 0..k
        BY <1>1, <3>2
      <4>2. f[i] = g[<<i, f[i - 1]>>] /\ f[i - 1] \in A
        BY <1>3, <4>1
      <4> QED
        BY <1>2, <3>2, <4>1, <4>2
    <3> QED
      BY <3>1, <3>2
  <2>2. f = [i \in 0..k |-> f[i]] /\ h = [i \in 0..k |-> h[i]]
    BY <1>3
  <2>3. f = h
    <3> HIDE DEF h
    <3> QED
      BY <2>1, <2>2
  <2> QED
    BY <2>3 DEF IsToolRun
<1> DEFINE c == CHOOSE x : IsToolRun(x, v, tools)
<1>5. IsToolRun(c, v, tools)
  BY <1>4
<1>6. ToolsUsed(v, tools) = c[k]
  BY DEF ToolsUsed, IsToolRun
<1> HIDE DEF c
<1> QED
  BY <1>5, <1>6

(* The item of a tool is live, and not text.                               *)
LEMMA ToolItemIsLive ==
    ASSUME NEW n, NEW tool \in ToolItems(n)
    PROVE  tool \in LiveItems(n) /\ tool.n = 0 /\ tool \in ShownItems(n)
BY DEF ToolItems, LiveItems, ShownItems

(* So are those of several.                                                *)
LEMMA ToolsAreLive ==
    ASSUME NEW n, NEW tools \in Seq(ToolItems(n))
    PROVE  tools \in Seq(LiveItems(n)) /\ tools \in Seq(ShownItems(n))
<1>1. ToolItems(n) \subseteq LiveItems(n)
  BY ToolItemIsLive
<1>2. Len(tools) \in Nat /\ tools \in [1..Len(tools) -> ToolItems(n)]
  BY LenProperties
<1>3. tools \in [1..Len(tools) -> LiveItems(n)]
  BY <1>1, <1>2
<1>4. tools \in Seq(LiveItems(n))
  BY <1>1, <1>2, <1>3, SeqDef
<1> QED
  BY <1>4, LiveShown

(* A streaming client is shown them after what was held back.              *)
LEMMA ToolsUsedIs ==
    ASSUME NEW n \in Nat \ {0}, NEW v, Sound(v, n), NEW tools \in Seq(ToolItems(n)), Streaming
    PROVE  Sound(ToolsUsed(v, tools), n) /\ Reads(ToolsUsed(v, tools)) = SplitAll(Reads(v), tools)
<1> DEFINE A == {u \in Views(n) : Sound(u, n)}
           T == ToolItems(n)
           k == Len(tools)
<1>1. v \in A
  BY ReadsIs
<1>2. Closed(A, T)
  <2>1. ASSUME NEW u \in A, NEW tool \in T
        PROVE  OnToolUse(u, tool) \in A
    <3> DEFINE w == OnToolUse(u, tool)
    <3>1. Sound(w, n)
      BY ToolItemIsLive, ToolUseIs
    <3> HIDE DEF w
    <3>2. w \in Views(n)
      BY <3>1, ReadsIs
    <3> QED
      BY <3>1, <3>2 DEF w
  <2> QED
    BY <2>1 DEF Closed
<1>3. PICK f : IsToolRun(f, v, tools) /\ ToolsUsed(v, tools) = f[k]
  <2> HIDE DEF A
  <2>1. tools \in Seq(T)
    OBVIOUS
  <2> HIDE DEF T
  <2> QED
    BY <1>1, <1>2, <2>1, ToolRuns
<1>4. k \in Nat /\ tools \in Seq(ShownItems(n)) /\ tools \in Seq(T)
  BY LenProperties, ToolsAreLive
<1>5. f[0] = v /\ \A i \in 1..k : f[i] = OnToolUse(f[i - 1], tools[i])
  BY <1>3, <1>4, ToolRunAt
<1>6. /\ Reads(v) \in Ahead(n, Spoken(v)) /\ Spoken(v) \in Seq(ShownItems(n))
  BY ReadsIs
<1> DEFINE At(i) == Sound(f[i], n) /\ Reads(f[i]) = SplitAll(Reads(v), UpTo(tools, i))
           B == {i \in Nat : i \in 0..k => At(i)}
<1>7. 0 \in B
  <2>1. UpTo(tools, 0) = <<>>
    BY <1>4, UpToIs
  <2>2. SplitAll(Reads(v), <<>>) = Reads(v)
    BY <1>6, SplitNone
  <2> QED
    BY <1>5, <2>1, <2>2
<1>8. ASSUME NEW i \in 1..k, i - 1 \in B
      PROVE  i \in B
  <2> DEFINE u == f[i - 1]
             tool == tools[i]
             r == UpTo(tools, i - 1)
  <2>1. i - 1 \in 0..k /\ i \in Nat
    BY <1>4
  <2>2. At(i - 1)
    BY <1>8, <2>1
  <2>3. Sound(u, n) /\ Reads(u) = SplitAll(Reads(v), r)
    BY <2>2
  <2>4. f[i] = OnToolUse(u, tool)
    BY <1>5
  <2>5. tool \in LiveItems(n) /\ tool.n = 0 /\ tool \in ShownItems(n)
    BY <1>4, ElementOfSeq, ToolItemIsLive
  <2>6. r \in Seq(ShownItems(n)) /\ UpTo(tools, i) = Append(r, tool)
    BY <1>4, UpToIs
  <2> HIDE DEF u, tool, r, At
  <2>7. Sound(f[i], n) /\ Reads(f[i]) = Split(Reads(u), tool)
    BY <2>3, <2>4, <2>5, ToolUseIs
  <2>8. SplitAll(Reads(v), Append(r, tool)) = Split(SplitAll(Reads(v), r), tool)
    BY <1>6, <2>5, <2>6, SplitOne
  <2>9. At(i)
    BY <2>3, <2>6, <2>7, <2>8 DEF At
  <2> QED
    BY <2>1, <2>9
<1>9. k \in B
  <2> HIDE DEF B
  <2> QED
    BY <1>4, <1>7, <1>8, StepByStep
<1>10. At(k)
  BY <1>4, <1>9
<1>11. UpTo(tools, k) = tools
  BY <1>4, UpToIs
<1> QED
  BY <1>3, <1>10, <1>11

(* No tool at all.                                                         *)
LEMMA NoToolUsed ==
    ASSUME NEW v, NEW tools, tools = <<>>
    PROVE  ToolsUsed(v, tools) = v
<1> DEFINE A == {}
           f == [i \in 0..Len(tools) |-> v]
<1>1. Len(tools) = 0
  BY EmptySeq
<1>2. IsToolRun(f, v, tools)
  <2>1. f = [n \in 0..Len(tools) |-> IF n = 0 THEN v ELSE OnToolUse(f[n - 1], tools[n])]
    BY <1>1
  <2> HIDE DEF f
  <2> QED
    BY <2>1 DEF IsToolRun
<1> DEFINE c == CHOOSE x : IsToolRun(x, v, tools)
<1>3. IsToolRun(c, v, tools)
  BY <1>2
<1>4. ToolsUsed(v, tools) = c[Len(tools)]
  BY DEF ToolsUsed, IsToolRun
<1> HIDE DEF c
<1> QED
  BY <1>1, <1>3, <1>4, ToolRunAt

(* The buffered handlers only collect.                                     *)
Collects(v, n) == v \in Views(n) /\ ~v.begun /\ v.out = <<>>

(* A buffered handler that collects a tool has still written nothing.      *)
LEMMA CollectTool ==
    ASSUME NEW n, NEW v, Collects(v, n), NEW tool \in ToolItems(n), ask.client = "buffered"
    PROVE  Collects(OnToolUse(v, tool), n)
<1> DEFINE q == Append(v.tools, tool)
<1>1. q \in Seq(LiveItems(n))
  <2>1. v.tools \in Seq(LiveItems(n)) /\ tool \in LiveItems(n)
    BY ToolItemIsLive DEF Collects, Views
  <2> QED
    BY <2>1, AppendProperties
<1>2. OnToolUse(v, tool) = [v EXCEPT !.tools = q]
  BY DEF OnToolUse
<1> HIDE DEF q
<1> QED
  BY <1>1, <1>2 DEF Collects, Views

(* Nor has it after several.                                               *)
LEMMA CollectTools ==
    ASSUME NEW n, NEW v, Collects(v, n), NEW tools \in Seq(ToolItems(n)), ask.client = "buffered"
    PROVE  Collects(ToolsUsed(v, tools), n)
<1> DEFINE A == {u \in Views(n) : Collects(u, n)}
           T == ToolItems(n)
           k == Len(tools)
<1>1. v \in A
  BY DEF Collects
<1>2. Closed(A, T)
  <2>1. ASSUME NEW u \in A, NEW tool \in T
        PROVE  OnToolUse(u, tool) \in A
    BY CollectTool DEF Collects
  <2> QED
    BY <2>1 DEF Closed
<1>3. PICK f : IsToolRun(f, v, tools) /\ ToolsUsed(v, tools) = f[k]
  <2> HIDE DEF A
  <2>1. tools \in Seq(T)
    OBVIOUS
  <2> HIDE DEF T
  <2> QED
    BY <1>1, <1>2, <2>1, ToolRuns
<1>4. k \in Nat /\ \A i \in 1..k : tools[i] \in T
  BY LenProperties, ElementOfSeq
<1>5. f[0] = v /\ \A i \in 1..k : f[i] = OnToolUse(f[i - 1], tools[i])
  BY <1>3, <1>4, ToolRunAt
<1> DEFINE B == {i \in Nat : i \in 0..k => Collects(f[i], n)}
<1>6. 0 \in B
  BY <1>5
<1>7. ASSUME NEW i \in 1..k, i - 1 \in B
      PROVE  i \in B
  <2>1. i - 1 \in 0..k /\ i \in Nat
    BY <1>4
  <2>2. Collects(f[i - 1], n) /\ tools[i] \in T
    BY <1>4, <1>7, <2>1
  <2>3. Collects(f[i], n)
    BY <1>5, <2>2, CollectTool
  <2> QED
    BY <2>1, <2>3
<1>8. k \in B
  <2> HIDE DEF B
  <2> QED
    BY <1>4, <1>6, <1>7, StepByStep
<1> QED
  BY <1>3, <1>4, <1>8

(* The events of tools, one for each.                                      *)
ToolEvent(tool) == [kind |-> "tool", items |-> <<tool>>]
AllOf(tools) == [i \in DOMAIN tools |-> ToolEvent(tools[i])]

(* The event of a tool brings the tool.                                    *)
LEMMA ToolEventTyped ==
    ASSUME NEW n, NEW tool \in ToolItems(n)
    PROVE  ToolEvent(tool) \in SentEvents(n) /\ PartOf(ToolEvent(tool)) = <<tool>>
<1> DEFINE one == <<tool>>
<1>1. one \in Seq(LiveItems(n))
  BY ToolItemIsLive, OneSequence
<1>2. ToolEvent(tool) = [kind |-> "tool", items |-> one]
  BY DEF ToolEvent
<1> HIDE DEF one
<1>3. ToolEvent(tool) \in SentEvents(n) /\ PartOf(ToolEvent(tool)) = one
  BY <1>1, <1>2 DEF SentEvents, PartOf
<1> QED
  BY <1>3 DEF one

(* The events of one tool more.                                            *)
LEMMA AllOfAppend ==
    ASSUME NEW n, NEW p \in Seq(ToolItems(n)), NEW x \in ToolItems(n)
    PROVE  /\ AllOf(p) \in Seq(SentEvents(n))
           /\ AllOf(Append(p, x)) = Append(AllOf(p), ToolEvent(x))
<1> DEFINE k == Len(p)
           S == SentEvents(n)
           r == Append(p, x)
<1>1. /\ k \in Nat /\ DOMAIN p = 1..k /\ DOMAIN r = 1..k + 1
      /\ r[k + 1] = x /\ \A i \in 1..k : r[i] = p[i]
  BY LenProperties, AppendProperties
<1>2. \A i \in 1..k : p[i] \in ToolItems(n)
  BY ElementOfSeq
<1>3. AllOf(p) = [i \in 1..k |-> ToolEvent(p[i])]
  BY <1>1 DEF AllOf
<1>4. AllOf(r) = [i \in 1..k + 1 |-> ToolEvent(r[i])]
  BY <1>1 DEF AllOf
<1> HIDE DEF k, r, S
<1>5. AllOf(p) \in [1..k -> S]
  BY <1>2, <1>3, ToolEventTyped DEF S
<1>6. AllOf(p) \in Seq(S) /\ Len(AllOf(p)) = k
  <2>1. AllOf(p) \in Seq(S)
    BY <1>1, <1>5, SeqDef
  <2>2. DOMAIN AllOf(p) = 1..k
    BY <1>5
  <2> QED
    BY <1>1, <2>1, <2>2, LenProperties
<1>7. ToolEvent(x) \in S
  BY ToolEventTyped DEF S
<1>8. Append(AllOf(p), ToolEvent(x)) =
         [i \in 1..k + 1 |-> IF i = k + 1 THEN ToolEvent(x) ELSE AllOf(p)[i]]
  BY <1>6, <1>7, AppendIs
<1>9. AllOf(r) = [i \in 1..k + 1 |-> IF i = k + 1 THEN ToolEvent(x) ELSE AllOf(p)[i]]
  <2>1. ASSUME NEW i \in 1..k + 1
        PROVE  ToolEvent(r[i]) = IF i = k + 1 THEN ToolEvent(x) ELSE AllOf(p)[i]
    <3>1. CASE i = k + 1
      BY <1>1, <3>1
    <3>2. CASE i # k + 1
      <4>1. i \in 1..k
        BY <1>1, <3>2
      <4> QED
        BY <1>1, <1>3, <3>2, <4>1
    <3> QED
      BY <3>1, <3>2
  <2> QED
    BY <1>4, <2>1
<1> QED
  BY <1>6, <1>8, <1>9 DEF S, r

(* The events of several tools bring these, in their order.                *)
LEMMA ToolsSent ==
    ASSUME NEW n, NEW q \in Seq(SentEvents(n)), NEW tools \in Seq(ToolItems(n))
    PROVE  /\ q \o AllOf(tools) \in Seq(SentEvents(n))
           /\ TextAndTools(q \o AllOf(tools)) = TextAndTools(q) \o tools
<1> DEFINE k == Len(tools)
           T == ToolItems(n)
           L == LiveItems(n)
           E == SentEvents(n)
           At(i) == TextAndTools(q \o AllOf(UpTo(tools, i))) = TextAndTools(q) \o UpTo(tools, i)
           B == {i \in Nat : i \in 0..k => At(i)}
<1>1. k \in Nat /\ TextAndTools(q) \in Seq(L)
  BY LenProperties, SentTypes
<1>2. /\ UpTo(tools, 0) = <<>> /\ UpTo(tools, k) = tools
      /\ \A i \in 1..k : /\ UpTo(tools, i - 1) \in Seq(T) /\ tools[i] \in T
                         /\ UpTo(tools, i) = Append(UpTo(tools, i - 1), tools[i])
  BY UpToIs
<1>3. 0 \in B
  <2>1. AllOf(<<>>) = <<>>
    BY DEF AllOf
  <2>2. q \o <<>> = q /\ TextAndTools(q) \o <<>> = TextAndTools(q)
    BY <1>1, ConcatEmptySeq
  <2> QED
    BY <1>2, <2>1, <2>2
<1>4. ASSUME NEW i \in 1..k, i - 1 \in B
      PROVE  i \in B
  <2> DEFINE p == UpTo(tools, i - 1)
             x == tools[i]
             one == <<x>>
             e == ToolEvent(x)
             a == AllOf(p)
             t == TextAndTools(q)
  <2>1. i - 1 \in 0..k /\ i \in Nat
    BY <1>1
  <2>2. TextAndTools(q \o a) = t \o p
    BY <1>4, <2>1
  <2>3. p \in Seq(T) /\ x \in T /\ UpTo(tools, i) = Append(p, x)
    BY <1>2
  <2>4. p \in Seq(L) /\ x \in L /\ one \in Seq(L)
    BY <2>3, ToolsAreLive, ToolItemIsLive, OneSequence
  <2>5. e \in E /\ PartOf(e) = one
    BY <2>3, ToolEventTyped
  <2>6. a \in Seq(E) /\ AllOf(Append(p, x)) = Append(a, e)
    BY <2>3, AllOfAppend
  <2> HIDE DEF p, x, one, e, a, t, E, L, T
  <2>7. q \o Append(a, e) = Append(q \o a, e) /\ q \o a \in Seq(E)
    BY <2>5, <2>6, ConcatAppend DEF E
  <2>8. TextAndTools(Append(q \o a, e)) = TextAndTools(q \o a) \o one
    BY <2>5, <2>7, SentAppend DEF E
  <2>9. t \in Seq(L) /\ t \o Append(p, x) = Append(t \o p, x) /\ t \o p \in Seq(L)
    BY <1>1, <2>4, ConcatAppend DEF t, L
  <2>10. (t \o p) \o one = Append(t \o p, x)
    BY <2>4, <2>9, AppendIsConcat DEF one
  <2>11. TextAndTools(q \o AllOf(UpTo(tools, i))) = t \o UpTo(tools, i)
    BY <2>2, <2>3, <2>6, <2>7, <2>8, <2>9, <2>10
  <2> QED
    BY <2>1, <2>11 DEF t
<1>5. k \in B
  <2> HIDE DEF B
  <2> QED
    BY <1>1, <1>3, <1>4, StepByStep
<1>6. TextAndTools(q \o AllOf(tools)) = TextAndTools(q) \o tools
  BY <1>1, <1>2, <1>5
<1>7. AllOf(tools) \in Seq(E)
  <2>1. AllOf(tools) = [i \in 1..k |-> ToolEvent(tools[i])]
    BY LenProperties DEF AllOf
  <2>2. \A i \in 1..k : tools[i] \in T
    BY <1>2
  <2>3. AllOf(tools) \in [1..k -> E]
    BY <2>1, <2>2, ToolEventTyped
  <2> HIDE DEF E, k
  <2> QED
    BY <1>1, <2>3, SeqDef
<1> QED
  BY <1>6, <1>7, ConcatProperties

(***************************************************************************)
(* The invariant of a request.                                             *)
(***************************************************************************)
Calls ==
    [at : {"pick", "post", "read", "cut", "done", "broken", "refused"},
     attempt : Nat, endpoint : Nat, try : Nat, emitted : BOOLEAN, sawOutput : BOOLEAN,
     tool : LiveTools \cup {NoTool}]

RequestTyped ==
    /\ ask \in Asks /\ call \in Calls
    /\ spent \in [events : Nat, streams : Nat, charged : Seq(Nat)]
    /\ sent \in Seq(SentEvents(spent.streams))

(* A reader of all that the stream has brought.                            *)
ReadSoFar(q) == SplitAll(Reader(<<>>, FALSE), TextAndTools(q))

(* Between two streams the client has nothing, nor has the handler begun.  *)
NothingYet == wire = <<>> /\ view.begun = FALSE /\ view.out = <<>>

(* Within a stream, what the client has and what is held back make up what *)
(* the stream has brought; with no output yet the attempt is as it was.    *)
UnderwayIn(n) ==
    /\ n # 0 /\ view.out = <<>>
    /\ ask.client # "buffered" => Sound(view, n) /\ Reads(view) = ReadSoFar(sent)
    /\ ask.client = "buffered" => Collects(view, n) /\ wire = <<>>
    /\ ~call.emitted => wire = <<>> /\ view = FreshView(FALSE)

AnsweredFrom(n) ==
    /\ n # 0 /\ Fine(wire, n) /\ spent.charged = <<n>> /\ wire # <<>> /\ view.out = <<>>
    /\ ask.client # "buffered" => AnswersIn(wire) = AnswerOf(sent)
    /\ ask.client = "buffered" => ~view.begun

StartOf(q, s, n) == \E more \in Seq(ShownItems(n)) : s = q \o more

LeftInOrder(n) ==
    /\ InOrder(wire, n) /\ wire # <<>> /\ view.out = <<>>
    /\ ask.client # "buffered" => StartOf(AnswersIn(wire), AnswerOf(sent), n)
    /\ ask.client = "buffered" => ~view.begun

StreamInv ==
    /\ RequestTyped
    /\ call.at # "done" => spent.charged = <<>>
    /\ call.at \in {"pick", "post"} => NothingYet
    /\ call.at = "post" => view = FreshView(FALSE)
    /\ call.at \in {"read", "cut"} => UnderwayIn(spent.streams)
    /\ call.at = "done" => AnsweredFrom(spent.streams)
    /\ call.at \in {"broken", "refused"} => LeftInOrder(spent.streams)

(* A request that is not buffered is streamed, in a style its thinking     *)
(* allows.                                                                 *)
LEMMA AskIs ==
    ASSUME ask \in Asks
    PROVE  ask.client # "buffered" => Streaming
BY DEF Asks, Streaming, Tagged

(* The answer of a stream.                                                 *)
LEMMA ReadSoFarIs ==
    ASSUME NEW n, NEW q \in Seq(SentEvents(n))
    PROVE  /\ AnswerOf(q) = ReadSoFar(q).out /\ AnswerOf(q) \in Seq(ShownItems(n))
           /\ Reader(<<>>, FALSE) \in Ahead(n, <<>>)
           /\ <<>> \in Seq(ShownItems(n)) /\ ReadSoFar(q) \in Ahead(n, <<>>)
<1> DEFINE none == <<>>
           thought == FALSE
           s == Reader(none, thought)
           r == TextAndTools(q)
<1>1. none \in Seq(ShownItems(n)) /\ thought \in BOOLEAN
  BY EmptySeq
<1>2. AnswerOf(q) = SplitAll(s, r).out /\ ReadSoFar(q) = SplitAll(s, r)
  BY DEF AnswerOf, ReadSoFar, Reader
<1>3. r \in Seq(ShownItems(n))
  BY SentTypes
<1> HIDE DEF none, thought
<1>4. s \in Ahead(n, none)
  BY <1>1, ReaderIs
<1> HIDE DEF s, r
<1>5. SplitAll(s, r) \in Ahead(n, none)
  BY <1>1, <1>3, <1>4, SplitStays
<1> DEFINE t == SplitAll(s, r)
<1> HIDE DEF t
<1>6. t \in Ahead(n, none) => t.out \in Seq(ShownItems(n))
  BY DEF Ahead, Splits
<1> QED
  BY <1>1, <1>2, <1>4, <1>5, <1>6 DEF none, thought, s, r, t

(* More of it.                                                             *)
LEMMA ReadMore ==
    ASSUME NEW n, NEW q \in Seq(SentEvents(n)), NEW p \in Seq(SentEvents(n)),
           NEW items \in Seq(ShownItems(n)), TextAndTools(p) = TextAndTools(q) \o items
    PROVE  ReadSoFar(p) = SplitAll(ReadSoFar(q), items)
<1> DEFINE s == Reader(<<>>, FALSE)
           said == <<>>
           r == TextAndTools(q)
<1>1. said \in Seq(ShownItems(n)) /\ s \in Ahead(n, said) /\ r \in Seq(ShownItems(n))
  BY ReadSoFarIs, SentTypes
<1>2. ReadSoFar(p) = SplitAll(s, r \o items) /\ ReadSoFar(q) = SplitAll(s, r)
  BY DEF ReadSoFar
<1> HIDE DEF s, said, r
<1>3. SplitAll(s, r \o items) = SplitAll(SplitAll(s, r), items)
  BY <1>1, SplitParts
<1> QED
  BY <1>2, <1>3

(* The state of an attempt that has done nothing.                          *)
LEMMA FreshIs ==
    ASSUME NEW n, NEW v, v = FreshView(FALSE), wire = <<>>, ask \in Asks
    PROVE  /\ v \in Views(n) /\ v.out = <<>> /\ v.begun = FALSE /\ Collects(v, n) /\ Sound(v, n)
           /\ Reads(v) = Reader(<<>>, FALSE)
<1> DEFINE b == -1
           none == <<>>
           no == FALSE
           blank == ""
<1>1. b \in Int /\ b < 0 /\ no \in BOOLEAN /\ 0 \in Nat
      /\ blank \in {"", "text", "thinking"}
  OBVIOUS
<1>2. none \in Seq(TextItems(n)) /\ none \in Seq(LiveItems(n)) /\ none \in Seq(ShownEvents(n))
  BY EmptySeq
<1> DEFINE r == [begun |-> no, next |-> 0, block |-> b, type |-> blank, buffer |-> none,
                 inThinking |-> no, drop |-> no, source |-> "unknown",
                 started |-> no, open |-> no, content |-> none, tools |-> none, out |-> none]
<1>3. v = r
  BY DEF FreshView
<1> HIDE DEF b, none, no, blank
<1>14. r \in Views(n)
  BY <1>1, <1>2 DEF Views
<1>15. /\ r.begun = no /\ r.next = 0 /\ r.block = b /\ r.type = blank /\ r.buffer = none
       /\ r.inThinking = no /\ r.started = no /\ r.open = no /\ r.out = none
  OBVIOUS
<1> HIDE DEF r
<1>4. v \in Views(n)
  BY <1>3, <1>14
<1>13. /\ v.begun = no /\ v.next = 0 /\ v.block = b /\ v.type = blank /\ v.buffer = none
       /\ v.inThinking = no /\ v.started = no /\ v.open = no /\ v.out = none
  BY <1>3, <1>15
<1>5. /\ v.begun = FALSE /\ v.next = 0 /\ v.block = b /\ v.type = "" /\ v.buffer = none
      /\ v.inThinking = FALSE /\ v.started = FALSE /\ v.open = FALSE /\ v.out = none
  BY <1>13 DEF no, blank
<1>6. Got(v) = <<>>
  <2>1. none \o none = none
    BY <1>2, ConcatEmptySeq DEF none
  <2> QED
    BY <1>5, <2>1 DEF Got, none
<1>7. /\ Got(v) \in Seq(ShownEvents(n)) /\ BlocksAre(Got(v), 0, -1)
      /\ AnswersIn(Got(v)) = <<>> /\ MarksAre(ItemsOf(Got(v)), 0)
  <2> DEFINE q == Got(v)
  <2>1. q = <<>>
    BY <1>6
  <2> HIDE DEF q
  <2>2. /\ q \in Seq(ShownEvents(n)) /\ BlocksAre(q, 0, -1)
        /\ AnswersIn(q) = <<>> /\ MarksAre(ItemsOf(q), 0)
    BY <2>1, NothingIs
  <2> QED
    BY <2>2 DEF q
<1>8. wire \in Seq(ShownEvents(n))
  BY EmptySeq
<1>9. BlocksAre(Got(v), v.next, v.block)
  BY <1>5, <1>7 DEF b
<1>10. Good(v, n, 0)
  BY <1>1, <1>4, <1>5, <1>6, <1>7, <1>8, <1>9 DEF Good
<1>11. Sound(v, n)
  BY <1>5, <1>10 DEF Sound, Odd, FlagsOK
<1>12. Reads(v) = Reader(<<>>, FALSE)
  <2>1. v.buffer = <<>>
    BY <1>5 DEF none
  <2>2. Reads(v) = Reader(Spoken(v), v.inThinking)
    BY <1>11, <2>1, ReadsNone
  <2> QED
    BY <1>5, <1>7, <2>2 DEF Spoken
<1> QED
  BY <1>4, <1>5, <1>11, <1>12 DEF Collects, none

(* Sending what was written changes nothing of what the client will have.  *)
LEMMA Flushed ==
    ASSUME NEW n, NEW v, Sound(v, n), Flush(v), ask' = ask
    PROVE  /\ Sound(view, n)' /\ Reads(view)' = Reads(v) /\ view'.out = <<>>
           /\ wire' = Got(v) /\ view' \in Views(n)
<1> DEFINE none == <<>>
           u == [v EXCEPT !.out = none]
           q == Got(v)
<1>1. v \in Views(n) /\ none \in Seq(ShownEvents(n)) /\ wire \in Seq(ShownEvents(n))
  BY EmptySeq DEF Sound, Good
<1>2. view' = u /\ wire' = q
  BY DEF Flush, Got
<1>3. q \in Seq(ShownEvents(n))
  <2>1. v.out \in Seq(ShownEvents(n))
    BY <1>1 DEF Views
  <2> QED
    BY <1>1, <2>1, ConcatProperties DEF Got
<1> HIDE DEF none
<1>4. /\ u \in Views(n) /\ SameReader(u, v) /\ u.begun = v.begun /\ u.next = v.next
      /\ u.block = v.block /\ u.type = v.type /\ u.out = none
  BY <1>1 DEF Views, SameReader
<1> HIDE DEF u
<1>5. Got(view)' = q
  <2>1. q \o none = q
    BY <1>3, ConcatEmptySeq DEF none
  <2> HIDE DEF q
  <2> QED
    BY <1>2, <1>4, <2>1 DEF Got
<1>6. /\ BlocksAre(q, v.next, v.block) /\ (v.begun <=> q # <<>>) /\ (v.type = "" <=> v.block < 0)
      /\ (ask.client = "claude" /\ v.begun => q[1].ev = "message_start")
      /\ MarksAre(ItemsOf(q), IF ask.style = "tags" THEN Odd(v) ELSE 0) /\ FlagsOK(v)
  BY DEF Sound, Good
<1> HIDE DEF q
<1>7. Odd(view)' = Odd(v) /\ FlagsOK(view)'
  BY <1>2, <1>4, <1>6 DEF Odd, FlagsOK, SameReader
<1>8. Good(view, n, Odd(view))'
  BY <1>2, <1>3, <1>4, <1>5, <1>6, <1>7 DEF Good
<1>9. Reads(view)' = Reads(v)
  <2>1. Spoken(view)' = Spoken(v)
    BY <1>5 DEF Spoken, q
  <2> QED
    BY <1>2, <1>4, <2>1 DEF Reads, SameReader
<1> QED
  BY <1>2, <1>4, <1>7, <1>8, <1>9 DEF Sound, q, none

(***************************************************************************)
(* Between streams, and giving up.                                         *)
(***************************************************************************)
LEMMA StreamsStart == StreamsInit => StreamInv
<1> SUFFICES ASSUME StreamsInit
             PROVE  StreamInv
  OBVIOUS
<1>1. ask \in Asks /\ wire = <<>> /\ view = FreshView(FALSE) /\ sent = <<>>
      /\ call.at = "pick"
  BY DEF StreamsInit
<1> DEFINE none == <<>>
<1>2. none \in Seq(Nat)
  BY EmptySeq
<1>3. PICK used \in 0..MaxEvents : spent = [events |-> used, streams |-> 0, charged |-> none]
  BY DEF StreamsInit
<1> HIDE DEF none
<1>4. spent \in [events : Nat, streams : Nat, charged : Seq(Nat)] /\ spent.charged = none
  BY <1>2, <1>3
<1>5. sent \in Seq(SentEvents(spent.streams))
  BY <1>1, NothingSent
<1>6. call \in Calls
  <2> DEFINE no == FALSE
             tool == NoTool
  <2>1. no \in BOOLEAN /\ tool \in LiveTools \cup {NoTool}
    OBVIOUS
  <2>2. call = [at |-> "pick", attempt |-> 0, endpoint |-> 1, try |-> 1,
                emitted |-> no, sawOutput |-> no, tool |-> tool]
    BY DEF StreamsInit
  <2> HIDE DEF no, tool
  <2> QED
    BY <2>1, <2>2 DEF Calls
<1>7. view.begun = FALSE /\ view.out = <<>>
  BY <1>1, FreshIs
<1> QED
  BY <1>1, <1>4, <1>5, <1>6, <1>7 DEF StreamInv, RequestTyped, NothingYet, none

(* What a request that is under way has sent, and not, so far.             *)
SoFar(n) ==
    /\ n \in Nat \ {0} /\ view.begun \in BOOLEAN
    /\ view.begun => wire # <<>> /\ ask.client # "buffered"
    /\ ~view.begun => wire = <<>>
    /\ InOrder(wire, n)
    /\ ask.client # "buffered" => /\ Sound(view, n) /\ AnswersIn(wire) = Spoken(view)
                                  /\ StartOf(AnswersIn(wire), AnswerOf(sent), n)

(* Within a stream the client has an answer in order, a beginning of what  *)
(* the stream brought.                                                     *)
LEMMA UnderwayIs ==
    ASSUME RequestTyped, UnderwayIn(spent.streams)
    PROVE  SoFar(spent.streams)
<1> DEFINE n == spent.streams
<1>1. n \in Nat \ {0} /\ sent \in Seq(SentEvents(n)) /\ view.out = <<>>
  BY DEF RequestTyped, UnderwayIn
<1>2. CASE ask.client = "buffered"
  <2>1. Collects(view, n) /\ wire = <<>>
    BY <1>2 DEF UnderwayIn
  <2>2. view.begun \in BOOLEAN /\ ~view.begun
    BY <2>1 DEF Collects, Views
  <2>3. InOrder(wire, n)
    BY <2>1, NothingIs
  <2> QED
    BY <1>1, <1>2, <2>1, <2>2, <2>3 DEF SoFar
<1>3. CASE ask.client # "buffered"
  <2> HIDE DEF n
  <2>1. Sound(view, n) /\ Reads(view) = ReadSoFar(sent)
    BY <1>3 DEF UnderwayIn, n
  <2>2. view \in Views(n) /\ wire \in Seq(ShownEvents(n)) /\ Good(view, n, Odd(view))
    BY <2>1 DEF Sound, Good
  <2>3. Got(view) = wire
    <3>1. wire \o <<>> = wire
      BY <2>2, ConcatEmptySeq
    <3> QED
      BY <1>1, <3>1 DEF Got
  <2>4. view.begun \in BOOLEAN /\ (view.begun <=> wire # <<>>)
    <3>1. view.begun \in BOOLEAN
      BY <2>2 DEF Views
    <3>2. view.begun <=> wire # <<>>
      BY <2>2, <2>3 DEF Good
    <3> QED
      BY <3>1, <3>2
  <2>5. InOrder(wire, n)
    <3>1. BlocksAre(wire, view.next, view.block)
      BY <2>2, <2>3 DEF Good
    <3>2. \E k \in {0, 1} : MarksAre(ItemsOf(wire), k)
      <4> DEFINE k == IF ask.style = "tags" THEN Odd(view) ELSE 0
      <4>1. MarksAre(ItemsOf(wire), k)
        BY <2>2, <2>3 DEF Good
      <4>2. k \in {0, 1}
        BY DEF Odd
      <4> HIDE DEF k
      <4> QED
        BY <4>1, <4>2
    <3> QED
      BY <2>2, <3>1, <3>2 DEF InOrder, BlocksAre
  <2>6. AnswersIn(wire) = Spoken(view)
    BY <2>3 DEF Spoken
  <2>7. StartOf(AnswersIn(wire), AnswerOf(sent), n)
    <3>1. Reads(view) \in Ahead(n, Spoken(view))
      BY <2>1, ReadsIs
    <3>2. PICK more \in Seq(ShownItems(n)) : Reads(view).out = Spoken(view) \o more
      BY <3>1 DEF Ahead
    <3>3. AnswerOf(sent) = Reads(view).out
      BY <1>1, <2>1, ReadSoFarIs
    <3> QED
      BY <2>6, <3>2, <3>3 DEF StartOf
  <2>8. n \in Nat \ {0}
    BY <1>1 DEF n
  <2>9. SoFar(n)
    BY <1>3, <2>1, <2>4, <2>5, <2>6, <2>7, <2>8 DEF SoFar
  <2> QED
    BY <2>9 DEF n
<1> QED
  BY <1>2, <1>3

(* With an event appended there is one.                                    *)
LEMMA AppendNotEmpty ==
    ASSUME NEW S, NEW q \in Seq(S), NEW e \in S
    PROVE  Append(q, e) # <<>>
<1>1. Len(Append(q, e)) = Len(q) + 1 /\ Len(q) \in Nat
  BY AppendProperties, LenProperties
<1>2. Len(<<>>) = 0
  BY EmptySeq
<1> QED
  BY <1>1, <1>2

(* A client that was left with nothing, or an error, after what it got.    *)
LEMMA ErrorSent ==
    ASSUME NEW n, NEW ev \in {"error", "http_error"}, InOrder(wire, n),
           wire' = Append(wire, Event(ev, -1, "", <<>>))
    PROVE  InOrder(wire, n)' /\ wire' # <<>> /\ AnswersIn(wire)' = AnswersIn(wire)
<1> DEFINE e == Event(ev, -1, "", <<>>)
           q == wire
<1>1. e \in ShownEvents(n) /\ e.ev = ev /\ e.items = <<>>
  BY BareEvent
<1>2. e.ev \notin {"message_start", "block_start", "block_delta", "block_stop", "message_stop"}
  BY <1>1
<1> HIDE DEF e, q
<1>3. q \in Seq(ShownEvents(n)) /\ InOrder(q, n)
  BY DEF InOrder, q
<1>4. InOrder(Append(q, e), n) /\ AnswersIn(Append(q, e)) = AnswersIn(q)
  BY <1>1, <1>2, <1>3, OrderAppended
<1>5. Append(q, e) # <<>>
  BY <1>1, <1>3, AppendNotEmpty
<1> QED
  BY <1>4, <1>5 DEF e, q

(* After a failure the next account begins with nothing, or the client is  *)
(* left with an error.                                                     *)
LEMMA CallFailsIs ==
    ASSUME StreamInv, call.at \in {"post", "read", "cut"}, CallFails,
           UNCHANGED <<ask, sent, view, spent>>
    PROVE  StreamInv'
<1> DEFINE n == spent.streams
<1>1. RequestTyped /\ spent.charged = <<>>
  BY DEF StreamInv
<1>2. ask' = ask /\ sent' = sent /\ view' = view /\ spent' = spent
  OBVIOUS
<1>3. /\ n \in Nat /\ view.begun \in BOOLEAN /\ view.out = <<>>
      /\ ~view.begun => wire = <<>>
      /\ view.begun => /\ InOrder(wire, n) /\ ask.client # "buffered"
                       /\ StartOf(AnswersIn(wire), AnswerOf(sent), n)
  <2>1. CASE call.at = "post"
    BY <1>1, <2>1 DEF StreamInv, NothingYet, RequestTyped
  <2>2. CASE call.at # "post"
    <3>1. UnderwayIn(n)
      BY <2>2 DEF StreamInv
    <3> QED
      BY <1>1, <3>1, UnderwayIs DEF UnderwayIn, SoFar
  <2> QED
    BY <2>1, <2>2
<1>4. CASE view.begun
  <2>1. call' = [call EXCEPT !.at = "broken"] /\ wire' = Append(wire, Event("error", -1, "", <<>>))
    BY <1>4 DEF CallFails
  <2>2. call' \in Calls /\ call'.at = "broken"
    BY <1>1, <2>1 DEF RequestTyped, Calls
  <2>3. InOrder(wire, n)' /\ wire' # <<>> /\ AnswersIn(wire)' = AnswersIn(wire)
    <3> DEFINE m == n
    <3>1. InOrder(wire, m)
      BY <1>3, <1>4
    <3> HIDE DEF m
    <3>2. InOrder(wire', m) /\ wire' # <<>> /\ AnswersIn(wire') = AnswersIn(wire)
      BY <2>1, <3>1, ErrorSent
    <3> QED
      BY <1>2, <3>2 DEF m
  <2>4. LeftInOrder(spent.streams)'
    BY <1>2, <1>3, <1>4, <2>3 DEF LeftInOrder
  <2>5. RequestTyped'
    BY <1>1, <1>2, <2>2 DEF RequestTyped
  <2> QED
    BY <1>1, <1>2, <2>2, <2>4, <2>5 DEF StreamInv
<1>5. CASE ~view.begun
  <2>1. call' = [call EXCEPT !.at = "pick"] /\ wire' = wire
    BY <1>5 DEF CallFails
  <2>2. call' \in Calls /\ call'.at = "pick"
    BY <1>1, <2>1 DEF RequestTyped, Calls
  <2>3. NothingYet'
    BY <1>2, <1>3, <1>5, <2>1 DEF NothingYet
  <2>4. RequestTyped'
    BY <1>1, <1>2, <2>2 DEF RequestTyped
  <2> QED
    BY <1>1, <1>2, <2>2, <2>3, <2>4 DEF StreamInv
<1> QED
  BY <1>4, <1>5

(* The request posted anew, with the attempt as it was.                    *)
LEMMA PostedAgain ==
    ASSUME StreamInv, call.at \in {"post", "cut"}, wire = <<>>, view = FreshView(FALSE),
           UNCHANGED <<ask, sent, view, spent, wire>>, call' \in Calls, call'.at = "post"
    PROVE  StreamInv'
<1>1. RequestTyped /\ spent.charged = <<>>
  BY DEF StreamInv
<1>2. ask' = ask /\ sent' = sent /\ view' = view /\ spent' = spent /\ wire' = wire
  OBVIOUS
<1>3. view.begun = FALSE /\ view.out = <<>>
  BY <1>1, FreshIs DEF RequestTyped
<1>4. NothingYet' /\ view' = FreshView(FALSE)
  BY <1>2, <1>3 DEF NothingYet
<1>5. RequestTyped'
  BY <1>1, <1>2 DEF RequestTyped
<1> QED
  BY <1>1, <1>2, <1>4, <1>5 DEF StreamInv

(* Another endpoint begins with nothing.                                   *)
LEMMA NextEndpointIs ==
    ASSUME StreamInv, call.at \in {"post", "cut"}, wire = <<>>, view = FreshView(FALSE),
           NextEndpoint, UNCHANGED <<ask, sent, view, spent>>
    PROVE  StreamInv'
<1>1. CASE call.endpoint < ask.endpoints
  <2>1. call' = [call EXCEPT !.at = "post", !.endpoint = @ + 1, !.try = 1] /\ wire' = wire
    BY <1>1 DEF NextEndpoint
  <2>2. call \in Calls
    BY DEF StreamInv, RequestTyped
  <2>3. call' \in Calls /\ call'.at = "post"
    <3> DEFINE m == call.endpoint + 1
               one == 1
    <3>1. m \in Nat /\ one \in Nat
      BY <2>2 DEF Calls
    <3>2. call' = [call EXCEPT !.at = "post", !.endpoint = m, !.try = one]
      BY <2>1
    <3> HIDE DEF m, one
    <3> QED
      BY <2>2, <3>1, <3>2 DEF Calls
  <2> QED
    BY <2>1, <2>3, PostedAgain
<1>2. CASE ~(call.endpoint < ask.endpoints)
  <2>1. CallFails
    BY <1>2 DEF NextEndpoint
  <2> QED
    BY <2>1, CallFailsIs
<1> QED
  BY <1>1, <1>2

(***************************************************************************)
(* The steps of a request.                                                 *)
(***************************************************************************)
LEMMA AfterNoAccountLeft == StreamInv /\ NoAccountLeft => StreamInv'
<1> SUFFICES ASSUME StreamInv, NoAccountLeft
             PROVE  StreamInv'
  OBVIOUS
<1> DEFINE n == spent.streams
<1>1. RequestTyped /\ spent.charged = <<>> /\ wire = <<>> /\ view.begun = FALSE
      /\ view.out = <<>> /\ sent \in Seq(SentEvents(n))
  BY DEF StreamInv, NoAccountLeft, NothingYet, RequestTyped
<1>2. /\ call' = [call EXCEPT !.at = "refused"]
      /\ ask' = ask /\ sent' = sent /\ view' = view /\ spent' = spent
  BY DEF NoAccountLeft
<1>3. call' \in Calls /\ call'.at = "refused"
  BY <1>1, <1>2 DEF RequestTyped, Calls
<1>4. wire' = Append(wire, Event("http_error", -1, "", <<>>))
  BY DEF NoAccountLeft
<1> DEFINE m == n
<1>5. InOrder(wire, m) /\ AnswersIn(wire) = <<>>
  BY <1>1, NothingIs
<1>6. AnswerOf(sent) \in Seq(ShownItems(m))
  BY <1>1, ReadSoFarIs
<1> HIDE DEF m
<1>7. InOrder(wire', m) /\ wire' # <<>> /\ AnswersIn(wire') = <<>>
  BY <1>4, <1>5, ErrorSent
<1>8. StartOf(AnswersIn(wire'), AnswerOf(sent), m)
  <2>1. AnswerOf(sent) = <<>> \o AnswerOf(sent)
    BY <1>6, ConcatEmptySeq
  <2> QED
    BY <1>6, <1>7, <2>1 DEF StartOf
<1>9. LeftInOrder(spent.streams)'
  BY <1>1, <1>2, <1>7, <1>8 DEF LeftInOrder, m
<1>10. RequestTyped'
  BY <1>1, <1>2, <1>3 DEF RequestTyped
<1> QED
  BY <1>1, <1>2, <1>3, <1>9, <1>10 DEF StreamInv

(* AccountPicked preserves it: the attempt is fresh.                       *)
LEMMA AfterAccountPicked == StreamInv /\ AccountPicked => StreamInv'
<1> SUFFICES ASSUME StreamInv, AccountPicked
             PROVE  StreamInv'
  OBVIOUS
<1>1. RequestTyped /\ spent.charged = <<>> /\ wire = <<>> /\ view.begun = FALSE
      /\ ask \in Asks /\ call \in Calls
  BY DEF StreamInv, AccountPicked, NothingYet, RequestTyped
<1>2. /\ call' = [call EXCEPT !.at = "post", !.attempt = @ + 1, !.endpoint = 1, !.try = 1]
      /\ ask' = ask /\ sent' = sent /\ spent' = spent /\ wire' = wire
      /\ view' = FreshView(FALSE)
  BY <1>1 DEF AccountPicked
<1>3. call' \in Calls /\ call'.at = "post"
  <2> DEFINE m == call.attempt + 1
             one == 1
  <2>1. m \in Nat /\ one \in Nat
    BY <1>1 DEF Calls
  <2>2. call' = [call EXCEPT !.at = "post", !.attempt = m, !.endpoint = one, !.try = one]
    BY <1>2
  <2> HIDE DEF m, one
  <2> QED
    BY <1>1, <2>1, <2>2 DEF Calls
<1>4. view'.begun = FALSE /\ view'.out = <<>>
  <2> DEFINE v == view'
  <2>1. v = FreshView(FALSE)
    BY <1>2
  <2> HIDE DEF v
  <2>2. v.begun = FALSE /\ v.out = <<>>
    BY <1>1, <2>1, FreshIs
  <2> QED
    BY <2>2 DEF v
<1>5. NothingYet'
  BY <1>1, <1>2, <1>4 DEF NothingYet
<1>6. RequestTyped'
  BY <1>1, <1>2, <1>3 DEF RequestTyped
<1> QED
  BY <1>1, <1>2, <1>3, <1>5, <1>6 DEF StreamInv

(* TokenFails preserves it.                                                *)
LEMMA AfterTokenFails == StreamInv /\ TokenFails => StreamInv'
<1> SUFFICES ASSUME StreamInv, TokenFails
             PROVE  StreamInv'
  OBVIOUS
<1>1. RequestTyped /\ spent.charged = <<>> /\ NothingYet /\ call \in Calls /\ call.at = "pick"
  BY DEF StreamInv, TokenFails, RequestTyped
<1>2. /\ call' = [call EXCEPT !.attempt = @ + 1]
      /\ ask' = ask /\ sent' = sent /\ spent' = spent /\ wire' = wire /\ view' = view
  BY DEF TokenFails
<1>3. call' \in Calls /\ call'.at = "pick"
  <2> DEFINE m == call.attempt + 1
  <2>1. m \in Nat /\ call' = [call EXCEPT !.attempt = m]
    BY <1>1, <1>2 DEF Calls
  <2> HIDE DEF m
  <2> QED
    BY <1>1, <2>1 DEF Calls
<1>4. NothingYet' /\ RequestTyped'
  BY <1>1, <1>2, <1>3 DEF NothingYet, RequestTyped
<1> QED
  BY <1>1, <1>2, <1>3, <1>4 DEF StreamInv

(* So do the failures before a stream is open.                             *)
LEMMA AfterPostFails == StreamInv /\ (EndpointFails \/ CallRefused) => StreamInv'
<1> SUFFICES ASSUME StreamInv, EndpointFails \/ CallRefused
             PROVE  StreamInv'
  OBVIOUS
<1>1. call.at = "post" /\ UNCHANGED <<ask, sent, view, spent>>
  BY DEF EndpointFails, CallRefused
<1>2. wire = <<>> /\ view = FreshView(FALSE)
  BY <1>1 DEF StreamInv, NothingYet
<1>3. CASE EndpointFails
  <2>1. NextEndpoint
    BY <1>3 DEF EndpointFails
  <2> QED
    BY <1>1, <1>2, <2>1, NextEndpointIs
<1>4. CASE CallRefused
  <2>1. CallFails
    BY <1>4 DEF CallRefused
  <2> QED
    BY <1>1, <2>1, CallFailsIs
<1> QED
  BY <1>3, <1>4

(* Nothing written is nothing sent.                                        *)
LEMMA FlushNothing ==
    ASSUME NEW n, Sound(view, n), view.out = <<>>, view' = view, wire' = wire
    PROVE  Flush(view)
<1> DEFINE none == <<>>
<1>1. view \in Views(n) /\ wire \in Seq(ShownEvents(n)) /\ view.out = none
  BY DEF Sound, Good
<1>2. wire \o view.out = wire
  BY <1>1, ConcatEmptySeq
<1> HIDE DEF none
<1>3. view = [view EXCEPT !.out = none]
  BY <1>1 DEF Views
<1> QED
  BY <1>2, <1>3 DEF Flush, none

(* Of a stream that has brought nothing, nothing is read.                  *)
LEMMA NothingRead ==
    ASSUME NEW q, q = <<>>
    PROVE  ReadSoFar(q) = Reader(<<>>, FALSE)
<1> DEFINE s == Reader(<<>>, FALSE)
           said == <<>>
           n == 0
<1>1. s \in Ahead(n, said) /\ said \in Seq(ShownItems(n)) /\ TextAndTools(q) = <<>>
  BY NothingSent, ReadSoFarIs
<1>2. ReadSoFar(q) = SplitAll(s, <<>>)
  BY <1>1 DEF ReadSoFar
<1> HIDE DEF s, said, n
<1>3. SplitAll(s, <<>>) = s
  BY <1>1, SplitNone
<1> QED
  BY <1>2, <1>3 DEF s

(* StreamOpens preserves it: nothing is left of the stream before.         *)
LEMMA AfterStreamOpens == StreamInv /\ StreamOpens => StreamInv'
<1> SUFFICES ASSUME StreamInv, StreamOpens
             PROVE  StreamInv'
  OBVIOUS
<1>12. PICK m : m = spent.streams + 1
  OBVIOUS
<1> DEFINE none == <<>>
           no == FALSE
           tool == NoTool
<1>1. /\ RequestTyped /\ spent.charged = <<>> /\ wire = <<>> /\ view = FreshView(FALSE)
      /\ ask \in Asks /\ call \in Calls
      /\ spent \in [events : Nat, streams : Nat, charged : Seq(Nat)]
  BY DEF StreamInv, StreamOpens, NothingYet, RequestTyped
<1>2. /\ call' = [call EXCEPT !.at = "read", !.emitted = no, !.sawOutput = no, !.tool = tool]
      /\ sent' = none /\ spent' = [spent EXCEPT !.streams = @ + 1]
      /\ ask' = ask /\ view' = view /\ wire' = wire
  BY DEF StreamOpens
<1>3. m \in Nat \ {0} /\ no \in BOOLEAN /\ tool \in LiveTools \cup {NoTool}
      /\ spent' = [spent EXCEPT !.streams = m]
  BY <1>1, <1>2, <1>12
<1>4. /\ spent' \in [events : Nat, streams : Nat, charged : Seq(Nat)]
      /\ spent'.streams = m /\ spent'.charged = spent.charged
  BY <1>1, <1>3
<1>5. call' \in Calls /\ call'.at = "read" /\ call'.emitted = no
  <2> HIDE DEF no, tool
  <2> QED
    BY <1>1, <1>2, <1>3 DEF Calls
<1>6. sent' \in Seq(SentEvents(m)) /\ TextAndTools(sent') = none
  BY <1>2, NothingSent
<1>7. /\ view.out = none /\ Collects(view, m) /\ Sound(view, m)
      /\ Reads(view) = Reader(<<>>, FALSE)
  BY <1>1, FreshIs
<1>8. ReadSoFar(sent') = Reader(<<>>, FALSE)
  BY <1>2, NothingRead
<1>11. ask' = ask /\ view' = view /\ wire' = wire /\ view.out = <<>> /\ Sound(view, m)
       /\ Collects(view, m) /\ Reads(view) = ReadSoFar(sent')
  BY <1>2, <1>7, <1>8
<1> HIDE DEF none, no, tool
<1>9. UnderwayIn(spent.streams)'
  <2>1. /\ Sound(view, m)' /\ Collects(view, m)' /\ Reads(view)' = Reads(view)
    <3>1. Flush(view)
      BY <1>11, FlushNothing
    <3>2. Sound(view, m)' /\ Reads(view)' = Reads(view)
      BY <1>11, <3>1, Flushed
    <3>3. Collects(view, m)'
      BY <1>11 DEF Collects
    <3> QED
      BY <3>2, <3>3
  <2>2. m # 0 /\ spent'.streams = m /\ wire' = <<>> /\ view' = FreshView(FALSE)
    BY <1>1, <1>3, <1>4, <1>11
  <2> QED
    BY <1>11, <2>1, <2>2 DEF UnderwayIn
<1>10. RequestTyped'
  BY <1>1, <1>2, <1>4, <1>5, <1>6 DEF RequestTyped
<1> QED
  BY <1>1, <1>4, <1>5, <1>9, <1>10 DEF StreamInv

(* The stream goes on with a new state of the attempt, or is cut short.    *)
LEMMA GoesOn ==
    ASSUME StreamInv, NEW n \in Nat \ {0}, NEW v, Flush(v), ask' = ask,
           spent' \in [events : Nat, streams : Nat, charged : Seq(Nat)],
           spent'.streams = n, spent'.charged = <<>>, sent' \in Seq(SentEvents(n)),
           call' \in Calls, call'.at \in {"read", "cut"},
           ask.client # "buffered" => Sound(v, n) /\ Reads(v) = ReadSoFar(sent'),
           ask.client = "buffered" => Collects(v, n) /\ wire = <<>>,
           call'.emitted \/ (v = FreshView(FALSE) /\ wire = <<>>)
    PROVE  StreamInv'
<1>1. ask \in Asks
  BY DEF StreamInv, RequestTyped
<1>2. v \in Views(n)
  BY DEF Collects, Sound, Good
<1>3. /\ view'.out = <<>>
      /\ v.out = <<>> => view' = v
      /\ v.out = <<>> /\ wire = <<>> => wire' = <<>>
  <2> DEFINE none == <<>>
             u == [v EXCEPT !.out = none]
  <2>1. view' = u /\ wire' = wire \o v.out /\ none \in Seq(ShownEvents(n))
    BY EmptySeq DEF Flush
  <2>5. none \in Seq(ShownEvents(n))
    BY <2>1
  <2>2. none \o none = none
    BY <2>5, ConcatEmptySeq
  <2> HIDE DEF none
  <2>6. u.out = none
    BY <1>2, <2>5 DEF Views
  <2>7. ASSUME v.out = none
        PROVE  v = u
    BY <1>2, <2>7 DEF Views
  <2>3. u.out = none /\ (v.out = none => u = v)
    BY <2>6, <2>7
  <2> HIDE DEF u
  <2>4. /\ view'.out = none
        /\ v.out = none => view' = v
        /\ v.out = none /\ wire = none => wire' = none
    BY <2>1, <2>2, <2>3
  <2> QED
    BY <2>4 DEF none
<1>4. CASE ask.client # "buffered"
  <2>1. Sound(v, n) /\ Reads(v) = ReadSoFar(sent')
    BY <1>4
  <2>2. Sound(view, n)' /\ Reads(view)' = Reads(v)
    BY <2>1, Flushed
  <2>3. call'.emitted \/ (view' = FreshView(FALSE) /\ wire' = <<>>)
    <3>1. CASE call'.emitted
      BY <3>1
    <3>2. CASE ~call'.emitted
      <4>1. v = FreshView(FALSE) /\ wire = <<>>
        BY <3>2
      <4>2. v.out = <<>>
        BY <1>1, <4>1, FreshIs
      <4> QED
        BY <1>3, <4>1, <4>2
    <3> QED
      BY <3>1, <3>2
  <2>4. UnderwayIn(spent.streams)'
    BY <1>3, <1>4, <2>1, <2>2, <2>3 DEF UnderwayIn
  <2>5. RequestTyped'
    BY <1>1 DEF RequestTyped
  <2> QED
    BY <2>4, <2>5 DEF StreamInv
<1>5. CASE ask.client = "buffered"
  <2>1. Collects(v, n) /\ wire = <<>> /\ v.out = <<>>
    BY <1>5 DEF Collects
  <2>2. view' = v /\ wire' = <<>>
    BY <1>3, <2>1
  <2>3. Collects(view, n)'
    BY <2>1, <2>2 DEF Collects
  <2>4. UnderwayIn(spent.streams)'
    BY <1>3, <1>5, <2>2, <2>3 DEF UnderwayIn
  <2>5. RequestTyped'
    BY <1>1 DEF RequestTyped
  <2> QED
    BY <2>4, <2>5 DEF StreamInv
<1> QED
  BY <1>4, <1>5

(* What holds while a stream is read.                                      *)
ReadingIn(n) ==
    /\ n \in Nat \ {0} /\ n = spent.streams /\ ask \in Asks /\ call \in Calls
    /\ spent \in [events : Nat, streams : Nat, charged : Seq(Nat)]
    /\ spent.charged = <<>> /\ sent \in Seq(SentEvents(n)) /\ view.out = <<>>
    /\ ask.client # "buffered" => Streaming /\ Sound(view, n) /\ Reads(view) = ReadSoFar(sent)
    /\ ask.client = "buffered" => Collects(view, n) /\ wire = <<>>
    /\ call.emitted \/ (view = FreshView(FALSE) /\ wire = <<>>)

(* The state of a stream being read.                                       *)
LEMMA ReadingIs ==
    ASSUME StreamInv, call.at \in {"read", "cut"}
    PROVE  \E n \in Nat \ {0} : ReadingIn(n)
<1>1. PICK n : n = spent.streams
  OBVIOUS
<1>2. RequestTyped /\ UnderwayIn(n) /\ spent.charged = <<>>
  BY <1>1 DEF StreamInv
<1>3. n \in Nat \ {0} /\ ask \in Asks
  BY <1>1, <1>2 DEF RequestTyped, UnderwayIn
<1>4. ask.client # "buffered" => Streaming
  BY <1>3, AskIs
<1>5. ReadingIn(n)
  BY <1>1, <1>2, <1>3, <1>4 DEF RequestTyped, UnderwayIn, ReadingIn
<1> QED
  BY <1>3, <1>5

(* An event more is counted.                                               *)
LEMMA EventCounted ==
    ASSUME NEW n, ReadingIn(n), spent' = [spent EXCEPT !.events = @ + 1]
    PROVE  /\ spent' \in [events : Nat, streams : Nat, charged : Seq(Nat)]
           /\ spent'.streams = n /\ spent'.charged = <<>>
<1> DEFINE m == spent.events + 1
<1>1. m \in Nat /\ spent' = [spent EXCEPT !.events = m]
      /\ spent \in [events : Nat, streams : Nat, charged : Seq(Nat)]
      /\ spent.streams = n /\ spent.charged = <<>>
  BY DEF ReadingIn
<1> HIDE DEF m
<1> QED
  BY <1>1

(* A stutter sends nothing.                                                *)
LEMMA NoMoreSent ==
    ASSUME NEW n, ReadingIn(n), view' = view, wire' = wire
    PROVE  Flush(view)
<1>1. CASE ask.client # "buffered"
  BY <1>1, FlushNothing DEF ReadingIn
<1>2. CASE ask.client = "buffered"
  <2> DEFINE none == <<>>
  <2>1. view \in Views(n) /\ view.out = none /\ wire = none /\ none \in Seq(ShownEvents(n))
    BY <1>1, <1>2, EmptySeq DEF ReadingIn, Collects
  <2>2. none \o none = none
    BY <2>1, ConcatEmptySeq
  <2> HIDE DEF none
  <2>3. view = [view EXCEPT !.out = none] /\ wire \o view.out = wire
    BY <2>1, <2>2 DEF Views
  <2> QED
    BY <1>2, <2>3 DEF Flush, none
<1> QED
  BY <1>1, <1>2

(* ReadBreaks preserves it.                                                *)
LEMMA AfterReadBreaks == StreamInv /\ ReadBreaks => StreamInv'
<1> SUFFICES ASSUME StreamInv, ReadBreaks
             PROVE  StreamInv'
  OBVIOUS
<1>1. PICK n \in Nat \ {0} : ReadingIn(n)
  BY ReadingIs DEF ReadBreaks
<1>2. /\ ask' = ask /\ sent' = sent /\ view' = view /\ wire' = wire /\ spent' = spent
      /\ call' = [call EXCEPT !.at = "cut"]
  BY DEF ReadBreaks
<1>3. call' \in Calls /\ call'.at = "cut" /\ (call'.emitted <=> call.emitted)
  BY <1>1, <1>2 DEF ReadingIn, Calls
<1>4. Flush(view)
  BY <1>1, <1>2, NoMoreSent
<1> QED
  BY <1>1, <1>2, <1>3, <1>4, GoesOn DEF ReadingIn

(* ReadTimesOut preserves it.                                              *)
LEMMA AfterReadTimesOut == StreamInv /\ ReadTimesOut => StreamInv'
BY CallFailsIs DEF ReadTimesOut

(* StreamCut preserves it: what is asked for again was not shown.          *)
LEMMA AfterStreamCut == StreamInv /\ StreamCut => StreamInv'
<1> SUFFICES ASSUME StreamInv, StreamCut
             PROVE  StreamInv'
  OBVIOUS
<1>1. call.at = "cut" /\ UNCHANGED <<ask, sent, view, spent>>
  BY DEF StreamCut
<1>2. PICK n \in Nat \ {0} : ReadingIn(n)
  BY <1>1, ReadingIs
<1>3. CASE call.emitted
  <2>1. CallFails
    BY <1>3 DEF StreamCut
  <2> QED
    BY <1>1, <2>1, CallFailsIs
<1>4. CASE ~call.emitted
  <2>1. view = FreshView(FALSE) /\ wire = <<>> /\ call \in Calls
    BY <1>2, <1>4 DEF ReadingIn
  <2>2. CASE call.try < StreamAttempts
    <3>1. call' = [call EXCEPT !.at = "post", !.try = @ + 1] /\ wire' = wire
      BY <1>4, <2>2 DEF StreamCut
    <3>2. call' \in Calls /\ call'.at = "post"
      <4> DEFINE m == call.try + 1
      <4>1. m \in Nat /\ call' = [call EXCEPT !.at = "post", !.try = m]
        BY <2>1, <3>1 DEF Calls
      <4> HIDE DEF m
      <4> QED
        BY <2>1, <4>1 DEF Calls
    <3> QED
      BY <1>1, <2>1, <3>1, <3>2, PostedAgain
  <2>3. CASE ~(call.try < StreamAttempts)
    <3>1. NextEndpoint
      BY <1>4, <2>3 DEF StreamCut
    <3> QED
      BY <1>1, <2>1, <3>1, NextEndpointIs
  <2> QED
    BY <2>2, <2>3
<1> QED
  BY <1>3, <1>4

(* Text or a reasoning event: the client, with what is held back, has what *)
(* the stream has brought with it.                                         *)
LEMMA TextRead ==
    ASSUME NEW n, ReadingIn(n), ask.client # "buffered", NEW items \in Seq(TextItems(n)),
           NEW kind \in {"text", "reasoning"}, NEW isThinking \in BOOLEAN,
           kind = "reasoning" <=> isThinking
    PROVE  LET v == OnText(view, items, isThinking)
               q == Append(sent, [kind |-> kind, items |-> items])
           IN  Sound(v, n) /\ Reads(v) = ReadSoFar(q) /\ q \in Seq(SentEvents(n))
<1> DEFINE e == [kind |-> kind, items |-> items]
           q == Append(sent, e)
           v == OnText(view, items, isThinking)
<1>1. /\ n \in Nat \ {0} /\ sent \in Seq(SentEvents(n)) /\ Streaming
      /\ Sound(view, n) /\ Reads(view) = ReadSoFar(sent)
  BY DEF ReadingIn
<1>2. items \in Seq(LiveItems(n)) /\ items \in Seq(ShownItems(n))
  BY TextShown
<1>3. e \in SentEvents(n) /\ e.kind = kind /\ e.items = items
  BY <1>2 DEF SentEvents
<1> HIDE DEF e
<1>7. PartOf(e) = IF isThinking THEN <<>> ELSE items
  BY <1>3 DEF PartOf
<1>8. sent \in Seq(SentEvents(n)) /\ e \in SentEvents(n)
  BY <1>1, <1>3
<1>9. q = Append(sent, e)
  OBVIOUS
<1> HIDE DEF q
<1>4. q \in Seq(SentEvents(n)) /\ TextAndTools(q) = TextAndTools(sent) \o PartOf(e)
      /\ TextAndTools(sent) \in Seq(LiveItems(n))
  BY <1>8, <1>9, SentAppend
<1>5. CASE isThinking
  <2>1. v = Reasoning(view, items)
    BY <1>5 DEF OnText
  <2>2. TextAndTools(q) = TextAndTools(sent)
    BY <1>4, <1>5, <1>7, ConcatEmptySeq
  <2>3. ReadSoFar(q) = ReadSoFar(sent)
    BY <2>2 DEF ReadSoFar
  <2>4. Sound(Reasoning(view, items), n) /\ Reads(Reasoning(view, items)) = Reads(view)
    BY <1>1, <1>2, ReasoningIs
  <2> QED
    BY <1>1, <1>4, <2>1, <2>3, <2>4 DEF q, e
<1>6. CASE ~isThinking
  <2> DEFINE force == FALSE
             w == Text(view, items, force)
  <2>1. v = w
    BY <1>6 DEF OnText
  <2>2. force \in BOOLEAN /\ ~force
    OBVIOUS
  <2> HIDE DEF force
  <2>3. Settled(w, n) /\ Reads(w) = SplitAll(Reads(view), items)
    BY <1>1, <2>2, TextIs
  <2> HIDE DEF w
  <2>4. TextAndTools(q) = TextAndTools(sent) \o items
    BY <1>4, <1>6, <1>7
  <2>7. q \in Seq(SentEvents(n)) /\ items \in Seq(ShownItems(n))
    BY <1>2, <1>4
  <2>5. ReadSoFar(q) = SplitAll(ReadSoFar(sent), items)
    BY <1>8, <2>4, <2>7, ReadMore, SMTT(30)
  <2>6. Sound(w, n) /\ Reads(w) = ReadSoFar(q)
    BY <1>1, <2>3, <2>5 DEF Settled
  <2> QED
    BY <1>4, <2>1, <2>6 DEF q, e
<1> QED
  BY <1>5, <1>6

(* A buffered handler that collects text has still written nothing.        *)
LEMMA TextCollected ==
    ASSUME NEW n, NEW v, Collects(v, n), ask.client = "buffered",
           NEW items \in Seq(TextItems(n)), NEW isThinking \in BOOLEAN
    PROVE  Collects(OnText(v, items, isThinking), n)
<1> DEFINE c == IF isThinking THEN v.content ELSE v.content \o items
<1>1. v \in Views(n) /\ ~v.begun /\ v.out = <<>> /\ v.content \in Seq(LiveItems(n))
  BY DEF Collects, Views
<1>2. items \in Seq(LiveItems(n))
  BY TextShown
<1>3. c \in Seq(LiveItems(n))
  BY <1>1, <1>2, ConcatProperties
<1>4. OnText(v, items, isThinking) = [v EXCEPT !.content = c]
  BY DEF OnText
<1> HIDE DEF c
<1> QED
  BY <1>1, <1>3, <1>4 DEF Collects, Views

(* TextArrives preserves it.                                               *)
LEMMA AfterTextArrives == StreamInv /\ TextArrives => StreamInv'
<1> SUFFICES ASSUME StreamInv, TextArrives
             PROVE  StreamInv'
  OBVIOUS
<1>1. PICK n \in Nat \ {0} : ReadingIn(n)
  BY ReadingIs DEF TextArrives, Reading
<1>2. n = spent.streams /\ sent \in Seq(SentEvents(n)) /\ call \in Calls
  BY <1>1 DEF ReadingIn
<1>3. PICK chunk \in Chunks, isThinking \in BOOLEAN :
         /\ sent' = Append(sent, [kind |-> IF isThinking THEN "reasoning" ELSE "text",
                                  items |-> Atoms(chunk)])
         /\ Flush(OnText(view, Atoms(chunk), isThinking))
  BY DEF TextArrives
<1> DEFINE items == Atoms(chunk)
           kind == IF isThinking THEN "reasoning" ELSE "text"
           v == OnText(view, items, isThinking)
<1>4. items \in Seq(TextItems(n))
  <2>1. chunk \in Seq(STRING) \ {<<>>}
    BY StreamsAssumption
  <2> QED
    BY <1>2, <2>1, AtomsTyped
<1>5. kind \in {"text", "reasoning"} /\ (kind = "reasoning" <=> isThinking)
  OBVIOUS
<1>6. sent' = Append(sent, [kind |-> kind, items |-> items]) /\ Flush(v)
  BY <1>3
<1> HIDE DEF items, kind
<1>7. sent' \in Seq(SentEvents(n))
  <2>1. items \in Seq(LiveItems(n))
    BY <1>4, TextShown
  <2>2. [kind |-> kind, items |-> items] \in SentEvents(n)
    BY <1>5, <2>1 DEF SentEvents
  <2> QED
    BY <1>2, <1>6, <2>2, AppendProperties
<1>8. ask.client # "buffered" => Sound(v, n) /\ Reads(v) = ReadSoFar(sent')
  BY <1>1, <1>4, <1>5, <1>6, TextRead
<1>9. ask.client = "buffered" => Collects(v, n) /\ wire = <<>>
  BY <1>1, <1>4, TextCollected DEF ReadingIn
<1> HIDE DEF v
<1>10. spent' = [spent EXCEPT !.events = @ + 1] /\ ask' = ask
  BY DEF TextArrives
<1>11. call' \in Calls /\ call'.at = "read" /\ call'.emitted = TRUE
  <2> DEFINE yes == TRUE
  <2>1. yes \in BOOLEAN /\ call' = [call EXCEPT !.emitted = yes, !.sawOutput = yes]
        /\ call.at = "read"
    BY DEF TextArrives, Reading
  <2> HIDE DEF yes
  <2>2. call' \in Calls /\ call'.at = "read" /\ call'.emitted = yes
    BY <1>2, <2>1 DEF Calls
  <2> QED
    BY <2>2 DEF yes
<1>12. /\ spent' \in [events : Nat, streams : Nat, charged : Seq(Nat)]
       /\ spent'.streams = n /\ spent'.charged = <<>>
  BY <1>1, <1>10, EventCounted
<1> QED
  BY <1>6, <1>7, <1>8, <1>9, <1>10, <1>11, <1>12, GoesOn

(* ToolArrives preserves it.                                               *)
LEMMA AfterToolArrives == StreamInv /\ ToolArrives => StreamInv'
<1> SUFFICES ASSUME StreamInv, ToolArrives
             PROVE  StreamInv'
  OBVIOUS
<1>1. PICK n \in Nat \ {0} : ReadingIn(n)
  BY ReadingIs DEF ToolArrives, Reading
<1>2. n = spent.streams /\ sent \in Seq(SentEvents(n)) /\ call \in Calls
      /\ call.tool \in LiveTools \cup {NoTool}
  BY <1>1 DEF ReadingIn, Calls
<1>3. PICK e \in ToolEvents :
         LET tool == Receiving(call.tool, e)
             bad  == \/ StartsAnother(call.tool, e) /\ ~Finishable(call.tool)
                     \/ e.stop /\ tool # NoTool /\ ~Finishable(tool)
             some == ToolsShown(e) # <<>>
         IN  /\ ShowTools(ToolsShown(e))
             /\ call' = [call EXCEPT !.at = IF bad THEN "cut" ELSE @,
                                     !.tool = IF e.stop THEN NoTool ELSE tool,
                                     !.emitted = @ \/ some,
                                     !.sawOutput = @ \/ some]
  BY DEF ToolArrives
<1> DEFINE tool == Receiving(call.tool, e)
           tools == ToolsShown(e)
           v == ToolsUsed(view, tools)
<1>4. tool \in LiveTools \cup {NoTool}
  BY <1>2, ReceivingTyped
<1>5. tools \in Seq(ToolItems(n))
  BY <1>2, ToolsShownTyped
<1>6. sent' = sent \o AllOf(tools) /\ Flush(v)
  BY <1>3 DEF ShowTools, ToolsUsed, AllOf, ToolEvent
<1>7. /\ call' \in Calls /\ call'.at \in {"read", "cut"}
      /\ call'.emitted <=> (call.emitted \/ tools # <<>>)
  <2> DEFINE bad  == \/ StartsAnother(call.tool, e) /\ ~Finishable(call.tool)
                     \/ e.stop /\ tool # NoTool /\ ~Finishable(tool)
             at == IF bad THEN "cut" ELSE call.at
             kept == IF e.stop THEN NoTool ELSE tool
             em == call.emitted \/ tools # <<>>
             saw == call.sawOutput \/ tools # <<>>
  <2>1. call' = [call EXCEPT !.at = at, !.tool = kept, !.emitted = em, !.sawOutput = saw]
    BY <1>3
  <2>2. call.at = "read"
    BY DEF ToolArrives, Reading
  <2>3. at \in {"read", "cut"}
    BY <2>2
  <2>4. kept \in LiveTools \cup {NoTool}
    BY <1>4
  <2>5. em \in BOOLEAN /\ saw \in BOOLEAN
    BY <1>2 DEF Calls
  <2> HIDE DEF at, kept, em, saw
  <2>6. call' \in Calls /\ call'.at = at /\ call'.emitted = em
    BY <1>2, <2>1, <2>3, <2>4, <2>5 DEF Calls
  <2> QED
    BY <2>3, <2>6 DEF em
<1> HIDE DEF tool, tools
<1>8. sent' \in Seq(SentEvents(n)) /\ TextAndTools(sent') = TextAndTools(sent) \o tools
  BY <1>2, <1>5, <1>6, ToolsSent
<1>9. ask.client # "buffered" => Sound(v, n) /\ Reads(v) = ReadSoFar(sent')
  <2> SUFFICES ASSUME ask.client # "buffered"
               PROVE  Sound(v, n) /\ Reads(v) = ReadSoFar(sent')
    OBVIOUS
  <2>1. Streaming /\ Sound(view, n) /\ Reads(view) = ReadSoFar(sent)
    BY <1>1 DEF ReadingIn
  <2>2. Sound(v, n) /\ Reads(v) = SplitAll(Reads(view), tools)
    BY <1>5, <2>1, ToolsUsedIs
  <2>3. tools \in Seq(ShownItems(n))
    BY <1>5, ToolsAreLive
  <2>4. ReadSoFar(sent') = SplitAll(ReadSoFar(sent), tools)
    BY <1>2, <1>8, <2>3, ReadMore, ZenonT(30)
  <2> QED
    BY <2>1, <2>2, <2>4
<1>10. ask.client = "buffered" => Collects(v, n) /\ wire = <<>>
  BY <1>1, <1>5, CollectTools DEF ReadingIn
<1>11. call'.emitted \/ (v = FreshView(FALSE) /\ wire = <<>>)
  <2>1. CASE tools = <<>>
    <3>1. v = view
      BY <2>1, NoToolUsed
    <3>2. call.emitted \/ (view = FreshView(FALSE) /\ wire = <<>>)
      BY <1>1 DEF ReadingIn
    <3> QED
      BY <1>7, <3>1, <3>2
  <2>2. CASE tools # <<>>
    BY <1>7, <2>2
  <2> QED
    BY <2>1, <2>2
<1> HIDE DEF v
<1>12. spent' = [spent EXCEPT !.events = @ + 1] /\ ask' = ask
  BY DEF ToolArrives
<1>13. /\ spent' \in [events : Nat, streams : Nat, charged : Seq(Nat)]
       /\ spent'.streams = n /\ spent'.charged = <<>>
  BY <1>1, <1>12, EventCounted
<1> QED
  BY <1>6, <1>7, <1>8, <1>9, <1>10, <1>11, <1>12, <1>13, GoesOn

(* The tool still open when the stream ends.                               *)
LEMMA LastTool ==
    ASSUME NEW n, ReadingIn(n), NEW tool \in ToolItems(n)
    PROVE  LET v == OnToolUse(view, tool)
               q == Append(sent, ToolEvent(tool))
           IN  /\ q \in Seq(SentEvents(n))
               /\ ask.client # "buffered" => Sound(v, n) /\ Reads(v) = ReadSoFar(q)
               /\ ask.client = "buffered" => Collects(v, n)
<1> DEFINE v == OnToolUse(view, tool)
           e == ToolEvent(tool)
           q == Append(sent, e)
           one == <<tool>>
           s == ReadSoFar(sent)
<1>1. n \in Nat \ {0} /\ sent \in Seq(SentEvents(n))
  BY DEF ReadingIn
<1>2. /\ e \in SentEvents(n) /\ PartOf(e) = one
      /\ tool \in LiveItems(n) /\ tool.n = 0 /\ tool \in ShownItems(n)
  BY ToolEventTyped, ToolItemIsLive
<1>3. one \in Seq(ShownItems(n))
  BY <1>2, OneSequence
<1>4. q = Append(sent, e)
  OBVIOUS
<1> HIDE DEF e, q, one
<1>5. q \in Seq(SentEvents(n)) /\ TextAndTools(q) = TextAndTools(sent) \o one
  BY <1>1, <1>2, <1>4, SentAppend
<1>6. ReadSoFar(q) = SplitAll(s, one)
  BY <1>1, <1>3, <1>5, ReadMore
<1>7. s \in Ahead(n, <<>>) /\ <<>> \in Seq(ShownItems(n))
  BY <1>1, ReadSoFarIs
<1>8. SplitAll(s, one) = Split(s, tool)
  <2> DEFINE none == <<>>
  <2>1. /\ s \in Ahead(n, none) /\ none \in Seq(ShownItems(n)) /\ one = Append(none, tool)
    BY <1>7 DEF one
  <2> HIDE DEF s, none
  <2>2. SplitAll(s, one) = Split(SplitAll(s, none), tool)
    BY <1>2, <2>1, SplitOne
  <2>3. SplitAll(s, none) = s
    BY <2>1, SplitNone DEF none
  <2> QED
    BY <2>2, <2>3
<1>9. ask.client # "buffered" => Sound(v, n) /\ Reads(v) = ReadSoFar(q)
  <2> SUFFICES ASSUME ask.client # "buffered"
               PROVE  Sound(v, n) /\ Reads(v) = ReadSoFar(q)
    OBVIOUS
  <2>1. Streaming /\ Sound(view, n) /\ Reads(view) = s
    BY DEF ReadingIn
  <2>2. Sound(v, n) /\ Reads(v) = Split(Reads(view), tool)
    BY <1>1, <1>2, <2>1, ToolUseIs
  <2> QED
    BY <1>6, <1>8, <2>1, <2>2
<1>10. ask.client = "buffered" => Collects(v, n)
  BY CollectTool DEF ReadingIn
<1> QED
  BY <1>4, <1>5, <1>9, <1>10 DEF e

(* What the handler has written at the end is what the client has.         *)
LEMMA AnswerGiven ==
    ASSUME NEW n \in Nat \ {0}, StreamInv, ReadingIn(n), NEW v, Flush(Finish(v)), ask' = ask,
           sent' \in Seq(SentEvents(n)),
           ask.client # "buffered" => Sound(v, n) /\ Reads(v) = ReadSoFar(sent'),
           ask.client = "buffered" => Collects(v, n),
           call' \in Calls, call'.at = "done",
           spent' = [spent EXCEPT !.charged = Append(@, spent.streams)]
    PROVE  StreamInv'
<1> DEFINE none == <<>>
           u == Finish(v)
<1>1. /\ ask \in Asks /\ n = spent.streams /\ spent.charged = none /\ wire \in Seq(ShownEvents(n))
      /\ spent \in [events : Nat, streams : Nat, charged : Seq(Nat)]
      /\ ask.client # "buffered" => Streaming
      /\ ask.client = "buffered" => wire = <<>>
  <2>1. ask.client = "buffered" => wire \in Seq(ShownEvents(n))
    BY EmptySeq DEF ReadingIn
  <2>2. ask.client # "buffered" => wire \in Seq(ShownEvents(n))
    BY DEF ReadingIn, Sound, Good
  <2> QED
    BY <2>1, <2>2 DEF ReadingIn
<1>2. wire' = Got(u) /\ (u \in Views(n) => view'.out = none /\ (view'.begun <=> u.begun))
  <2>1. view' = [u EXCEPT !.out = none] /\ wire' = Got(u)
    BY DEF Flush, Got
  <2>2. u \in Views(n) => u.out \in Seq(ShownEvents(n))
    BY DEF Views
  <2> QED
    BY <2>1, <2>2 DEF Views
<1>3. /\ spent' \in [events : Nat, streams : Nat, charged : Seq(Nat)]
      /\ spent'.streams = n /\ spent'.charged = <<n>>
  <2> DEFINE paid == Append(spent.charged, n)
  <2>1. none \in Seq(Nat) /\ spent' = [spent EXCEPT !.charged = paid]
    BY <1>1, EmptySeq
  <2>2. paid \in Seq(Nat) /\ paid = <<n>>
    BY <1>1, <2>1, AppendProperties
  <2> HIDE DEF paid
  <2> QED
    BY <1>1, <2>1, <2>2
<1> HIDE DEF none
<1>4. RequestTyped'
  BY <1>1, <1>3 DEF RequestTyped
<1>5. CASE ask.client # "buffered"
  <2>1. LeftWith(u, n, Reads(v).out)
    BY <1>1, <1>5, FinishIs
  <2>2. AnswerOf(sent') = ReadSoFar(sent').out
    BY ReadSoFarIs
  <2>3. Reads(v).out = AnswerOf(sent')
    BY <1>5, <2>2
  <2> HIDE DEF u
  <2>4. /\ Fine(wire', n) /\ AnswersIn(wire') = AnswerOf(sent') /\ wire' # <<>>
        /\ view'.out = none
    BY <1>2, <2>1, <2>3 DEF LeftWith
  <2>6. AnsweredFrom(spent.streams)'
    BY <1>3, <1>5, <2>4 DEF AnsweredFrom, none
  <2> QED
    BY <1>4, <2>6 DEF StreamInv
<1>6. CASE ask.client = "buffered"
  <2>1. v \in Views(n) /\ ~v.begun /\ v.out = <<>> /\ wire = <<>>
    BY <1>1, <1>6 DEF Collects
  <2>2. PICK said \in Seq(ShownItems(n)) : LeftWith(FinishBuffered(v), n, said)
    BY <2>1, FinishBufferedIs
  <2>3. ~FinishBuffered(v).begun
    BY <2>1, FinishBufferedIs
  <2>4. u = FinishBuffered(v)
    BY <1>6 DEF Finish
  <2>7. LeftWith(u, n, said) /\ ~u.begun
    BY <2>2, <2>3, <2>4
  <2> HIDE DEF u
  <2>5. Fine(wire', n) /\ wire' # <<>> /\ ~view'.begun /\ view'.out = none
    BY <1>2, <2>7 DEF LeftWith
  <2>6. AnsweredFrom(spent.streams)'
    BY <1>3, <1>6, <2>5 DEF AnsweredFrom, none
  <2> QED
    BY <1>4, <2>6 DEF StreamInv
<1> QED
  BY <1>5, <1>6

(* StreamEnds preserves it: the client is left with the whole answer, or   *)
(* the stream was cut.                                                     *)
LEMMA AfterStreamEnds == StreamInv /\ StreamEnds => StreamInv'
<1> SUFFICES ASSUME StreamInv, StreamEnds
             PROVE  StreamInv'
  OBVIOUS
<1>1. PICK n \in Nat \ {0} : ReadingIn(n)
  BY ReadingIs DEF StreamEnds
<1> DEFINE tool == call.tool
           last == tool # NoTool /\ Finishable(tool)
           v == IF last THEN OnToolUse(view, ToolItem(tool)) ELSE view
           ok == (call.sawOutput \/ last) /\ (tool = NoTool \/ last)
<1>2. /\ n = spent.streams /\ sent \in Seq(SentEvents(n)) /\ call \in Calls
      /\ call.at = "read" /\ tool \in LiveTools \cup {NoTool}
      /\ ask.client # "buffered" => Streaming /\ Sound(view, n) /\ Reads(view) = ReadSoFar(sent)
      /\ ask.client = "buffered" => Collects(view, n) /\ wire = <<>>
  BY <1>1 DEF ReadingIn, Calls, StreamEnds
<1>3. /\ sent' = IF last THEN Append(sent, ToolEvent(ToolItem(tool))) ELSE sent
      /\ Flush(IF ok THEN Finish(v) ELSE v)
      /\ call' = [call EXCEPT !.at = IF ok THEN "done" ELSE "cut"]
      /\ spent' = IF ok THEN [spent EXCEPT !.charged = Append(@, spent.streams)] ELSE spent
      /\ ask' = ask
  BY DEF StreamEnds, ToolEvent
<1>4. /\ sent' \in Seq(SentEvents(n))
      /\ ask.client # "buffered" => Sound(v, n) /\ Reads(v) = ReadSoFar(sent')
      /\ ask.client = "buffered" => Collects(v, n)
  <2>1. CASE last
    <3> DEFINE item == ToolItem(tool)
    <3>1. item \in ToolItems(n)
      BY <1>2, <2>1, ToolItemTyped
    <3>2. v = OnToolUse(view, item) /\ sent' = Append(sent, ToolEvent(item))
      BY <1>3, <2>1
    <3> HIDE DEF v, item
    <3> QED
      BY <1>1, <3>1, <3>2, LastTool
  <2>2. CASE ~last
    <3>1. v = view /\ sent' = sent
      BY <1>3, <2>2
    <3> HIDE DEF v
    <3> QED
      BY <1>2, <3>1
  <2> QED
    BY <2>1, <2>2
<1>5. CASE ok
  <2>1. /\ Flush(Finish(v)) /\ ask' = ask
        /\ spent' = [spent EXCEPT !.charged = Append(@, spent.streams)]
        /\ call' = [call EXCEPT !.at = "done"]
    BY <1>3, <1>5
  <2>2. call' \in Calls /\ call'.at = "done"
    BY <1>2, <2>1 DEF Calls
  <2> HIDE DEF v
  <2> QED
    BY <1>1, <1>4, <2>1, <2>2, AnswerGiven
<1>6. CASE ~ok
  <2>1. v = view /\ Flush(v) /\ spent' = spent /\ call' = [call EXCEPT !.at = "cut"]
    BY <1>3, <1>6
  <2>2. call' \in Calls /\ call'.at = "cut" /\ (call'.emitted <=> call.emitted)
    BY <1>2, <2>1 DEF Calls
  <2> HIDE DEF v, ok, last
  <2>3. call'.emitted \/ (v = FreshView(FALSE) /\ wire = <<>>)
    BY <1>1, <2>1, <2>2 DEF ReadingIn
  <2>4. /\ spent' \in [events : Nat, streams : Nat, charged : Seq(Nat)]
        /\ spent'.streams = n /\ spent'.charged = <<>>
    BY <1>1, <2>1 DEF ReadingIn
  <2> QED
    BY <1>2, <1>3, <1>4, <2>1, <2>2, <2>3, <2>4, GoesOn
<1> QED
  BY <1>5, <1>6

(* Every step of a request preserves it, and so does a stutter.            *)
LEMMA StreamStep == StreamInv /\ [StreamsNext]_streamVars => StreamInv'
<1> SUFFICES ASSUME StreamInv, [StreamsNext]_streamVars
             PROVE  StreamInv'
  OBVIOUS
<1>1. CASE NoAccountLeft \/ AccountPicked \/ TokenFails
  BY <1>1, AfterNoAccountLeft, AfterAccountPicked, AfterTokenFails
<1>2. CASE EndpointFails \/ CallRefused \/ StreamOpens
  BY <1>2, AfterPostFails, AfterStreamOpens
<1>3. CASE TextArrives \/ ToolArrives
  BY <1>3, AfterTextArrives, AfterToolArrives
<1>4. CASE ReadBreaks \/ ReadTimesOut
  BY <1>4, AfterReadBreaks, AfterReadTimesOut
<1>5. CASE StreamEnds \/ StreamCut
  BY <1>5, AfterStreamEnds, AfterStreamCut
<1>6. CASE UNCHANGED streamVars
  <2>1. /\ ask' = ask /\ call' = call /\ sent' = sent /\ view' = view /\ wire' = wire
        /\ spent' = spent
    BY <1>6 DEF streamVars
  <2>2. RequestTyped' /\ NothingYet' = NothingYet
    BY <2>1 DEF StreamInv, RequestTyped, NothingYet
  <2>3. CASE call.at \in {"read", "cut"}
    <3>1. PICK n \in Nat \ {0} : ReadingIn(n)
      BY <2>3, ReadingIs
    <3>2. Flush(view)
      BY <2>1, <3>1, NoMoreSent
    <3> QED
      BY <2>1, <2>3, <3>1, <3>2, GoesOn DEF ReadingIn
  <2>4. CASE call.at = "done"
    <3>1. AnsweredFrom(spent.streams)
      BY <2>4 DEF StreamInv
    <3>2. AnsweredFrom(spent.streams)'
      BY <2>1, <3>1 DEF AnsweredFrom
    <3> QED
      BY <2>1, <2>2, <2>4, <3>2 DEF StreamInv
  <2>5. CASE call.at \in {"broken", "refused"}
    <3>1. LeftInOrder(spent.streams) /\ spent.charged = <<>>
      BY <2>5 DEF StreamInv
    <3>2. LeftInOrder(spent.streams)'
      BY <2>1, <3>1 DEF LeftInOrder
    <3> QED
      BY <2>1, <2>2, <2>5, <3>1, <3>2 DEF StreamInv
  <2>6. CASE call.at \in {"pick", "post"}
    BY <2>1, <2>2, <2>6 DEF StreamInv
  <2>7. call.at \in {"pick", "post", "read", "cut", "done", "broken", "refused"}
    BY DEF StreamInv, RequestTyped, Calls
  <2> QED
    BY <2>3, <2>4, <2>5, <2>6, <2>7
<1> QED
  BY <1>1, <1>2, <1>3, <1>4, <1>5, <1>6 DEF StreamsNext

(* The invariant holds of every request.                                   *)
LEMMA StreamsKeep == StreamsSpec => []StreamInv
BY StreamsStart, StreamStep, PTL DEF StreamsSpec

(***************************************************************************)
(* What the client has.                                                    *)
(***************************************************************************)
LEMMA WireIs ==
    ASSUME StreamInv
    PROVE  /\ wire \in Seq(ShownEvents(spent.streams)) /\ Placed(wire)
           /\ Kind(wire, "message_stop") # {} =>
                 Cardinality(Stops(wire)) = Cardinality(Starts(wire))
           /\ \E k \in {0, 1} : MarksAre(ItemsOf(wire), k)
           /\ call.at = "done" => MarksAre(ItemsOf(wire), 0) /\ spent.charged = <<spent.streams>>
           /\ call.at # "done" => spent.charged = <<>>
<1> DEFINE n == spent.streams
<1>1. CASE call.at = "done"
  <2>1. Fine(wire, n) /\ spent.charged = <<n>>
    BY <1>1 DEF StreamInv, AnsweredFrom
  <2> QED
    BY <1>1, <2>1 DEF Fine
<1>2. CASE call.at # "done"
  <2>1. spent.charged = <<>>
    BY <1>2 DEF StreamInv
  <2>2. InOrder(wire, n)
    <3>1. CASE call.at \in {"pick", "post"}
      <4>1. wire = <<>>
        BY <3>1 DEF StreamInv, NothingYet
      <4> HIDE DEF n
      <4> QED
        BY <4>1, NothingIs
    <3>2. CASE call.at \in {"read", "cut"}
      <4>1. RequestTyped /\ UnderwayIn(n)
        BY <3>2 DEF StreamInv
      <4> QED
        BY <4>1, UnderwayIs DEF SoFar
    <3>3. CASE call.at \in {"broken", "refused"}
      BY <3>3 DEF StreamInv, LeftInOrder
    <3>4. call.at \in {"pick", "post", "read", "cut", "broken", "refused"}
      BY <1>2 DEF StreamInv, RequestTyped, Calls
    <3> QED
      BY <3>1, <3>2, <3>3, <3>4
  <2> QED
    BY <1>2, <2>1, <2>2 DEF InOrder
<1> QED
  BY <1>1, <1>2

(* Shown items without the marks are of one stream.                        *)
LEMMA OneStreamShown ==
    ASSUME NEW n, NEW s \in Seq(ShownItems(n))
    PROVE  LET of == {s[i].of : i \in {k \in DOMAIN s : ~IsMark(s[k])}}
           IN  of \subseteq {n} /\ Cardinality(of) <= 1
<1> DEFINE of == {s[i].of : i \in {k \in DOMAIN s : ~IsMark(s[k])}}
<1>1. \A i \in DOMAIN s : s[i] \in ShownItems(n)
  BY ElementOfSeq, LenProperties
<1>2. of \subseteq {n}
  BY <1>1 DEF ShownItems, LiveItems, MarkItems, IsMark
<1> HIDE DEF of
<1>3. Cardinality(of) <= 1
  <2>1. IsFiniteSet({n}) /\ Cardinality({n}) = 1
    BY FS_Singleton
  <2> QED
    BY <1>2, <2>1, FS_Subset
<1> QED
  BY <1>2, <1>3 DEF of

(* Places that are all the first are one at most.                          *)
LEMMA FirstAlone ==
    ASSUME NEW S, S \subseteq {1}
    PROVE  Cardinality(S) <= 1
<1>1. IsFiniteSet({1}) /\ Cardinality({1}) = 1
  BY FS_Singleton
<1> QED
  BY <1>1, FS_Subset

(* So the answer is of one stream, and that one is charged.                *)
LEMMA OneStreamHeard == StreamInv => AnswerFromOneStream
<1> SUFFICES ASSUME StreamInv
             PROVE  AnswerFromOneStream
  OBVIOUS
<1> DEFINE n == spent.streams
           s == ItemsOf(wire)
           of == {s[i].of : i \in {k \in DOMAIN s : ~IsMark(s[k])}}
<1>1. s \in Seq(ShownItems(n))
  BY WireIs, ShownTypes
<1>2. of \subseteq {n} /\ Cardinality(of) <= 1
  BY <1>1, OneStreamShown
<1>3. Shown = s
  BY DEF Shown, ItemsOf
<1>4. Len(spent.charged) <= 1
  <2> DEFINE none == <<>>
             one == <<n>>
  <2>1. Len(none) = 0
    BY EmptySeq
  <2>2. Len(one) = 1
    OBVIOUS
  <2>3. call.at # "done" => spent.charged = none
    BY WireIs
  <2>4. call.at = "done" => spent.charged = one
    BY WireIs
  <2> HIDE DEF none, one
  <2> DEFINE k == Len(spent.charged)
  <2>5. k = 0 \/ k = 1
    <3>1. CASE call.at = "done"
      BY <2>2, <2>4, <3>1
    <3>2. CASE call.at # "done"
      BY <2>1, <2>3, <3>2
    <3> QED
      BY <3>1, <3>2
  <2> HIDE DEF k
  <2>6. k <= 1
    BY <2>5
  <2> QED
    BY <2>6 DEF k
<1>5. call.at = "done" => spent.charged = <<n>>
  BY WireIs
<1> HIDE DEF s, n
<1>6. call.at = "done" => \A m \in of : spent.charged = <<m>>
  BY <1>2, <1>5
<1> QED
  BY <1>2, <1>3, <1>4, <1>6 DEF AnswerFromOneStream

(* And its blocks are well formed.                                         *)
LEMMA BlocksInPlace == StreamInv => BlocksWellFormed
<1> SUFFICES ASSUME StreamInv
             PROVE  BlocksWellFormed
  OBVIOUS
<1> DEFINE OpenAt(i) == {k \in Opens : k <= i /\ ~\E c \in Closes : k < c /\ c < i}
           marks == {i \in DOMAIN Shown : IsMark(Shown[i])}
<1>1. Opens = Starts(wire) /\ Closes = Stops(wire) /\ Shown = ItemsOf(wire)
  BY DEF Opens, Closes, Shown, Starts, Stops, Kind, ItemsOf
<1>2. \A ev : Positions(ev) = Kind(wire, ev)
  BY DEF Positions, Kind
<1>3. \A i : OpenAt(i) = OpenOf(wire, i)
  BY <1>1 DEF OpenOf
<1>4. \A i : {k \in Opens : k < i} = Under(i, Starts(wire))
  BY <1>1 DEF Under
<1>5. marks = MarksIn(ItemsOf(wire)) /\ \A i : {k \in marks : k < i} = Under(i, marks)
  BY <1>1 DEF MarksIn, Under
<1>6. Placed(wire)
  BY WireIs
<1>7. Cardinality(Positions("message_start")) <= 1
  <2>1. Positions("message_start") \subseteq {1}
    BY <1>2, <1>6 DEF Placed
  <2> QED
    BY <2>1, FirstAlone
<1> HIDE DEF OpenAt
<1>8. \A i \in Opens : /\ wire[1].ev = "message_start"
                       /\ wire[i].index = Cardinality({k \in Opens : k < i})
                       /\ OpenAt(i) = {i}
  BY <1>1, <1>3, <1>4, <1>6 DEF Placed
<1>9. \A i \in Closes \cup Positions("block_delta") :
         \E k \in OpenAt(i) : OpenAt(i) = {k} /\ wire[k].index = wire[i].index
  BY <1>1, <1>2, <1>3, <1>6 DEF Placed
<1>10. Positions("message_stop") # {} => Cardinality(Closes) = Cardinality(Opens)
  BY <1>1, <1>2, WireIs
<1>11. \A i \in marks :
          Shown[i].ch = IF Cardinality({k \in marks : k < i}) % 2 = 0 THEN "open" ELSE "shut"
  BY <1>1, <1>5, WireIs DEF MarksAre
<1>12. call.at = "done" => Cardinality(marks) % 2 = 0
  BY <1>5, WireIs DEF MarksAre
<1> QED
  BY <1>7, <1>8, <1>9, <1>10, <1>11, <1>12 DEF BlocksWellFormed, OpenAt

(* What a client assembles is one answer, whole in form, however its       *)
(* stream, its endpoint or its account fails and is tried again            *)
(* (OneWellFormedAnswer): for every chunking of the text, any tools and    *)
(* any numbers of attempts, endpoints and events.                          *)
THEOREM StreamOneAnswer == StreamsSpec => []OneWellFormedAnswer
<1>1. StreamInv => OneWellFormedAnswer
  BY OneStreamHeard, BlocksInPlace DEF OneWellFormedAnswer
<1> QED
  BY <1>1, StreamsKeep, PTL

(* What a sequence begins with is a prefix of it.                          *)
LEMMA PrefixOf ==
    ASSUME NEW S, NEW q \in Seq(S), NEW more \in Seq(S), NEW s, s = q \o more
    PROVE  IsPrefix(q, s)
<1>1. /\ Len(q) \in Nat /\ Len(more) \in Nat /\ s \in Seq(S) /\ Len(s) = Len(q) + Len(more)
      /\ \A i \in 1..Len(q) : s[i] = q[i]
  BY ConcatProperties, LenProperties
<1>2. SubSeq(s, 1, Len(q)) = SubSeq(q, 1, Len(q))
  BY <1>1
<1> QED
  BY <1>1, <1>2 DEF IsPrefix

(* What the client has is a beginning of the answer, and at the end all of *)
(* it.                                                                     *)
LEMMA IntactNow == StreamInv => AnswerIsIntact
<1> SUFFICES ASSUME StreamInv, ask.client # "buffered"
             PROVE  /\ IsPrefix(AnswersIn(wire), AnswerOf(sent))
                    /\ call.at = "done" => AnswersIn(wire) = AnswerOf(sent)
  <2>1. ShownAnswer = AnswersIn(wire)
    BY DEF ShownAnswer, AnswersIn
  <2> QED
    BY <2>1 DEF AnswerIsIntact
<1> DEFINE n == spent.streams
           q == AnswersIn(wire)
           s == AnswerOf(sent)
<1>1. q \in Seq(ShownItems(n)) /\ s \in Seq(ShownItems(n))
  <2>1. wire \in Seq(ShownEvents(n)) /\ sent \in Seq(SentEvents(n))
    BY WireIs DEF StreamInv, RequestTyped
  <2> HIDE DEF n
  <2> QED
    BY <2>1, ShownTypes, ReadSoFarIs
<1>2. call.at = "done" => q = s
  BY DEF StreamInv, AnsweredFrom
<1>3. PICK more \in Seq(ShownItems(n)) : s = q \o more
  <2> DEFINE none == <<>>
  <2>1. none \in Seq(ShownItems(n))
    BY EmptySeq
  <2>2. CASE call.at \in {"pick", "post"}
    <3>1. q = <<>>
      BY <2>2, NothingIs DEF StreamInv, NothingYet
    <3>2. <<>> \o s = s
      BY <1>1, ConcatEmptySeq
    <3> QED
      BY <1>1, <3>1, <3>2
  <2>3. CASE call.at \in {"read", "cut"}
    <3>1. RequestTyped /\ UnderwayIn(n)
      BY <2>3 DEF StreamInv
    <3>2. StartOf(q, s, n)
      BY <3>1, UnderwayIs DEF SoFar
    <3> QED
      BY <3>2 DEF StartOf
  <2>4. CASE call.at \in {"broken", "refused"}
    <3>1. StartOf(q, s, n)
      BY <2>4 DEF StreamInv, LeftInOrder
    <3> QED
      BY <3>1 DEF StartOf
  <2>5. CASE call.at = "done"
    <3>1. s \o none = s
      BY <1>1, ConcatEmptySeq
    <3> QED
      BY <1>2, <2>1, <2>5, <3>1
  <2>6. call.at \in {"pick", "post", "read", "cut", "done", "broken", "refused"}
    BY DEF StreamInv, RequestTyped, Calls
  <2> QED
    BY <2>2, <2>3, <2>4, <2>5, <2>6
<1>4. IsPrefix(q, s)
  <2> HIDE DEF q, s, n
  <2> QED
    BY <1>1, <1>3, PrefixOf
<1> QED
  BY <1>2, <1>4

(* A streaming client receives the answer text and the tools of its stream *)
(* exactly once and in their order, through every cut of a tag and         *)
(* whatever is held back (AnswerIsIntact).                                 *)
THEOREM StreamAnswerIntact == StreamsSpec => []AnswerIsIntact
BY StreamsKeep, IntactNow, PTL

(***************************************************************************)
(* The bounds of one request: its tries of an endpoint, its endpoints of   *)
(* an account and its accounts bound the streams that are opened for it.   *)
(***************************************************************************)
(* The most there are, once try t of endpoint e of attempt a has had its.  *)
Used(a, e, t) == (a - 1) * (NumEndpoints * StreamAttempts) + (e - 1) * StreamAttempts + t

Counted ==
    /\ call.attempt <= MaxAttempts /\ call.endpoint \in 1..ask.endpoints
    /\ call.try \in 1..StreamAttempts /\ spent.events <= MaxEvents
    /\ call.at \in {"pick"} \cup Ended => spent.streams <= Used(call.attempt + 1, 1, 0)
    /\ call.at = "post" => spent.streams + 1 <= Used(call.attempt, call.endpoint, call.try)
    /\ call.at \in {"read", "cut"} =>
          spent.streams <= Used(call.attempt, call.endpoint, call.try)

(* Another try, another endpoint and another account use up more of them.  *)
LEMMA UsedGrows ==
    ASSUME NEW a \in Nat, NEW e \in 1..NumEndpoints, NEW t \in 1..StreamAttempts
    PROVE  /\ Used(a, e, t) \in Int /\ Used(a, e + 1, 1) \in Int /\ Used(a + 1, 1, 0) \in Nat
           /\ Used(a, e, t + 1) = Used(a, e, t) + 1
           /\ Used(a, e, t) + 1 <= Used(a, e + 1, 1)
           /\ Used(a, e, t) <= Used(a + 1, 1, 0)
           /\ Used(a + 1, 1, 0) + 1 = Used(a + 1, 1, 1)
           /\ Used(a + 1, 1, 0) <= Used(a + 2, 1, 0)
           /\ Used(a + 1, 1, 0) = a * (NumEndpoints * StreamAttempts)
<1> DEFINE S == StreamAttempts
           P == NumEndpoints * S
<1>1. S \in Nat /\ NumEndpoints \in Nat
  BY StreamsAssumption
<1>2. P \in Nat
  BY <1>1
<1>3. (e - 1) * S + S = e * S /\ (e - 1) * S \in Nat /\ e * S \in Nat
  BY <1>1
<1>4. e * S <= P
  <2>1. PICK d \in Nat : NumEndpoints = e + d
    <3>1. NumEndpoints - e \in Nat /\ NumEndpoints = e + (NumEndpoints - e)
      BY <1>1
    <3> QED
      BY <3>1
  <2>2. P = e * S + d * S /\ d * S \in Nat
    BY <1>1, <2>1
  <2> QED
    BY <1>3, <2>2
<1> HIDE DEF P
<1>5. (a - 1) * P \in Int /\ a * P \in Nat /\ (a - 1) * P + P = a * P /\ a * P + P = (a + 1) * P
  BY <1>2
<1>6. \A x, y, z \in Int : Used(x, y, z) = (x - 1) * P + (y - 1) * S + z
  BY DEF Used, P
<1>7. a + 1 - 1 = a /\ a + 2 - 1 = a + 1 /\ (1 - 1) * S = 0 /\ e + 1 - 1 = e
  BY <1>1
<1>8. /\ Used(a, e, t) = (a - 1) * P + (e - 1) * S + t
      /\ Used(a, e, t + 1) = (a - 1) * P + (e - 1) * S + (t + 1)
      /\ Used(a, e + 1, 1) = (a - 1) * P + e * S + 1
      /\ Used(a + 1, 1, 0) = a * P /\ Used(a + 1, 1, 1) = a * P + 1
      /\ Used(a + 2, 1, 0) = (a + 1) * P
  <2>1. Used(a, e, t) = (a - 1) * P + (e - 1) * S + t
    BY <1>6
  <2>2. Used(a, e, t + 1) = (a - 1) * P + (e - 1) * S + (t + 1)
    BY <1>6
  <2>3. Used(a, e + 1, 1) = (a - 1) * P + e * S + 1
    BY <1>6, <1>7
  <2>4. Used(a + 1, 1, 0) = a * P + 0 + 0
    BY <1>6, <1>7
  <2>5. Used(a + 1, 1, 1) = a * P + 0 + 1
    BY <1>6, <1>7
  <2>6. Used(a + 2, 1, 0) = (a + 1) * P + 0 + 0
    BY <1>6, <1>7
  <2>7. (a + 1) * P \in Int
    BY <1>2
  <2> QED
    BY <1>5, <2>1, <2>2, <2>3, <2>4, <2>5, <2>6, <2>7
<1> DEFINE u == (a - 1) * P
           v == (e - 1) * S
           w == a * P
           x == (a + 1) * P
           y == e * S
<1>9. u \in Int /\ v \in Nat /\ w \in Nat /\ y \in Nat /\ u + P = w /\ w + P = x /\ v + S = y /\ y <= P
      /\ t \in Nat /\ t <= S
  BY <1>1, <1>3, <1>4, <1>5
<1>10. /\ Used(a, e, t) = u + v + t /\ Used(a, e, t + 1) = u + v + (t + 1)
       /\ Used(a, e + 1, 1) = u + y + 1
       /\ Used(a + 1, 1, 0) = w /\ Used(a + 1, 1, 1) = w + 1
       /\ Used(a + 2, 1, 0) = x
  BY <1>8
<1>11. Used(a + 1, 1, 0) = a * (NumEndpoints * StreamAttempts)
  BY <1>8 DEF P
<1> HIDE DEF u, v, w, x, y, S
<1> QED
  BY <1>1, <1>2, <1>9, <1>10, <1>11 DEF S

(* A request begins within its bounds.                                     *)
LEMMA CountStarts == StreamsInit => Counted
<1> SUFFICES ASSUME StreamsInit
             PROVE  Counted
  OBVIOUS
<1>1. PICK used \in 0..MaxEvents : spent = [events |-> used, streams |-> 0, charged |-> <<>>]
  BY DEF StreamsInit
<1>2. spent.events = used /\ spent.streams = 0
  BY <1>1
<1>3. call.at = "pick" /\ call.attempt = 0 /\ call.endpoint = 1 /\ call.try = 1
  BY DEF StreamsInit
<1>7. ask.endpoints \in 1..NumEndpoints
  BY DEF StreamsInit, Asks
<1>4. 1 \in 1..ask.endpoints /\ 1 \in 1..StreamAttempts /\ 1 \in 1..NumEndpoints
      /\ MaxAttempts \in Nat /\ MaxEvents \in Nat
  <2>1. /\ MaxAttempts \in Nat \ {0} /\ StreamAttempts \in Nat \ {0}
        /\ NumEndpoints \in Nat \ {0} /\ MaxEvents \in Nat \ {0}
    BY StreamsAssumption
  <2> QED
    BY <1>7, <2>1
<1> DEFINE a == 0
           one == 1
           w == Used(a + 1, 1, 0)
<1>5. a \in Nat /\ 0 + 1 = 1
  OBVIOUS
<1>9. one \in 1..NumEndpoints /\ one \in 1..StreamAttempts
  BY <1>4
<1> HIDE DEF a, one
<1>8. Used(a, one, one) \in Int /\ w \in Nat
  BY <1>5, <1>9, UsedGrows
<1>6. Used(1, 1, 0) \in Nat
  BY <1>5, <1>8 DEF a
<1> QED
  BY <1>2, <1>3, <1>4, <1>6 DEF Counted, Ended

(* What is counted, as the steps of a request find it.                     *)
LEMMA CountIs ==
    ASSUME StreamInv, Counted
    PROVE  /\ call \in Calls /\ ask \in Asks /\ spent.streams \in Nat /\ spent.events \in Nat
           /\ spent \in [events : Nat, streams : Nat, charged : Seq(Nat)]
           /\ call.attempt \in Nat /\ call.attempt <= MaxAttempts
           /\ call.endpoint \in 1..ask.endpoints /\ call.endpoint \in 1..NumEndpoints
           /\ call.try \in 1..StreamAttempts /\ spent.events <= MaxEvents
           /\ ask.endpoints \in 1..NumEndpoints
           /\ {MaxAttempts, StreamAttempts, NumEndpoints, MaxEvents} \subseteq Nat \ {0}
<1>1. /\ call \in Calls /\ ask \in Asks
      /\ spent \in [events : Nat, streams : Nat, charged : Seq(Nat)]
  BY DEF StreamInv, RequestTyped
<1>2. ask.endpoints \in 1..NumEndpoints
  BY <1>1 DEF Asks
<1>3. {MaxAttempts, StreamAttempts, NumEndpoints, MaxEvents} \subseteq Nat \ {0}
  BY StreamsAssumption
<1>4. call.endpoint \in 1..NumEndpoints
  BY <1>2, <1>3 DEF Counted
<1> QED
  BY <1>1, <1>2, <1>3, <1>4 DEF Counted, Calls

(* A failure uses up no more than its account had.                         *)
LEMMA CountCallFails ==
    ASSUME StreamInv, Counted, CallFails, call.at \in {"post", "read", "cut"},
           UNCHANGED <<ask, spent>>
    PROVE  Counted'
<1>1. PICK at \in {"pick", "broken"} : call' = [call EXCEPT !.at = at]
  BY DEF CallFails
<1>2. /\ call'.at = at /\ call'.attempt = call.attempt /\ call'.endpoint = call.endpoint
      /\ call'.try = call.try /\ ask' = ask /\ spent' = spent
  BY <1>1, CountIs DEF Calls
<1> DEFINE u == Used(call.attempt, call.endpoint, call.try)
           w == Used(call.attempt + 1, 1, 0)
<1>3. u \in Int /\ w \in Int /\ u <= w /\ spent.streams \in Nat
  <2>1. w = call.attempt * (NumEndpoints * StreamAttempts)
    BY CountIs, UsedGrows
  <2>2. w \in Int
    BY <2>1, CountIs
  <2> HIDE DEF w
  <2>3. u \in Int /\ u <= w
    BY CountIs, UsedGrows DEF w
  <2> QED
    BY <2>2, <2>3, CountIs
<1>4. spent.streams <= u
  <2>1. spent.streams + 1 <= u \/ spent.streams <= u
    BY DEF Counted
  <2> HIDE DEF u
  <2> QED
    BY <1>3, <2>1
<1> HIDE DEF u
<1>5. spent.streams <= w
  <2> HIDE DEF w
  <2> QED
    BY <1>3, <1>4
<1> QED
  BY <1>2, <1>5 DEF Counted, Ended

(* Nor does the next endpoint.                                             *)
LEMMA CountNextEndpoint ==
    ASSUME StreamInv, Counted, NextEndpoint, call.at \in {"post", "read", "cut"},
           UNCHANGED <<ask, spent>>
    PROVE  Counted'
<1>1. CASE call.endpoint < ask.endpoints
  <2> DEFINE e == call.endpoint + 1
             u == Used(call.attempt, call.endpoint, call.try)
             w == Used(call.attempt, call.endpoint + 1, 1)
  <2>1. call' = [call EXCEPT !.at = "post", !.endpoint = e, !.try = 1]
    BY <1>1 DEF NextEndpoint
  <2>2. e \in 1..ask.endpoints
    BY <1>1, CountIs
  <2> HIDE DEF e
  <2>3. /\ call'.at = "post" /\ call'.attempt = call.attempt /\ call'.endpoint = e
        /\ call'.try = 1 /\ ask' = ask /\ spent' = spent
    BY <2>1, CountIs DEF Calls
  <2>4. u \in Int /\ u + 1 <= w /\ w \in Int /\ spent.streams \in Nat /\ 1 \in 1..StreamAttempts
    <3> DEFINE a == call.attempt
               f == call.endpoint
               t == call.try
    <3>1. /\ a \in Nat /\ f \in 1..NumEndpoints /\ t \in 1..StreamAttempts
          /\ spent.streams \in Nat /\ StreamAttempts \in Nat \ {0}
      BY CountIs
    <3> HIDE DEF a, f, t
    <3>2. Used(a, f, t) \in Int /\ Used(a, f + 1, 1) \in Int /\ Used(a, f, t) + 1 <= Used(a, f + 1, 1)
      BY <3>1, UsedGrows
    <3> QED
      BY <3>1, <3>2 DEF a, f, t
  <2>5. spent.streams <= u
    <3>1. spent.streams + 1 <= u \/ spent.streams <= u
      BY DEF Counted
    <3> HIDE DEF u
    <3> QED
      BY <2>4, <3>1
  <2> HIDE DEF u
  <2>7. spent.streams + 1 <= w
    <3> HIDE DEF w
    <3> QED
      BY <2>4, <2>5
  <2>8. spent.streams + 1 <= Used(call.attempt, e, 1)
    BY <2>7 DEF e
  <2>9. /\ call'.attempt <= MaxAttempts /\ call'.endpoint \in 1..ask'.endpoints
        /\ call'.try \in 1..StreamAttempts /\ spent'.events <= MaxEvents
    BY <2>2, <2>3, <2>4, CountIs
  <2>10. spent'.streams + 1 <= Used(call'.attempt, call'.endpoint, call'.try)
    BY <2>3, <2>8
  <2> QED
    BY <2>3, <2>9, <2>10 DEF Counted, Ended
<1>2. CASE ~(call.endpoint < ask.endpoints)
  BY <1>2, CountCallFails DEF NextEndpoint
<1> QED
  BY <1>1, <1>2

(* Every step keeps within the bounds.                                     *)
LEMMA CountSteps == StreamInv /\ Counted /\ [StreamsNext]_streamVars => Counted'
<1> SUFFICES ASSUME StreamInv, Counted, [StreamsNext]_streamVars
             PROVE  Counted'
  OBVIOUS
<1> DEFINE a == call.attempt
           e == call.endpoint
           t == call.try
           n == spent.streams
           w == Used(a + 1, 1, 0)
           x == Used(a + 2, 1, 0)
<1>1. /\ call \in Calls /\ a \in Nat /\ a <= MaxAttempts /\ e \in 1..ask.endpoints
      /\ e \in 1..NumEndpoints /\ t \in 1..StreamAttempts /\ n \in Nat
      /\ spent.events \in Nat /\ spent.events <= MaxEvents
      /\ spent \in [events : Nat, streams : Nat, charged : Seq(Nat)]
      /\ MaxAttempts \in Nat /\ MaxEvents \in Nat
      /\ 1 \in 1..ask.endpoints /\ 1 \in 1..StreamAttempts
  <2>1. /\ MaxAttempts \in Nat \ {0} /\ StreamAttempts \in Nat \ {0}
        /\ NumEndpoints \in Nat \ {0} /\ MaxEvents \in Nat \ {0}
    BY CountIs
  <2> QED
    BY <2>1, CountIs
<1>2. /\ Used(a, e, t) \in Int /\ w \in Nat /\ Used(a, e, t + 1) = Used(a, e, t) + 1
      /\ Used(a, e, t) <= w /\ w + 1 = Used(a + 1, 1, 1) /\ w <= x
  <2> HIDE DEF a, e, t
  <2> QED
    BY <1>1, UsedGrows
<1>14. x \in Nat
  <2> DEFINE b == a + 1
  <2>1. b \in Nat /\ b + 1 = a + 2
    BY <1>1
  <2> HIDE DEF b, a, e, t
  <2>2. Used(b, e, t) \in Int /\ Used(b + 1, 1, 0) \in Nat
    BY <1>1, <2>1, UsedGrows
  <2> QED
    BY <2>1, <2>2
<1>3. /\ call.at \in {"pick"} \cup Ended => n <= w
      /\ call.at = "post" => n + 1 <= Used(a, e, t)
      /\ call.at \in {"read", "cut"} => n <= Used(a, e, t)
  BY DEF Counted
<1> DEFINE u == Used(a, e, t)
<1> HIDE DEF w, x, u
<1>4. CASE NoAccountLeft
  <2>1. /\ call'.at = "refused" /\ call'.attempt = a /\ call'.endpoint = e /\ call'.try = t
        /\ spent' = spent /\ ask' = ask /\ call.at = "pick"
    BY <1>1, <1>4 DEF NoAccountLeft, Calls
  <2> QED
    BY <1>1, <1>3, <2>1 DEF Counted, Ended, w
<1>5. CASE AccountPicked
  <2> DEFINE b == a + 1
  <2>1. call' = [call EXCEPT !.at = "post", !.attempt = b, !.endpoint = 1, !.try = 1]
        /\ spent' = spent /\ ask' = ask /\ call.at = "pick" /\ a < MaxAttempts
    BY <1>5 DEF AccountPicked
  <2> HIDE DEF b
  <2>2. call'.at = "post" /\ call'.attempt = b /\ call'.endpoint = 1 /\ call'.try = 1
    BY <1>1, <2>1 DEF Calls
  <2>3. n + 1 <= Used(b, 1, 1)
    <3>1. n <= w
      BY <1>3, <2>1
    <3>2. n + 1 <= w + 1
      BY <1>1, <1>2, <3>1
    <3> QED
      BY <1>2, <3>2 DEF b
  <2>4. b <= MaxAttempts
    BY <1>1, <2>1 DEF b
  <2> QED
    BY <1>1, <2>1, <2>2, <2>3, <2>4 DEF Counted, Ended
<1>6. CASE TokenFails
  <2> DEFINE b == a + 1
  <2>1. call' = [call EXCEPT !.attempt = b]
        /\ spent' = spent /\ ask' = ask /\ call.at = "pick" /\ a < MaxAttempts
    BY <1>6 DEF TokenFails
  <2>4. b <= MaxAttempts /\ b + 1 = a + 2
    BY <1>1, <2>1
  <2> HIDE DEF b
  <2>2. call'.at = "pick" /\ call'.attempt = b /\ call'.endpoint = e /\ call'.try = t
    BY <1>1, <2>1 DEF Calls
  <2>3. n <= Used(b + 1, 1, 0)
    <3>1. n <= w
      BY <1>3, <2>1
    <3>2. n <= x
      BY <1>1, <1>2, <1>14, <3>1
    <3> QED
      BY <2>4, <3>2 DEF x
  <2> QED
    BY <1>1, <2>1, <2>2, <2>3, <2>4 DEF Counted, Ended
<1>7. CASE EndpointFails
  BY <1>7, CountNextEndpoint DEF EndpointFails
<1>8. CASE CallRefused
  BY <1>8, CountCallFails DEF CallRefused
<1>9. CASE StreamOpens
  <2> DEFINE m == n + 1
             no == FALSE
  <2>1. call' = [call EXCEPT !.at = "read", !.emitted = no, !.sawOutput = no, !.tool = NoTool]
        /\ spent' = [spent EXCEPT !.streams = m] /\ ask' = ask /\ call.at = "post"
    BY <1>9 DEF StreamOpens
  <2>5. m \in Nat
    BY <1>1
  <2> HIDE DEF m, no
  <2>2. call'.at = "read" /\ call'.attempt = a /\ call'.endpoint = e /\ call'.try = t
    BY <1>1, <2>1 DEF Calls
  <2>3. spent'.streams = m /\ spent'.events = spent.events
    BY <1>1, <2>1
  <2>4. m <= Used(a, e, t)
    BY <1>3, <2>1 DEF m
  <2> QED
    BY <1>1, <2>1, <2>2, <2>3, <2>4 DEF Counted, Ended
<1>10. CASE \/ ReadBreaks \/ StreamEnds \/ TextArrives \/ ToolArrives
  <2>1. /\ call'.attempt = a /\ call'.endpoint = e /\ call'.try = t
        /\ call'.at \in {"read", "cut", "done"} /\ call.at = "read"
    <3>1. CASE ReadBreaks
      BY <1>1, <3>1 DEF ReadBreaks, Calls
    <3>2. CASE StreamEnds
      <4>1. PICK at \in {"done", "cut"} : call' = [call EXCEPT !.at = at]
        BY <3>2 DEF StreamEnds
      <4> QED
        BY <1>1, <3>2, <4>1 DEF StreamEnds, Calls
    <3>3. CASE TextArrives
      BY <1>1, <3>3 DEF TextArrives, Reading, Calls
    <3>4. CASE ToolArrives
      <4>1. PICK at \in {"read", "cut"} : \E tool, emitted, saw :
               call' = [call EXCEPT !.at = at, !.tool = tool, !.emitted = emitted,
                                    !.sawOutput = saw]
        <5>1. call.at = "read"
          BY <3>4 DEF ToolArrives, Reading
        <5>2. PICK f \in ToolEvents :
                 LET tool == Receiving(call.tool, f)
                     bad  == \/ StartsAnother(call.tool, f) /\ ~Finishable(call.tool)
                             \/ f.stop /\ tool # NoTool /\ ~Finishable(tool)
                     some == ToolsShown(f) # <<>>
                 IN  call' = [call EXCEPT !.at = IF bad THEN "cut" ELSE @,
                                          !.tool = IF f.stop THEN NoTool ELSE tool,
                                          !.emitted = @ \/ some,
                                          !.sawOutput = @ \/ some]
          BY <3>4 DEF ToolArrives
        <5> QED
          BY <5>1, <5>2
      <4> QED
        BY <1>1, <3>4, <4>1 DEF ToolArrives, Reading, Calls
    <3> QED
      BY <1>10, <3>1, <3>2, <3>3, <3>4
  <2>2. ask' = ask /\ spent'.streams = n /\ spent'.events <= MaxEvents
    <3>1. CASE ReadBreaks
      BY <1>1, <3>1 DEF ReadBreaks
    <3>2. CASE StreamEnds
      <4>1. PICK charged : spent' = [spent EXCEPT !.charged = charged] \/ spent' = spent
        BY <3>2 DEF StreamEnds
      <4> QED
        BY <1>1, <3>2, <4>1 DEF StreamEnds
    <3>3. CASE TextArrives \/ ToolArrives
      <4> DEFINE m == spent.events + 1
      <4>1. spent' = [spent EXCEPT !.events = m] /\ spent.events < MaxEvents /\ ask' = ask
        BY <3>3 DEF TextArrives, ToolArrives, Reading
      <4>2. m <= MaxEvents
        BY <1>1, <4>1
      <4> HIDE DEF m
      <4> QED
        BY <1>1, <4>1, <4>2
    <3> QED
      BY <1>10, <3>1, <3>2, <3>3
  <2>3. n <= Used(a, e, t)
    BY <1>3, <2>1
  <2>4. n <= w
    BY <1>1, <1>2, <2>3 DEF u
  <2>5. n <= Used(call'.attempt + 1, 1, 0) /\ n <= Used(call'.attempt, call'.endpoint, call'.try)
    BY <2>1, <2>3, <2>4 DEF w
  <2> QED
    BY <1>1, <2>1, <2>2, <2>5 DEF Counted, Ended
<1>11. CASE ReadTimesOut
  BY <1>11, CountCallFails DEF ReadTimesOut
<1>12. CASE StreamCut
  <2>1. CASE CallFails \/ NextEndpoint
    BY <1>12, <2>1, CountCallFails, CountNextEndpoint DEF StreamCut
  <2>2. CASE ~(CallFails \/ NextEndpoint)
    <3> DEFINE s == t + 1
    <3>1. /\ call' = [call EXCEPT !.at = "post", !.try = s] /\ spent' = spent /\ ask' = ask
          /\ call.at = "cut" /\ t < StreamAttempts
      BY <1>12, <2>2 DEF StreamCut
    <3>2. s \in 1..StreamAttempts
      BY <1>1, <3>1, CountIs
    <3> HIDE DEF s
    <3>3. call'.at = "post" /\ call'.attempt = a /\ call'.endpoint = e /\ call'.try = s
      BY <1>1, <3>1 DEF Calls
    <3>4. n + 1 <= Used(a, e, s)
      <4>1. n <= u
        BY <1>3, <3>1 DEF u
      <4>2. n + 1 <= u + 1 /\ Used(a, e, s) = u + 1
        BY <1>1, <1>2, <4>1 DEF u, s
      <4> QED
        BY <4>2
    <3> QED
      BY <1>1, <3>1, <3>2, <3>3, <3>4 DEF Counted, Ended
  <2> QED
    BY <2>1, <2>2
<1>13. CASE UNCHANGED streamVars
  BY <1>13 DEF streamVars, Counted
<1> QED
  BY <1>4, <1>5, <1>6, <1>7, <1>8, <1>9, <1>10, <1>11, <1>12, <1>13 DEF StreamsNext

(* The variables of a request have their types, and it opens no more       *)
(* streams than its attempts, endpoints and tries allow (StreamsTypeOK).   *)
THEOREM StreamsTypes == StreamsSpec => []StreamsTypeOK
<1>1. StreamInv /\ Counted => StreamsTypeOK
  <2> SUFFICES ASSUME StreamInv, Counted
               PROVE  StreamsTypeOK
    OBVIOUS
  <2>1. spent.streams <= MaxAttempts * NumEndpoints * StreamAttempts
    <3> DEFINE a == call.attempt
               P == NumEndpoints * StreamAttempts
               w == Used(a + 1, 1, 0)
               u == Used(a, call.endpoint, call.try)
               n == spent.streams
    <3>1. /\ a \in Nat /\ a <= MaxAttempts /\ call.endpoint \in 1..NumEndpoints
          /\ call.try \in 1..StreamAttempts /\ n \in Nat
          /\ MaxAttempts \in Nat /\ NumEndpoints \in Nat /\ StreamAttempts \in Nat
      BY CountIs
    <3>2. u \in Int /\ w \in Nat /\ u <= w /\ w = a * P
      BY <3>1, UsedGrows
    <3>3. n <= w \/ n <= u \/ n + 1 <= u
      BY DEF Counted, StreamInv, RequestTyped, Calls, Ended
    <3>4. P \in Nat /\ MaxAttempts * NumEndpoints * StreamAttempts = MaxAttempts * P
      BY <3>1
    <3> HIDE DEF a, P, w, u, n
    <3>5. n <= w
      BY <3>1, <3>2, <3>3
    <3>6. a * P <= MaxAttempts * P
      <4>1. PICK d \in Nat : MaxAttempts = a + d
        <5>1. MaxAttempts - a \in Nat /\ MaxAttempts = a + (MaxAttempts - a)
          BY <3>1
        <5> QED
          BY <5>1
      <4>2. MaxAttempts * P = a * P + d * P /\ d * P \in Nat /\ a * P \in Nat
        BY <3>1, <3>4, <4>1
      <4> QED
        BY <4>2
    <3>7. n <= MaxAttempts * P
      BY <3>1, <3>2, <3>4, <3>5, <3>6
    <3> QED
      BY <3>4, <3>7 DEF n
  <2>2. /\ ask \in Asks /\ call.at \in {"pick", "post", "read", "cut"} \cup Ended
        /\ call.attempt \in 0..MaxAttempts /\ call.endpoint \in 1..NumEndpoints
        /\ call.try \in 1..StreamAttempts /\ spent.events \in 0..MaxEvents
    <3>1. call.at \in {"pick", "post", "read", "cut"} \cup Ended
      BY DEF StreamInv, RequestTyped, Calls, Ended
    <3>2. MaxAttempts \in Nat \ {0} /\ MaxEvents \in Nat \ {0}
      BY CountIs
    <3> QED
      BY <3>1, <3>2, CountIs
  <2>3. view.out = <<>> /\ (view.begun => wire # <<>> /\ ask.client # "buffered")
    <3>1. CASE call.at \in {"pick", "post"}
      BY <3>1 DEF StreamInv, NothingYet
    <3>2. CASE call.at \in {"read", "cut"}
      <4>1. RequestTyped /\ UnderwayIn(spent.streams)
        BY <3>2 DEF StreamInv
      <4> QED
        BY <4>1, UnderwayIs DEF SoFar, UnderwayIn
    <3>3. CASE call.at = "done"
      BY <3>3 DEF StreamInv, AnsweredFrom
    <3>4. CASE call.at \in {"broken", "refused"}
      BY <3>4 DEF StreamInv, LeftInOrder
    <3> QED
      BY <2>2, <3>1, <3>2, <3>3, <3>4 DEF Ended
  <2> QED
    BY <2>1, <2>2, <2>3 DEF StreamsTypeOK
<1>2. StreamsSpec => []Counted
  BY CountStarts, CountSteps, StreamsKeep, PTL DEF StreamsSpec
<1> QED
  BY <1>1, <1>2, StreamsKeep, PTL
=============================================================================
