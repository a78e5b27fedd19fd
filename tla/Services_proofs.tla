------------------------------ MODULE Services_proofs ------------------------------
(***************************************************************************)
(* Proofs about four services that share nothing but the failures around   *)
(* them: the conversation memory (SessionMemory), the dialogue with the    *)
(* database (Nl2sqlDialogue), the case library (CaseLibrary) and the       *)
(* knowledge graph (GraphSync).  Each has its inductive invariant.         *)
(***************************************************************************)
EXTENDS SessionMemory, Nl2sqlDialogue, CaseLibrary, GraphSync, SequenceTheorems,
        FiniteSetTheorems, WellFoundedInduction, TLAPS

LEMMA SmallestOf ==
    ASSUME NEW T \in SUBSET Nat, T # {}
    PROVE  \E x \in T : \A y \in T : x <= y
<1> DEFINE R == {ss \in Nat \X Nat : ss[1] < ss[2]}
<1>1. IsWellFoundedOn(R, Nat)
  BY NatLessThanWellFounded DEF OpToRel
<1>2. \E x \in T : \A y \in T : ~ (<<y, x>> \in R)
  <2> HIDE DEF R
  <2> QED BY <1>1, WFMin, Zenon
<1>3. PICK x \in T : \A y \in T : ~ (<<y, x>> \in R)
  BY <1>2
<1>4. \A y \in T : x <= y
  <2> TAKE y \in T
  <2>1. x \in Nat /\ y \in Nat
    OBVIOUS
  <2>2. <<y, x>> \notin R
    BY <1>3
  <2>3. ~ (y < x)
    BY <2>1, <2>2
  <2> QED BY <2>1, <2>3
<1> QED BY <1>4

LEMMA LargestOf ==
    ASSUME NEW T \in SUBSET Nat, T # {}, NEW n \in Nat, \A t \in T : t <= n
    PROVE  \E x \in T : \A y \in T : x >= y
<1> DEFINE D == {n - t : t \in T}
<1>1. D \in SUBSET Nat /\ D # {}
  <2>1. \A t \in T : n - t \in Nat
    OBVIOUS
  <2>2. D \subseteq Nat
    BY <2>1
  <2>3. D # {}
    OBVIOUS
  <2> QED BY <2>2, <2>3
<1>2. PICK d \in D : \A e \in D : d <= e
  BY <1>1, SmallestOf
<1>3. PICK x \in T : d = n - x
  BY <1>2
<1>4. \A y \in T : x >= y
  <2> TAKE y \in T
  <2>1. n - y \in D
    OBVIOUS
  <2>2. d <= n - y
    BY <1>2, <2>1
  <2> HIDE DEF D
  <2> QED BY <1>3, <2>2
<1> QED BY <1>4
-----------------------------------------------------------------------------
\* A turn that is open has messages left to append.
OpenTurns ==
    [at : {"get", "set", "row"}, no : Nat,
     todo : {<<"user">>, <<"assistant">>, <<"user", "assistant">>},
     context : Contexts \cup {None}, cached : SessionKeys \cup {None}]
Utterances == [message : [no : Nat, role : Speakers], context : Contexts \cup {None}]

Fits(session) == session # None => Len(session.messages) <= Kept

MemoryTyped ==
    /\ inRedis \in SessionKeys \cup {None} /\ Fits(inRedis)
    /\ summaryRow \in SummaryRows \cup {None}
    /\ turn \in [Requests -> OpenTurns \cup {NoTurn}]
    /\ \A r \in Requests : Fits(turn[r].cached)
    /\ turns \in Nat
    /\ said \in Seq(Utterances)

\* What of the history the key has to hold.
Window(history) ==
    LET n == IF Len(history) < Kept THEN Len(history) ELSE Kept
    IN  [i \in 1..n |-> history[Len(history) - n + i].message]
LastNamed(history) ==
    LET named == {i \in DOMAIN history : history[i].context # None}
    IN  IF named = {} THEN None
        ELSE history[CHOOSE i \in named : \A j \in named : j <= i].context

MessagesOf(session) == IF session = None THEN <<>> ELSE session.messages
Follows ==
    /\ inRedis = None => said = <<>>
    /\ MessagesOf(inRedis) = Window(said) /\ ContextOf(inRedis) = LastNamed(said)

\* One turn at a time: what it read is what is there, until it has written.
OneTurn == \A q, r \in Requests : InTurn(q) /\ InTurn(r) => q = r
ReadIsNow == \A r \in Requests : turn[r].at = "set" => turn[r].cached = inRedis
WrittenIsNow == \A r \in Requests : turn[r].at = "row" => inRedis = Extended(turn[r])

RowAgrees(session) ==
    session # None =>
        /\ summaryRow # None /\ summaryRow.count = session.count
        /\ session.count <= Kept + 1
        /\ session.summary # None => summaryRow.summary = session.summary
\* Between its two writes a turn leaves the row with what the key said before.
CopiesAgree ==
    /\ (\A r \in Requests : turn[r].at # "row") => RowAgrees(inRedis)
    /\ \A r \in Requests : turn[r].at = "row" => RowAgrees(turn[r].cached)

MemoryInv ==
    /\ MemoryTyped
    /\ ~ overlapped => OneTurn /\ ReadIsNow /\ WrittenIsNow /\ Follows /\ (~ torn => CopiesAgree)

LEMMA TurnShape ==
    ASSUME NEW t \in OpenTurns \cup {NoTurn}
    PROVE  /\ t # NoTurn <=> t \in OpenTurns
           /\ t.at # "free" <=> t \in OpenTurns
           /\ NoTurn.at = "free" /\ NoTurn.cached = None
           /\ t.cached \in SessionKeys \cup {None}
BY DEF OpenTurns, NoTurn

\* The window of a history that grows by one.
LEMMA WindowGrows ==
    ASSUME NEW h \in Seq(Utterances), NEW u \in Utterances
    PROVE  LastOf(Append(Window(h), u.message), Kept) = Window(Append(h, u))
<1>1. PICK k \in Nat : k = Kept /\ k # 0
  BY MemoryAssumption
<1>2. PICK len \in Nat : len = Len(h) /\ DOMAIN h = 1..len
  OBVIOUS
<1>3. PICK g : g = Append(h, u)
  OBVIOUS
<1>4. Len(g) = len + 1 /\ g[len + 1] = u /\ \A i \in 1..len : g[i] = h[i]
  BY <1>2, <1>3
<1>5. PICK w : w = Window(h)
  OBVIOUS
<1> DEFINE M == [no : Nat, role : Speakers]
<1>6. u.message \in M /\ \A i \in 1..len : h[i].message \in M
  <2>1. \A i \in 1..len : h[i] \in Utterances
    BY <1>2
  <2>2. \A v \in Utterances : v.message \in M
    BY DEF Utterances
  <2> QED BY <2>1, <2>2
<1> HIDE DEF M
<1>7. CASE len < k
  <2>1. w = [i \in 1..len |-> h[len - len + i].message]
    BY <1>1, <1>2, <1>5, <1>7 DEF Window
  <2>2. w \in Seq(M) /\ Len(w) = len /\ \A i \in 1..len : w[i] = h[i].message
    BY <1>6, <2>1
  <2>3. Append(w, u.message) \in Seq(M) /\ Len(Append(w, u.message)) = len + 1
    BY <1>6, <2>2
  <2>4. LastOf(Append(w, u.message), Kept) = Append(w, u.message)
    BY <1>1, <1>7, <2>3 DEF LastOf
  <2>5. Window(g) = [i \in 1..(len + 1) |-> g[(len + 1) - (len + 1) + i].message]
    BY <1>1, <1>4, <1>7 DEF Window
  <2>6. \A i \in 1..(len + 1) : Append(w, u.message)[i] = g[(len + 1) - (len + 1) + i].message
    BY <1>4, <2>2
  <2>7. Append(w, u.message) = [i \in 1..(len + 1) |-> Append(w, u.message)[i]]
    BY <2>3
  <2> QED BY <1>3, <1>5, <2>4, <2>5, <2>6, <2>7
<1>8. CASE len >= k
  <2>1. w = [i \in 1..k |-> h[len - k + i].message]
    BY <1>1, <1>2, <1>5, <1>8 DEF Window
  <2>2. \A i \in 1..k : len - k + i \in 1..len
    BY <1>8
  <2>3. w \in Seq(M) /\ Len(w) = k /\ \A i \in 1..k : w[i] = h[len - k + i].message
    <3>1. \A i \in 1..k : w[i] = h[len - k + i].message
      BY <2>1
    <3>2. \A i \in 1..k : w[i] \in M
      BY <1>6, <2>2, <3>1
    <3>3. w \in [1..k -> M]
      BY <2>1, <3>2
    <3> QED BY <3>1, <3>3
  <2>4. PICK a : a = Append(w, u.message)
    OBVIOUS
  <2>5. a \in Seq(M) /\ Len(a) = k + 1 /\ a[k + 1] = u.message /\ \A i \in 1..k : a[i] = w[i]
    BY <1>6, <2>3, <2>4
  <2>6. LastOf(a, Kept) = SubSeq(a, 2, k + 1)
    BY <1>1, <2>5 DEF LastOf
  <2>7. SubSeq(a, 2, k + 1) = [i \in 1..k |-> a[i + 1]]
    BY <1>1, <2>5
  <2>8. Window(g) = [i \in 1..k |-> g[(len + 1) - k + i].message]
    BY <1>1, <1>4, <1>8 DEF Window
  <2>9. \A i \in 1..k : a[i + 1] = g[(len + 1) - k + i].message
    <3> TAKE i \in 1..k
    <3>1. CASE i = k
      BY <1>4, <2>5, <3>1
    <3>2. CASE i < k
      <4>1. i + 1 \in 1..k /\ a[i + 1] = h[len - k + (i + 1)].message
        <5>1. i + 1 \in 1..k
          BY <3>2
        <5> QED BY <2>3, <2>5, <5>1
      <4>2. len - k + (i + 1) \in 1..len /\ (len + 1) - k + i = len - k + (i + 1)
        BY <1>8, <3>2
      <4> QED BY <1>4, <4>1, <4>2
    <3> QED BY <3>1, <3>2
  <2> QED BY <1>3, <1>5, <2>4, <2>6, <2>7, <2>8, <2>9
<1> QED BY <1>1, <1>7, <1>8

LEMMA LastNamedGrows ==
    ASSUME NEW h \in Seq(Utterances), NEW u \in Utterances
    PROVE  Merge(LastNamed(h), u.context) = LastNamed(Append(h, u))
<1>1. PICK len \in Nat : len = Len(h) /\ DOMAIN h = 1..len
  OBVIOUS
<1>2. PICK g : g = Append(h, u)
  OBVIOUS
<1>3. DOMAIN g = 1..(len + 1) /\ g[len + 1] = u /\ \A i \in 1..len : g[i] = h[i]
  BY <1>1, <1>2
<1> DEFINE old == {i \in DOMAIN h : h[i].context # None}
           new == {i \in DOMAIN g : g[i].context # None}
<1>4. CASE u.context = None
  <2>1. new = old
    BY <1>1, <1>3, <1>4
  <2>2. CASE old = {}
    BY <1>2, <1>4, <2>1, <2>2 DEF LastNamed, Merge
  <2>3. CASE old # {}
    <3>1. PICK m : m = CHOOSE i \in old : \A j \in old : j <= i
      OBVIOUS
    <3>2. LastNamed(h) = h[m].context /\ LastNamed(g) = g[m].context
      BY <2>1, <2>3, <3>1 DEF LastNamed
    <3>3. old \in SUBSET Nat /\ \A i \in old : i <= len
      BY <1>1
    <3>4. \E i \in old : \A j \in old : i >= j
      <4> HIDE DEF old
      <4> QED BY <2>3, <3>3, LargestOf
    <3>5. \E i \in old : \A j \in old : j <= i
      BY <3>3, <3>4
    <3>6. m \in old
      <4> HIDE DEF old
      <4> QED BY <3>1, <3>5
    <3>7. g[m] = h[m]
      BY <1>1, <1>3, <3>6
    <3> QED BY <1>2, <1>4, <3>2, <3>7 DEF Merge
  <2> QED BY <2>2, <2>3
<1>5. CASE u.context # None
  <2>1. len + 1 \in new /\ \A j \in new : j \in Nat /\ j <= len + 1
    BY <1>3, <1>5
  <2>2. PICK m : m = CHOOSE i \in new : \A j \in new : j <= i
    OBVIOUS
  <2>3. m \in new /\ \A j \in new : j <= m
    <3> HIDE DEF new
    <3> QED BY <2>1, <2>2
  <2>4. m = len + 1
    <3> HIDE DEF new
    <3> QED BY <2>1, <2>3
  <2>5. LastNamed(g) = g[m].context
    BY <2>1, <2>2 DEF LastNamed
  <2> QED BY <1>2, <1>3, <1>5, <2>4, <2>5 DEF Merge
<1> QED BY <1>4, <1>5

LEMMA MemoryStarts == MemoryInit => MemoryInv
<1> SUFFICES ASSUME MemoryInit PROVE MemoryInv
  OBVIOUS
<1>1. \A r \in Requests : turn[r] = NoTurn /\ turn[r].at = "free" /\ turn[r].cached = None
  BY DEF MemoryInit, NoTurn
<1>2. MemoryTyped
  BY <1>1 DEF MemoryInit, MemoryTyped, Fits
<1>3. OneTurn /\ ReadIsNow /\ WrittenIsNow
  BY <1>1 DEF OneTurn, ReadIsNow, WrittenIsNow, InTurn
<1>4. Follows
  <2>1. said = <<>> /\ inRedis = None /\ Len(said) = 0 /\ DOMAIN said = {}
    BY DEF MemoryInit
  <2>2. Window(said) = <<>>
    <3>1. Window(said) = [i \in 1..0 |-> said[Len(said) - 0 + i].message]
      BY <2>1, MemoryAssumption DEF Window
    <3> QED BY <3>1
  <2>3. LastNamed(said) = None
    BY <2>1 DEF LastNamed
  <2> QED BY <2>1, <2>2, <2>3 DEF Follows, MessagesOf, ContextOf
<1>5. CopiesAgree
  BY <1>1 DEF MemoryInit, CopiesAgree, RowAgrees
<1> QED BY <1>2, <1>3, <1>4, <1>5 DEF MemoryInv

LEMMA OtherTurns ==
    ASSUME OneTurn, NEW r \in Requests, turn[r].at # "free"
    PROVE  \A q \in Requests : q # r => turn[q] = NoTurn /\ turn[q].at = "free"
BY DEF OneTurn, InTurn, NoTurn

LEMMA TurnStarts ==
    ASSUME MemoryInv, NEW r \in Requests, NEW todo \in {<<"user">>, <<"assistant">>, <<"user", "assistant">>},
           NEW context \in Contexts \cup {None}, StartTurn(r, todo, context)
    PROVE  MemoryInv'
<1>1. /\ UNCHANGED <<inRedis, summaryRow, said, torn>> /\ turns' = turns + 1
      /\ overlapped' = (overlapped \/ Someone)
  BY DEF StartTurn
<1>2. PICK t : /\ t = [at |-> "get", no |-> turns + 1, todo |-> todo, context |-> context, cached |-> None]
               /\ turn' = [turn EXCEPT ![r] = t]
  BY DEF StartTurn
<1>3. t \in OpenTurns /\ t.at = "get" /\ t.cached = None /\ turns' \in Nat
  <2>1. turns + 1 \in Nat
    BY DEF MemoryInv, MemoryTyped
  <2> QED BY <1>1, <1>2, <2>1 DEF OpenTurns
<1>4. turn'[r] = t /\ \A q \in Requests : q # r => turn'[q] = turn[q]
  BY <1>2 DEF MemoryInv, MemoryTyped
<1>5. MemoryTyped'
  <2>1. turn' \in [Requests -> OpenTurns \cup {NoTurn}]
    BY <1>2, <1>3 DEF MemoryInv, MemoryTyped
  <2>2. \A q \in Requests : Fits(turn'[q].cached)
    BY <1>3, <1>4 DEF MemoryInv, MemoryTyped, Fits
  <2> QED BY <1>1, <1>3, <2>1, <2>2 DEF MemoryInv, MemoryTyped, Fits
<1>6. ASSUME ~ overlapped'
      PROVE  (OneTurn /\ ReadIsNow /\ WrittenIsNow /\ Follows /\ (~ torn => CopiesAgree))'
  <2>1. ~ overlapped /\ \A q \in Requests : turn[q] = NoTurn
    BY <1>1, <1>6 DEF Someone, InTurn
  <2>2. \A q \in Requests : turn[q].at = "free" /\ (q # r => turn'[q] = NoTurn /\ turn'[q].at = "free")
    BY <1>4, <2>1 DEF NoTurn
  <2>3. OneTurn' /\ ReadIsNow' /\ WrittenIsNow'
    <3>1. \A q \in Requests : turn'[q].at \notin {"set", "row"}
      BY <1>3, <1>4, <2>2
    <3> QED BY <2>2, <3>1 DEF OneTurn, ReadIsNow, WrittenIsNow, InTurn
  <2>4. Follows'
    BY <1>1, <2>1 DEF MemoryInv, Follows, MessagesOf, ContextOf, Window, LastNamed
  <2>5. ~ torn' => CopiesAgree'
    BY <1>1, <1>3, <1>4, <2>1, <2>2 DEF MemoryInv, CopiesAgree, RowAgrees
  <2> QED BY <2>3, <2>4, <2>5
<1> QED BY <1>5, <1>6 DEF MemoryInv

LEMMA KeyRead ==
    ASSUME MemoryInv, NEW r \in Requests, GetKey(r)
    PROVE  MemoryInv'
<1>1. turn[r].at = "get" /\ UNCHANGED <<inRedis, summaryRow, turns, said, overlapped, torn>>
  BY DEF GetKey
<1>2. turn[r] \in OpenTurns
  BY <1>1, TurnShape DEF MemoryInv, MemoryTyped
<1>3. PICK t : t = [turn[r] EXCEPT !.at = "set", !.cached = inRedis]
  OBVIOUS
<1>4. t \in OpenTurns /\ t.at = "set" /\ t.cached = inRedis
  BY <1>2, <1>3 DEF OpenTurns, MemoryInv, MemoryTyped
<1>5. turn' = [turn EXCEPT ![r] = t]
  BY <1>3 DEF GetKey
<1>6. turn'[r] = t /\ \A q \in Requests : q # r => turn'[q] = turn[q]
  BY <1>5 DEF MemoryInv, MemoryTyped
<1>7. MemoryTyped'
  <2>1. turn' \in [Requests -> OpenTurns \cup {NoTurn}]
    BY <1>4, <1>5 DEF MemoryInv, MemoryTyped
  <2>2. \A q \in Requests : Fits(turn'[q].cached)
    BY <1>4, <1>6 DEF MemoryInv, MemoryTyped, Fits
  <2> QED BY <1>1, <2>1, <2>2 DEF MemoryInv, MemoryTyped, Fits
<1>8. ASSUME ~ overlapped'
      PROVE  (OneTurn /\ ReadIsNow /\ WrittenIsNow /\ Follows /\ (~ torn => CopiesAgree))'
  <2>1. OneTurn /\ Follows /\ (~ torn => CopiesAgree)
    BY <1>1, <1>8 DEF MemoryInv
  <2>2. \A q \in Requests : q # r => turn'[q] = NoTurn /\ turn'[q].at = "free" /\ turn[q].at = "free"
    BY <1>1, <1>6, <2>1, OtherTurns
  <2>3. OneTurn' /\ ReadIsNow' /\ WrittenIsNow'
    BY <1>1, <1>4, <1>6, <2>2 DEF OneTurn, ReadIsNow, WrittenIsNow, InTurn
  <2>4. Follows'
    BY <1>1, <2>1 DEF Follows, MessagesOf, ContextOf, Window, LastNamed
  <2>5. ~ torn' => CopiesAgree'
    BY <1>1, <1>4, <1>6, <2>1, <2>2 DEF CopiesAgree, RowAgrees
  <2> QED BY <2>3, <2>4, <2>5
<1> QED BY <1>7, <1>8 DEF MemoryInv

LEMMA LastOfFits ==
    ASSUME NEW M, NEW s \in Seq(M)
    PROVE  LastOf(s, Kept) \in Seq(M) /\ Len(LastOf(s, Kept)) <= Kept
<1>1. PICK k \in Nat : k = Kept /\ k # 0
  BY MemoryAssumption
<1>2. PICK n \in Nat : n = Len(s)
  OBVIOUS
<1>3. CASE n <= k
  BY <1>1, <1>2, <1>3 DEF LastOf
<1>4. CASE n > k
  <2>1. LastOf(s, Kept) = SubSeq(s, n - k + 1, n)
    BY <1>1, <1>2, <1>4 DEF LastOf
  <2>2. n - k + 1 \in 1..n
    BY <1>1, <1>4
  <2>3. SubSeq(s, n - k + 1, n) \in Seq(M) /\ Len(SubSeq(s, n - k + 1, n)) = k
    BY <1>2, <2>2
  <2> QED BY <1>1, <2>1, <2>3
<1> QED BY <1>3, <1>4

\* What a turn writes to Redis.
LEMMA ExtendedType ==
    ASSUME NEW t \in OpenTurns, Fits(t.cached)
    PROVE  /\ Extended(t) \in SessionKeys /\ Extended(t) # None /\ Fits(Extended(t))
           /\ Message(t) \in [no : Nat, role : Speakers]
           /\ Extended(t).messages = LastOf(Append(MessagesOf(t.cached), Message(t)), Kept)
           /\ Extended(t).context = Merge(ContextOf(t.cached), t.context)
           /\ Extended(t).count = Len(Messages(t)) /\ Len(Messages(t)) \in Nat /\ Len(Messages(t)) <= Kept + 1
           /\ Extended(t).summary = IF Summary(t) # None THEN Summary(t)
                                    ELSE IF t.cached = None THEN None ELSE t.cached.summary
           /\ Summary(t) \in Nat \cup {None}
<1> DEFINE M == [no : Nat, role : Speakers]
<1>1. Head(t.todo) \in Speakers /\ t.no \in Nat
  BY DEF OpenTurns, Speakers
<1>2. Message(t) \in M /\ Summary(t) \in Nat \cup {None}
  BY <1>1 DEF Message, Summary
<1> HIDE DEF M
<1>3. PICK k \in Nat : k = Kept /\ k # 0
  BY MemoryAssumption
<1>4. t.cached \in SessionKeys \cup {None} /\ t.context \in Contexts \cup {None}
  BY DEF OpenTurns
<1>5. MessagesOf(t.cached) \in Seq(M) /\ Len(MessagesOf(t.cached)) <= k
  BY <1>3, <1>4 DEF MessagesOf, SessionKeys, M, Fits
<1>6. Messages(t) = Append(MessagesOf(t.cached), Message(t))
  BY DEF Messages, MessagesOf
<1>7. Messages(t) \in Seq(M) /\ Len(Messages(t)) \in Nat /\ Len(Messages(t)) <= k + 1
  BY <1>2, <1>5, <1>6
<1>8. LastOf(Messages(t), Kept) \in Seq(M) /\ Len(LastOf(Messages(t), Kept)) <= Kept
  BY <1>7, LastOfFits
<1>9. Merge(ContextOf(t.cached), t.context) \in Contexts \cup {None}
  BY <1>4 DEF Merge, ContextOf, SessionKeys
<1> DEFINE sum == IF Summary(t) # None THEN Summary(t)
                  ELSE IF t.cached = None THEN None ELSE t.cached.summary
<1>10. sum \in Nat \cup {None}
  BY <1>2, <1>4 DEF SessionKeys
<1>11. Extended(t) = [messages |-> LastOf(Messages(t), Kept), count |-> Len(Messages(t)),
                      context |-> Merge(ContextOf(t.cached), t.context), summary |-> sum]
  BY DEF Extended
<1>12. Extended(t) \in SessionKeys
  <2> HIDE DEF sum
  <2> QED BY <1>7, <1>8, <1>9, <1>10, <1>11 DEF SessionKeys, M
<1>13. Extended(t) # None
  BY <1>12, MemoryAssumption
<1> QED BY <1>2, <1>3, <1>6, <1>7, <1>8, <1>11, <1>12, <1>13 DEF M, Fits

LEMMA KeyWritten ==
    ASSUME MemoryInv, NEW r \in Requests, SetKey(r)
    PROVE  MemoryInv'
<1>1. /\ turn[r].at = "set" /\ inRedis' = Extended(turn[r])
      /\ UNCHANGED <<summaryRow, turns, overlapped, torn>>
  BY DEF SetKey
<1>2. turn[r] \in OpenTurns /\ Fits(turn[r].cached)
  BY <1>1, TurnShape DEF MemoryInv, MemoryTyped
<1>3. PICK u : u = [message |-> Message(turn[r]), context |-> turn[r].context]
  OBVIOUS
<1>4. u \in Utterances
  <2>1. turn[r].context \in Contexts \cup {None}
    BY <1>2 DEF OpenTurns
  <2> QED BY <1>2, <1>3, <2>1, ExtendedType DEF Utterances
<1>5. said' = IF overlapped THEN <<>> ELSE Append(said, u)
  BY <1>3 DEF SetKey
<1>6. PICK t : t = [turn[r] EXCEPT !.at = "row"]
  OBVIOUS
<1>7. t \in OpenTurns /\ t.at = "row" /\ t.cached = turn[r].cached /\ t.no = turn[r].no
      /\ t.todo = turn[r].todo /\ t.context = turn[r].context
  BY <1>2, <1>6 DEF OpenTurns
<1>8. turn' = [turn EXCEPT ![r] = t]
  BY <1>6 DEF SetKey
<1>9. turn'[r] = t /\ \A q \in Requests : q # r => turn'[q] = turn[q]
  BY <1>8 DEF MemoryInv, MemoryTyped
<1>10. Extended(t) = Extended(turn[r])
  BY <1>7 DEF Extended, Messages, Message, Summary
<1>11. MemoryTyped'
  <2>1. turn' \in [Requests -> OpenTurns \cup {NoTurn}]
    BY <1>7, <1>8 DEF MemoryInv, MemoryTyped
  <2>2. \A q \in Requests : Fits(turn'[q].cached)
    BY <1>2, <1>7, <1>9 DEF MemoryInv, MemoryTyped
  <2>3. said' \in Seq(Utterances)
    BY <1>4, <1>5 DEF MemoryInv, MemoryTyped
  <2>4. inRedis' \in SessionKeys /\ Fits(inRedis')
    BY <1>1, <1>2, ExtendedType
  <2> QED BY <1>1, <2>1, <2>2, <2>3, <2>4 DEF MemoryInv, MemoryTyped
<1>12. ASSUME ~ overlapped'
       PROVE  (OneTurn /\ ReadIsNow /\ WrittenIsNow /\ Follows /\ (~ torn => CopiesAgree))'
  <2>1. OneTurn /\ ReadIsNow /\ Follows /\ (~ torn => CopiesAgree)
    BY <1>1, <1>12 DEF MemoryInv
  <2>2. \A q \in Requests : q # r => turn'[q] = NoTurn /\ turn'[q].at = "free" /\ turn[q].at = "free"
    BY <1>1, <1>9, <2>1, OtherTurns
  <2>3. OneTurn' /\ ReadIsNow'
    BY <1>7, <1>9, <2>2 DEF OneTurn, ReadIsNow, InTurn
  <2>4. WrittenIsNow'
    <3> SUFFICES ASSUME NEW q \in Requests, turn'[q].at = "row"
                 PROVE  inRedis' = Extended(turn'[q])
      BY DEF WrittenIsNow, Extended, Messages, Message, Summary
    <3>1. q = r
      BY <2>2
    <3> QED BY <1>1, <1>9, <1>10, <3>1
  <2>5. turn[r].cached = inRedis
    BY <1>1, <2>1 DEF ReadIsNow
  <2>6. Follows'
    <3>1. said' = Append(said, u) /\ said \in Seq(Utterances)
      BY <1>1, <1>5, <1>12 DEF MemoryInv, MemoryTyped
    <3>2. MessagesOf(inRedis) = Window(said) /\ ContextOf(inRedis) = LastNamed(said)
      BY <2>1 DEF Follows
    <3>3. inRedis'.messages = LastOf(Append(Window(said), u.message), Kept)
      BY <1>1, <1>2, <1>3, <2>5, <3>2, ExtendedType
    <3>4. inRedis'.context = Merge(LastNamed(said), u.context)
      BY <1>1, <1>2, <1>3, <2>5, <3>2, ExtendedType
    <3>5. inRedis' # None
      BY <1>1, <1>2, ExtendedType
    <3>6. PICK s : s = said'
      OBVIOUS
    <3>7. inRedis'.messages = Window(s) /\ inRedis'.context = LastNamed(s)
      BY <1>4, <3>1, <3>3, <3>4, <3>6, WindowGrows, LastNamedGrows
    <3>8. Window(s) = Window(said)' /\ LastNamed(s) = LastNamed(said)'
      BY <3>6 DEF Window, LastNamed
    <3> QED BY <3>5, <3>7, <3>8 DEF Follows, MessagesOf, ContextOf
  <2>7. ~ torn' => CopiesAgree'
    <3> SUFFICES ASSUME ~ torn
                 PROVE  CopiesAgree'
      BY <1>1
    <3>1. RowAgrees(inRedis)
      BY <1>1, <2>1, <2>2 DEF CopiesAgree
    <3>2. turn'[r].cached = inRedis /\ turn'[r].at = "row"
      BY <1>7, <1>9, <2>5
    <3>3. PICK c : c = inRedis
      OBVIOUS
    <3>4. RowAgrees(c)' /\ turn'[r].cached = c
      BY <1>1, <3>1, <3>2, <3>3 DEF RowAgrees
    <3> QED BY <2>2, <3>2, <3>4 DEF CopiesAgree, RowAgrees
  <2> QED BY <2>3, <2>4, <2>6, <2>7
<1> QED BY <1>11, <1>12 DEF MemoryInv

LEMMA RowWritten ==
    ASSUME MemoryInv, NEW r \in Requests, CommitRow(r)
    PROVE  MemoryInv'
<1>1. /\ turn[r].at = "row" /\ summaryRow' = Row(turn[r])
      /\ UNCHANGED <<inRedis, turns, said, overlapped, torn>>
  BY DEF CommitRow
<1>2. turn[r] \in OpenTurns /\ Fits(turn[r].cached)
  BY <1>1, TurnShape DEF MemoryInv, MemoryTyped
<1>3. summaryRow \in SummaryRows \cup {None}
  BY DEF MemoryInv, MemoryTyped
<1>4. Row(turn[r]) \in SummaryRows /\ Row(turn[r]) # None
  <2>1. Row(turn[r]) \in SummaryRows
    BY <1>2, <1>3, ExtendedType DEF Row, SummaryRows
  <2> QED BY <2>1, MemoryAssumption
<1>5. PICK t : t = AfterRow(turn[r])
  OBVIOUS
<1>6. t \in OpenTurns \cup {NoTurn} /\ t.at \in {"free", "get"} /\ t.cached = None
  <2>1. CASE Len(turn[r].todo) = 1
    BY <1>5, <2>1 DEF AfterRow, NoTurn
  <2>2. CASE Len(turn[r].todo) # 1
    <3>1. turn[r].todo = <<"user", "assistant">>
      BY <1>2, <2>2 DEF OpenTurns
    <3>2. Tail(turn[r].todo) = <<"assistant">>
      BY <3>1
    <3>3. t = [turn[r] EXCEPT !.at = "get", !.todo = <<"assistant">>, !.cached = None]
      BY <1>5, <2>2, <3>2 DEF AfterRow
    <3> QED BY <1>2, <3>3 DEF OpenTurns
  <2> QED BY <2>1, <2>2
<1>7. turn' = [turn EXCEPT ![r] = t]
  BY <1>5 DEF CommitRow
<1>8. turn'[r] = t /\ \A q \in Requests : q # r => turn'[q] = turn[q]
  BY <1>7 DEF MemoryInv, MemoryTyped
<1>9. MemoryTyped'
  <2>1. turn' \in [Requests -> OpenTurns \cup {NoTurn}]
    BY <1>6, <1>7 DEF MemoryInv, MemoryTyped
  <2>2. \A q \in Requests : Fits(turn'[q].cached)
    BY <1>6, <1>8 DEF MemoryInv, MemoryTyped, Fits
  <2> QED BY <1>1, <1>4, <2>1, <2>2 DEF MemoryInv, MemoryTyped, Fits
<1>10. ASSUME ~ overlapped'
       PROVE  (OneTurn /\ ReadIsNow /\ WrittenIsNow /\ Follows /\ (~ torn => CopiesAgree))'
  <2>1. OneTurn /\ WrittenIsNow /\ Follows /\ (~ torn => CopiesAgree)
    BY <1>1, <1>10 DEF MemoryInv
  <2>2. \A q \in Requests : q # r => turn'[q] = NoTurn /\ turn'[q].at = "free" /\ turn[q].at = "free"
    BY <1>1, <1>8, <2>1, OtherTurns
  <2>3. \A q \in Requests : turn'[q].at \notin {"set", "row"}
    <3>1. turn'[r].at \notin {"set", "row"}
      BY <1>6, <1>8
    <3> QED BY <2>2, <3>1
  <2>4. OneTurn' /\ ReadIsNow' /\ WrittenIsNow'
    BY <2>2, <2>3 DEF OneTurn, ReadIsNow, WrittenIsNow, InTurn
  <2>5. Follows'
    BY <1>1, <2>1 DEF Follows, MessagesOf, ContextOf, Window, LastNamed
  <2>6. ~ torn' => CopiesAgree'
    <3> SUFFICES ASSUME ~ torn
                 PROVE  RowAgrees(inRedis)'
      BY <1>1, <2>3 DEF CopiesAgree
    <3>1. RowAgrees(turn[r].cached)
      BY <1>1, <2>1 DEF CopiesAgree
    <3>2. inRedis = Extended(turn[r])
      BY <1>1, <2>1 DEF WrittenIsNow
    <3> DEFINE n == Len(Messages(turn[r]))
               s == Summary(turn[r])
               c == turn[r].cached
    <3>3. /\ inRedis.count = n /\ n <= Kept + 1
          /\ inRedis.summary = IF s # None THEN s ELSE IF c = None THEN None ELSE c.summary
      BY <1>2, <3>2, ExtendedType
    <3>4. /\ summaryRow'.count = n
          /\ summaryRow'.summary = IF s = None /\ summaryRow # None THEN summaryRow.summary ELSE s
      BY <1>1 DEF Row
    <3> HIDE DEF n, s
    <3>5. inRedis.summary # None => summaryRow'.summary = inRedis.summary
      BY <3>1, <3>3, <3>4 DEF RowAgrees
    <3> QED BY <1>1, <1>4, <3>3, <3>4, <3>5 DEF RowAgrees
  <2> QED BY <2>4, <2>5, <2>6
<1> QED BY <1>9, <1>10 DEF MemoryInv

LEMMA TurnFailed ==
    ASSUME MemoryInv, NEW r \in Requests, FailTurn(r)
    PROVE  MemoryInv'
<1>1. /\ turn[r] # NoTurn /\ torn' = (torn \/ turn[r].at = "row") /\ turn' = [turn EXCEPT ![r] = NoTurn]
      /\ UNCHANGED <<inRedis, summaryRow, turns, said, overlapped>>
  BY DEF FailTurn, InTurn
<1>2. turn[r].at # "free" /\ NoTurn.at = "free" /\ NoTurn.cached = None
  BY <1>1, TurnShape DEF MemoryInv, MemoryTyped
<1>3. turn'[r] = NoTurn /\ \A q \in Requests : q # r => turn'[q] = turn[q]
  BY <1>1 DEF MemoryInv, MemoryTyped
<1>4. MemoryTyped'
  BY <1>1, <1>2, <1>3 DEF MemoryInv, MemoryTyped, Fits
<1>5. ASSUME ~ overlapped'
      PROVE  (OneTurn /\ ReadIsNow /\ WrittenIsNow /\ Follows /\ (~ torn => CopiesAgree))'
  <2>1. OneTurn /\ Follows /\ (~ torn => CopiesAgree)
    BY <1>1, <1>5 DEF MemoryInv
  <2>2. \A q \in Requests : turn'[q] = NoTurn /\ turn'[q].at = "free" /\ (q # r => turn[q].at = "free")
    BY <1>2, <1>3, <2>1, OtherTurns
  <2>3. OneTurn' /\ ReadIsNow' /\ WrittenIsNow'
    BY <2>2 DEF OneTurn, ReadIsNow, WrittenIsNow, InTurn
  <2>4. Follows'
    BY <1>1, <2>1 DEF Follows, MessagesOf, ContextOf, Window, LastNamed
  <2>5. ~ torn' => CopiesAgree'
    <3> SUFFICES ASSUME ~ torn, turn[r].at # "row"
                 PROVE  CopiesAgree'
      BY <1>1
    <3>1. RowAgrees(inRedis)
      BY <2>1, <2>2 DEF CopiesAgree
    <3> QED BY <1>1, <2>2, <3>1 DEF CopiesAgree, RowAgrees
  <2> QED BY <2>3, <2>4, <2>5
<1> QED BY <1>4, <1>5 DEF MemoryInv

LEMMA KeyExpired ==
    ASSUME MemoryInv, ExpireKey
    PROVE  MemoryInv'
<1>1. /\ inRedis' = None /\ said' = <<>> /\ overlapped' = (overlapped \/ Someone)
      /\ UNCHANGED <<summaryRow, turn, turns, torn>>
  BY DEF ExpireKey
<1>2. MemoryTyped'
  BY <1>1 DEF MemoryInv, MemoryTyped, Fits
<1>3. ASSUME ~ overlapped'
      PROVE  (OneTurn /\ ReadIsNow /\ WrittenIsNow /\ Follows /\ (~ torn => CopiesAgree))'
  <2>1. \A q \in Requests : turn'[q] = NoTurn /\ turn'[q].at = "free"
    <3>1. ~ Someone
      BY <1>1, <1>3
    <3>2. \A q \in Requests : turn'[q] = NoTurn
      BY <1>1, <3>1 DEF Someone, InTurn
    <3> QED BY <3>2 DEF NoTurn
  <2>2. OneTurn' /\ ReadIsNow' /\ WrittenIsNow'
    BY <2>1 DEF OneTurn, ReadIsNow, WrittenIsNow, InTurn
  <2>3. Follows'
    <3>1. PICK s : s = <<>> /\ Len(s) = 0 /\ DOMAIN s = {}
      OBVIOUS
    <3>2. Window(s) = <<>>
      <4>1. Window(s) = [i \in 1..0 |-> s[Len(s) - 0 + i].message]
        BY <3>1, MemoryAssumption DEF Window
      <4> QED BY <4>1
    <3>3. LastNamed(s) = None
      BY <3>1 DEF LastNamed
    <3>4. Window(said)' = Window(s) /\ LastNamed(said)' = LastNamed(s)
      BY <1>1, <3>1 DEF Window, LastNamed
    <3> QED BY <1>1, <3>2, <3>3, <3>4 DEF Follows, MessagesOf, ContextOf
  <2>4. CopiesAgree'
    BY <1>1, <2>1 DEF CopiesAgree, RowAgrees
  <2> QED BY <2>2, <2>3, <2>4
<1> QED BY <1>2, <1>3 DEF MemoryInv

LEMMA MemoryStep == MemoryInv /\ [MemoryNext]_memoryVars => MemoryInv'
<1> SUFFICES ASSUME MemoryInv, [MemoryNext]_memoryVars PROVE MemoryInv'
  OBVIOUS
<1>1. ASSUME NEW r \in Requests, NEW c \in Contexts \cup {None}, BeginAsk(r, c)
      PROVE  MemoryInv'
  <2>1. PICK m : m = Merge(ContextOf(inRedis), c) /\ StartTurn(r, <<"user", "assistant">>, m)
    BY <1>1 DEF BeginAsk
  <2>2. m \in Contexts \cup {None}
    BY <2>1 DEF Merge, ContextOf, MemoryInv, MemoryTyped, SessionKeys
  <2> QED BY <2>1, <2>2, TurnStarts
<1>2. ASSUME NEW r \in Requests, NEW c \in Contexts \cup {None}, NEW role \in Speakers, BeginUpsert(r, role, c)
      PROVE  MemoryInv'
  BY <1>2, TurnStarts DEF BeginUpsert, Speakers
<1>3. CASE UNCHANGED memoryVars
  <2>1. MemoryTyped' /\ OneTurn' = OneTurn /\ ReadIsNow' = ReadIsNow
    BY <1>3 DEF memoryVars, MemoryInv, MemoryTyped, Fits, OneTurn, ReadIsNow, InTurn
  <2>2. WrittenIsNow' = WrittenIsNow
    BY <1>3 DEF memoryVars, WrittenIsNow, Extended, Messages, Message, Summary
  <2>3. Follows' = Follows
    BY <1>3 DEF memoryVars, Follows, MessagesOf, ContextOf, Window, LastNamed
  <2>4. CopiesAgree' = CopiesAgree
    BY <1>3 DEF memoryVars, CopiesAgree, RowAgrees
  <2> QED BY <1>3, <2>1, <2>2, <2>3, <2>4 DEF memoryVars, MemoryInv
<1> QED BY <1>1, <1>2, <1>3, KeyRead, KeyWritten, RowWritten, TurnFailed, KeyExpired DEF MemoryNext

\* The session in Redis follows the conversation, as long as no requests overlapped
\* (append_session_memory).
THEOREM SessionFollows == MemorySpec => []SessionFollowsUnlessOverlapped
<1>1. MemorySpec => []MemoryInv
  BY MemoryStarts, MemoryStep, PTL DEF MemorySpec
<1>2. MemoryInv => SessionFollowsUnlessOverlapped
  BY DEF MemoryInv, Follows, MessagesOf, ContextOf, Window, LastNamed, SessionFollowsUnlessOverlapped
<1> QED BY <1>1, <1>2, PTL

\* The row in MySQL agrees with the key in Redis between requests, as long as none
\* overlapped or failed between its two writes.
THEOREM CopiesStayTogether == MemorySpec => []CopiesAgreeUnlessTorn
<1>1. MemorySpec => []MemoryInv
  BY MemoryStarts, MemoryStep, PTL DEF MemorySpec
<1>2. MemoryInv => CopiesAgreeUnlessTorn
  <2> SUFFICES ASSUME MemoryInv, inRedis # None, ~ overlapped, ~ torn, ~ Someone
               PROVE  RowAgrees(inRedis)
    BY DEF CopiesAgreeUnlessTorn, RowAgrees
  <2>1. \A r \in Requests : turn[r].at # "row"
    BY DEF Someone, InTurn, NoTurn
  <2> QED BY <2>1 DEF MemoryInv, CopiesAgree
<1> QED BY <1>1, <1>2, PTL
-----------------------------------------------------------------------------
QuerySteps == {"free", "reply", "generate", "session", "audit", "execute", "resolve", "result", "store"}
Answers == [status : {"refused", "clarification_required", "audit_passed"},
             candidate : Candidates \cup {None}, auditedFor : Callers \cup {None}]
Answered == {"audited", "executed", "failed", "rejected"}
AuditRows == [user : Callers, status : Answered \cup {"refused", "clarification_required"},
              ranFor : Callers \cup {None}, candidate : Candidates \cup {None}]
Wordings == Seq(Questions \cup Replies)
Queries == [at : QuerySteps, user : Callers \cup {None}, question : Wordings, session : Sessions \cup {None},
            generated : Answers \cup {None}, ref : Nat \cup {None}]

\* An open request has its user, and an outcome once it has been generated; what opens
\* a session is a question, what goes on with one adds a reply within the limit.
QueryFits(q) ==
    /\ q.at # "free" => q.user \in Callers
    /\ q.at \notin {"free", "reply", "generate"} => q.generated \in Answers
    /\ q.session = None /\ q.at # "free" => q.question # <<>> /\ Head(q.question) \in Questions
    /\ q.at = "free" => q.session = None
    /\ q.at = "session" => q.session = None
    /\ q.at \in {"reply", "resolve", "result"} => q.session # None
    /\ q.at \in {"execute", "resolve"} => Passed(q)
    /\ q.at = "reply" => Tail(q.question) \in Seq(Replies) /\ Len(Tail(q.question)) \in 1..MaxReplies

DialogueTyped ==
    /\ clarification \in [Sessions -> ClarificationRows \cup {None}]
    /\ auditLog \in Seq(AuditRows)
    /\ sqlCache \in SUBSET [question : Wordings, generated : Answers]
    /\ query \in [Requests -> Queries] /\ \A r \in Requests : QueryFits(query[r])
    /\ cutShort \in SUBSET Sessions

\* A statement that was executed was audited for the user it was executed for.
AuditedForUser ==
    \A i \in DOMAIN auditLog :
        auditLog[i].status = "executed" => auditLog[i].ranFor = auditLog[i].user

\* A request that goes on with a session is the session's user's, and its reply is
\* recorded from there on.
FollowsUp(q) ==
    q.session # None =>
        /\ clarification[q.session] # None /\ clarification[q.session].user = q.user
        /\ q.at # "reply" => Len(clarification[q.session].replies) >= 1

\* The row named as the result is the request's own.
NamesOwnRow(q) ==
    q.at = "result" =>
        /\ q.ref \in DOMAIN auditLog
        /\ auditLog[q.ref].user = q.user /\ auditLog[q.ref].status \in Answered

\* Who has resolved a session is about to name its result.
WillName(q, d) ==
    /\ q.session = d
    /\ q.at \in {"execute", "result"} \/ (q.at = "audit" /\ Passed(q))

SessionFits(d) ==
    clarification[d] # None =>
        /\ Len(clarification[d].replies) <= MaxReplies
        /\ clarification[d].ref # None =>
              /\ clarification[d].ref \in DOMAIN auditLog
              /\ auditLog[clarification[d].ref].user = clarification[d].user
              /\ auditLog[clarification[d].ref].status \in Answered
        /\ clarification[d].status = "resolved" =>
              /\ Len(clarification[d].replies) >= 1
              /\ clarification[d].ref = None => d \in cutShort \/ \E r \in Requests : WillName(query[r], d)

DialogueInv ==
    /\ DialogueTyped /\ AuditedForUser
    /\ \A r \in Requests : FollowsUp(query[r]) /\ NamesOwnRow(query[r])
    /\ \A d \in Sessions : SessionFits(d)

LEMMA QueryMoved ==
    ASSUME NEW q \in Queries, NEW a \in QuerySteps, NEW x, x = [q EXCEPT !.at = a]
    PROVE  /\ x \in Queries /\ x.at = a /\ x.user = q.user /\ x.question = q.question
           /\ x.session = q.session /\ x.generated = q.generated /\ x.ref = q.ref
BY DEF Queries

LEMMA IdleQuery ==
    Idle \in Queries /\ Idle.at = "free" /\ Idle.session = None /\ QueryFits(Idle)
<1>1. Idle = [at |-> "free", user |-> None, question |-> <<>>, session |-> None,
              generated |-> None, ref |-> None]
  BY DEF Idle, Asking
<1>2. <<>> \in Wordings
  BY DEF Wordings
<1>3. Idle \in Queries
  BY <1>1, <1>2 DEF Queries, QuerySteps
<1> QED BY <1>1, <1>3 DEF QueryFits

\* One request moves on, the others stay.
LEMMA OneMoves ==
    ASSUME DialogueTyped, NEW r \in Requests, NEW x \in Queries, QueryFits(x),
           query' = [query EXCEPT ![r] = x]
    PROVE  /\ query' \in [Requests -> Queries] /\ \A q \in Requests : QueryFits(query'[q])
           /\ query'[r] = x /\ \A q \in Requests : q # r => query'[q] = query[q]
BY DEF DialogueTyped

\* What holds of the others keeps holding while the log only grows and a session
\* keeps its user and its replies.
LEMMA OthersCarried ==
    ASSUME DialogueInv, NEW r \in Requests, \A q \in Requests : q # r => query'[q] = query[q],
           \A i \in DOMAIN auditLog : i \in DOMAIN auditLog' /\ auditLog'[i] = auditLog[i],
           \A d \in Sessions : clarification[d] # None =>
               /\ clarification'[d] # None /\ clarification'[d].user = clarification[d].user
               /\ Len(clarification[d].replies) >= 1 => Len(clarification'[d].replies) >= 1
    PROVE  \A q \in Requests : q # r => FollowsUp(query[q])' /\ NamesOwnRow(query[q])'
<1> SUFFICES ASSUME NEW q \in Requests, q # r
             PROVE  FollowsUp(query[q])' /\ NamesOwnRow(query[q])'
  OBVIOUS
<1>1. query'[q] = query[q] /\ query[q].session \in Sessions \cup {None}
  BY DEF DialogueInv, DialogueTyped, Queries
<1>2. FollowsUp(query[q]) /\ NamesOwnRow(query[q])
  BY DEF DialogueInv
<1>3. FollowsUp(query[q])'
  BY <1>1, <1>2 DEF FollowsUp
<1>4. NamesOwnRow(query[q])'
  BY <1>1, <1>2 DEF NamesOwnRow
<1> QED BY <1>3, <1>4

LEMMA SessionCarried ==
    ASSUME DialogueInv, NEW d \in Sessions, clarification'[d] = clarification[d],
           \A i \in DOMAIN auditLog : i \in DOMAIN auditLog' /\ auditLog'[i] = auditLog[i],
           cutShort \subseteq cutShort',
           \A q \in Requests : WillName(query[q], d) => WillName(query[q], d)' \/ d \in cutShort'
    PROVE  SessionFits(d)'
<1>1. SessionFits(d)
  BY DEF DialogueInv
<1>2. (\E q \in Requests : WillName(query[q], d)) => (\E q \in Requests : WillName(query[q], d)') \/ d \in cutShort'
  OBVIOUS
<1> QED BY <1>1, <1>2 DEF SessionFits

LEMMA LogUnchanged ==
    ASSUME UNCHANGED auditLog
    PROVE  \A i \in DOMAIN auditLog : i \in DOMAIN auditLog' /\ auditLog'[i] = auditLog[i]
OBVIOUS

LEMMA DialogueStarts == DialogueInit => DialogueInv
<1> SUFFICES ASSUME DialogueInit PROVE DialogueInv
  OBVIOUS
<1>1. \A r \in Requests : query[r] = Idle /\ query[r] \in Queries /\ QueryFits(query[r])
  BY IdleQuery DEF DialogueInit
<1>2. DialogueTyped
  BY <1>1 DEF DialogueInit, DialogueTyped
<1>3. AuditedForUser
  BY DEF DialogueInit, AuditedForUser
<1>4. \A r \in Requests : FollowsUp(query[r]) /\ NamesOwnRow(query[r])
  <2>1. \A r \in Requests : query[r].session = None /\ query[r].at = "free"
    BY <1>1, IdleQuery
  <2> QED BY <2>1 DEF FollowsUp, NamesOwnRow
<1>5. \A d \in Sessions : SessionFits(d)
  BY DEF DialogueInit, SessionFits
<1> QED BY <1>2, <1>3, <1>4, <1>5 DEF DialogueInv

\* A request that moves on without writing to MySQL; the cache may change.
LEMMA OnlyMoves ==
    ASSUME DialogueInv, NEW r \in Requests, NEW x \in Queries, QueryFits(x),
           query' = [query EXCEPT ![r] = x], UNCHANGED <<clarification, auditLog>>,
           sqlCache' \in SUBSET [question : Wordings, generated : Answers],
           cutShort' \in SUBSET Sessions, cutShort \subseteq cutShort',
           FollowsUp(x), NamesOwnRow(x),
           \A d \in Sessions : WillName(query[r], d) => WillName(x, d) \/ d \in cutShort'
    PROVE  DialogueInv'
<1>1. /\ query' \in [Requests -> Queries] /\ \A q \in Requests : QueryFits(query'[q])
      /\ query'[r] = x /\ \A q \in Requests : q # r => query'[q] = query[q]
  BY OneMoves DEF DialogueInv
<1>2. DialogueTyped'
  BY <1>1 DEF DialogueInv, DialogueTyped
<1>3. AuditedForUser'
  BY DEF DialogueInv, AuditedForUser
<1>4. \A q \in Requests : q # r => FollowsUp(query[q])' /\ NamesOwnRow(query[q])'
  BY <1>1, LogUnchanged, OthersCarried
<1>5. FollowsUp(query[r])' /\ NamesOwnRow(query[r])'
  BY <1>1 DEF FollowsUp, NamesOwnRow
<1>6. ASSUME NEW d \in Sessions PROVE SessionFits(d)'
  <2>1. \A q \in Requests : WillName(query[q], d) => WillName(query[q], d)' \/ d \in cutShort'
    <3> SUFFICES ASSUME NEW q \in Requests, WillName(query[q], d)
                 PROVE  WillName(query[q], d)' \/ d \in cutShort'
      OBVIOUS
    <3>1. CASE q # r
      BY <1>1, <3>1 DEF WillName
    <3>2. CASE q = r
      BY <1>1, <3>2 DEF WillName
    <3> QED BY <3>1, <3>2
  <2> QED BY <2>1, LogUnchanged, SessionCarried
<1> QED BY <1>2, <1>3, <1>4, <1>5, <1>6 DEF DialogueInv

LEMMA FollowUpShape ==
    ASSUME NEW question \in Questions, NEW replies \in Seq(Replies), NEW reply \in Replies,
           NEW w, w = <<question>> \o Append(replies, reply)
    PROVE  /\ w \in Wordings /\ Tail(w) = Append(replies, reply)
           /\ Append(replies, reply) \in Seq(Replies) /\ Len(Append(replies, reply)) = Len(replies) + 1
<1>1. PICK s : s = Append(replies, reply)
  OBVIOUS
<1>2. s \in Seq(Replies) /\ Len(s) = Len(replies) + 1
  BY <1>1
<1>3. <<question>> \in Seq(Questions \cup Replies) /\ s \in Seq(Questions \cup Replies)
  BY <1>2
<1>4. w = <<question>> \o s /\ w \in Wordings
  BY <1>1, <1>3 DEF Wordings
<1>5. Tail(<<question>> \o s) = s
  <2>1. Len(<<question>> \o s) = Len(s) + 1 /\ \A i \in 1..Len(s) : (<<question>> \o s)[i + 1] = s[i]
    BY <1>3
  <2>2. Tail(<<question>> \o s) = [i \in 1..Len(s) |-> (<<question>> \o s)[i + 1]]
    BY <1>3, <2>1
  <2>3. s = [i \in 1..Len(s) |-> s[i]]
    BY <1>3
  <2> QED BY <2>1, <2>2, <2>3
<1> QED BY <1>1, <1>2, <1>4, <1>5

LEMMA QueryBegins ==
    ASSUME DialogueInv, NEW r \in Requests, NEW u \in Callers, NEW question \in Questions,
           BeginQuery(r, u, question)
    PROVE  DialogueInv'
<1>1. PICK x : x = Asking("generate", u, <<question>>, None)
  OBVIOUS
<1>2. /\ query[r] = Idle /\ query' = [query EXCEPT ![r] = x]
      /\ UNCHANGED <<clarification, auditLog, sqlCache, cutShort>>
  BY <1>1 DEF BeginQuery, Begin
<1>3. x = [at |-> "generate", user |-> u, question |-> <<question>>, session |-> None,
           generated |-> None, ref |-> None]
  BY <1>1 DEF Asking
<1>4. <<question>> \in Wordings /\ <<question>> # <<>> /\ Head(<<question>>) = question
  BY DEF Wordings
<1>5. x \in Queries /\ QueryFits(x) /\ FollowsUp(x) /\ NamesOwnRow(x)
  BY <1>3, <1>4 DEF Queries, QuerySteps, QueryFits, FollowsUp, NamesOwnRow
<1>6. \A d \in Sessions : ~ WillName(query[r], d)
  BY <1>2, IdleQuery DEF WillName
<1> QED BY <1>2, <1>5, <1>6, OnlyMoves DEF DialogueInv, DialogueTyped

LEMMA FollowUpBegins ==
    ASSUME DialogueInv, NEW r \in Requests, NEW d \in Sessions, NEW reply \in Replies,
           BeginFollowUp(r, d, reply)
    PROVE  DialogueInv'
<1>1. PICK session : session = clarification[d]
  OBVIOUS
<1>2. session # None /\ Len(session.replies) < MaxReplies
  BY <1>1 DEF BeginFollowUp
<1>3. session \in ClarificationRows
  BY <1>1, <1>2 DEF DialogueInv, DialogueTyped
<1>4. PICK w : w = <<session.question>> \o Append(session.replies, reply)
  OBVIOUS
<1>5. PICK x : x = Asking("reply", session.user, w, d)
  OBVIOUS
<1>6. /\ query[r] = Idle /\ query' = [query EXCEPT ![r] = x]
      /\ UNCHANGED <<clarification, auditLog, sqlCache, cutShort>>
  BY <1>1, <1>4, <1>5 DEF BeginFollowUp, Begin
<1>7. x = [at |-> "reply", user |-> session.user, question |-> w, session |-> d,
           generated |-> None, ref |-> None]
  BY <1>5 DEF Asking
<1>8. session.question \in Questions /\ session.replies \in Seq(Replies) /\ session.user \in Callers
  BY <1>3 DEF ClarificationRows
<1>9. w \in Wordings /\ Tail(w) \in Seq(Replies) /\ Len(Tail(w)) = Len(session.replies) + 1
  <2>1. PICK h \in Questions, t \in Seq(Replies) : h = session.question /\ t = session.replies
    BY <1>8
  <2>2. w = <<h>> \o Append(t, reply)
    BY <1>4, <2>1
  <2>3. /\ w \in Wordings /\ Tail(w) = Append(t, reply)
        /\ Append(t, reply) \in Seq(Replies) /\ Len(Append(t, reply)) = Len(t) + 1
    BY <2>2, FollowUpShape
  <2> QED BY <2>1, <2>3
<1>10. d # None
  BY DialogueAssumption DEF Sessions
<1>11. Len(Tail(w)) \in 1..MaxReplies
  BY <1>2, <1>8, <1>9, DialogueAssumption
<1>12. x \in Queries /\ QueryFits(x)
  BY <1>7, <1>8, <1>9, <1>10, <1>11 DEF Queries, QuerySteps, QueryFits
<1>13. FollowsUp(x) /\ NamesOwnRow(x)
  BY <1>1, <1>2, <1>7 DEF FollowsUp, NamesOwnRow
<1>14. \A e \in Sessions : ~ WillName(query[r], e)
  BY <1>6, IdleQuery DEF WillName
<1> QED BY <1>6, <1>12, <1>13, <1>14, OnlyMoves DEF DialogueInv, DialogueTyped

LEMMA Generated ==
    ASSUME DialogueInv, NEW r \in Requests, Generate(r)
    PROVE  DialogueInv'
<1>1. PICK q : q = query[r]
  OBVIOUS
<1>2. q.at = "generate" /\ q \in Queries /\ QueryFits(q) /\ FollowsUp(q) /\ q.user \in Callers
  BY <1>1 DEF Generate, DialogueInv, DialogueTyped, QueryFits
<1>3. PICK g \in Generations(q.user, q.question) : \E a \in AfterGenerate([q EXCEPT !.generated = g]) :
        query' = [query EXCEPT ![r] = [[q EXCEPT !.generated = g] EXCEPT !.at = a]]
  BY <1>1 DEF Generate
<1>a. PICK a \in AfterGenerate([q EXCEPT !.generated = g]) :
        query' = [query EXCEPT ![r] = [[q EXCEPT !.generated = g] EXCEPT !.at = a]]
  BY <1>3
<1>4. g \in Answers
  <2>1. CASE Cached(q.question) # {}
    BY <1>3, <2>1 DEF Generations, Cached, DialogueInv, DialogueTyped
  <2>2. CASE Cached(q.question) = {}
    BY <1>2, <1>3, <2>2 DEF Generations, Outcome, Answers
  <2> QED BY <2>1, <2>2
<1>5. PICK y : y = [q EXCEPT !.generated = g]
  OBVIOUS
<1>6. y \in Queries /\ y.generated = g /\ y.user = q.user /\ y.question = q.question /\ y.session = q.session
  BY <1>2, <1>4, <1>5 DEF Queries
<1>7. a \in {"session", "audit", "resolve", "execute"} /\ (a = "session" => y.session = None)
      /\ (a = "resolve" => y.session # None /\ Passed(y)) /\ (a = "execute" => Passed(y))
  BY <1>a, <1>5 DEF AfterGenerate, Unclear
<1>8. PICK x : x = [y EXCEPT !.at = a]
  OBVIOUS
<1>9. /\ x \in Queries /\ x.at = a /\ x.user = q.user /\ x.question = q.question
      /\ x.session = q.session /\ x.generated = g
  BY <1>6, <1>7, <1>8, QueryMoved DEF QuerySteps
<1>10. QueryFits(x)
  BY <1>2, <1>4, <1>6, <1>7, <1>9 DEF QueryFits, Passed
<1>11. FollowsUp(x) /\ NamesOwnRow(x)
  BY <1>2, <1>7, <1>9 DEF FollowsUp, NamesOwnRow
<1>12. \A d \in Sessions : ~ WillName(query[r], d)
  BY <1>1, <1>2 DEF WillName
<1>13. query' = [query EXCEPT ![r] = x] /\ UNCHANGED <<clarification, auditLog, sqlCache, cutShort>>
  BY <1>a, <1>5, <1>8 DEF Generate
<1> QED BY <1>9, <1>10, <1>11, <1>12, <1>13, OnlyMoves DEF DialogueInv, DialogueTyped

LEMMA Stored ==
    ASSUME DialogueInv, NEW r \in Requests, Store(r)
    PROVE  DialogueInv'
<1>1. query[r].at = "store" /\ query' = [query EXCEPT ![r] = Idle] /\ UNCHANGED <<clarification, auditLog, cutShort>>
  BY DEF Store, Done
<1>2. query[r] \in Queries /\ query[r].generated \in Answers
  BY <1>1 DEF DialogueInv, DialogueTyped, QueryFits
<1>3. sqlCache' \in SUBSET [question : Wordings, generated : Answers]
  <2>1. [question |-> query[r].question, generated |-> query[r].generated] \in [question : Wordings, generated : Answers]
    BY <1>2 DEF Queries
  <2> QED BY <2>1 DEF Store, DialogueInv, DialogueTyped
<1>4. FollowsUp(Idle) /\ NamesOwnRow(Idle)
  BY IdleQuery DEF FollowsUp, NamesOwnRow
<1>5. \A d \in Sessions : ~ WillName(query[r], d)
  BY <1>1 DEF WillName
<1> QED BY <1>1, <1>3, <1>4, <1>5, IdleQuery, OnlyMoves DEF DialogueInv, DialogueTyped

LEMMA QueryLost ==
    ASSUME DialogueInv, NEW r \in Requests, LoseQuery(r)
    PROVE  DialogueInv'
<1>1. /\ cutShort' = cutShort \cup ({query[r].session} \ {None}) /\ query' = [query EXCEPT ![r] = Idle]
      /\ UNCHANGED <<clarification, auditLog, sqlCache>>
  BY DEF LoseQuery, Done
<1>2. query[r].session \in Sessions \cup {None} /\ \A d \in Sessions : d # None
  BY DialogueAssumption DEF DialogueInv, DialogueTyped, Queries, Sessions
<1>3. cutShort' \in SUBSET Sessions /\ cutShort \subseteq cutShort'
  BY <1>1, <1>2 DEF DialogueInv, DialogueTyped
<1>4. FollowsUp(Idle) /\ NamesOwnRow(Idle)
  BY IdleQuery DEF FollowsUp, NamesOwnRow
<1>5. \A d \in Sessions : WillName(query[r], d) => d \in cutShort'
  BY <1>1, <1>2 DEF WillName
<1> QED BY <1>1, <1>3, <1>4, <1>5, IdleQuery, OnlyMoves DEF DialogueInv, DialogueTyped

\* The reply is put into the session, whatever has been put there meanwhile.
LEMMA ReplyCommitted ==
    ASSUME DialogueInv, NEW r \in Requests, CommitReply(r)
    PROVE  DialogueInv'
<1>1. PICK q : q = query[r]
  OBVIOUS
<1>2. q.at = "reply" /\ q \in Queries /\ QueryFits(q) /\ FollowsUp(q)
  BY <1>1 DEF CommitReply, DialogueInv, DialogueTyped
<1>3. PICK d \in Sessions : d = q.session
  BY <1>2 DEF Queries, QueryFits
<1>4. d # None /\ clarification[d] # None /\ clarification[d].user = q.user
  BY <1>2, <1>3 DEF FollowsUp, QueryFits
<1>5. PICK s : s = [clarification[d] EXCEPT !.replies = Tail(q.question)]
  OBVIOUS
<1>6. clarification[d] \in ClarificationRows
  BY <1>4 DEF DialogueInv, DialogueTyped
<1>7. /\ s \in ClarificationRows /\ s.user = clarification[d].user /\ s.ref = clarification[d].ref
      /\ s.status = clarification[d].status /\ Len(s.replies) \in 1..MaxReplies
  BY <1>2, <1>5, <1>6 DEF ClarificationRows, QueryFits
<1>8. s # None
  BY <1>7, DialogueAssumption
<1>9. /\ clarification' = [clarification EXCEPT ![d] = s]
      /\ UNCHANGED <<auditLog, sqlCache, cutShort>>
  BY <1>1, <1>3, <1>5 DEF CommitReply
<1>10. clarification' \in [Sessions -> ClarificationRows \cup {None}] /\ clarification'[d] = s
       /\ \A e \in Sessions : e # d => clarification'[e] = clarification[e]
  BY <1>7, <1>9 DEF DialogueInv, DialogueTyped
<1>11. PICK x : x = [q EXCEPT !.at = "generate"]
  OBVIOUS
<1>12. /\ x \in Queries /\ x.at = "generate" /\ x.user = q.user /\ x.session = q.session
  BY <1>2, <1>11, QueryMoved DEF QuerySteps
<1>13. QueryFits(x)
  BY <1>2, <1>3, <1>4, <1>12 DEF QueryFits
<1>14. query' = [query EXCEPT ![r] = x]
  BY <1>1, <1>11 DEF CommitReply, GoOn
<1>15. /\ query' \in [Requests -> Queries] /\ \A p \in Requests : QueryFits(query'[p])
       /\ query'[r] = x /\ \A p \in Requests : p # r => query'[p] = query[p]
  BY <1>12, <1>13, <1>14, OneMoves DEF DialogueInv
<1>16. DialogueTyped'
  BY <1>9, <1>10, <1>15 DEF DialogueInv, DialogueTyped
<1>17. AuditedForUser'
  BY <1>9 DEF DialogueInv, AuditedForUser
<1>18. \A p \in Requests : p # r => FollowsUp(query[p])' /\ NamesOwnRow(query[p])'
  <2>1. \A e \in Sessions : clarification[e] # None =>
           /\ clarification'[e] # None /\ clarification'[e].user = clarification[e].user
           /\ Len(clarification[e].replies) >= 1 => Len(clarification'[e].replies) >= 1
    BY <1>4, <1>7, <1>8, <1>10
  <2> QED BY <1>9, <1>15, <2>1, LogUnchanged, OthersCarried
<1>19. FollowsUp(query[r])' /\ NamesOwnRow(query[r])'
  BY <1>3, <1>4, <1>7, <1>8, <1>10, <1>12, <1>15 DEF FollowsUp, NamesOwnRow
<1>20. ASSUME NEW e \in Sessions PROVE SessionFits(e)'
  <2>1. \A p \in Requests : WillName(query[p], e) => WillName(query[p], e)'
    BY <1>1, <1>2, <1>15 DEF WillName
  <2>2. CASE e # d
    <3>1. clarification'[e] = clarification[e]
      BY <1>10, <2>2
    <3>2. \A p \in Requests : WillName(query[p], e) => WillName(query[p], e)' \/ e \in cutShort'
      BY <2>1
    <3> QED BY <1>9, <3>1, <3>2, LogUnchanged, SessionCarried
  <2>3. CASE e = d
    <3>1. SessionFits(d)
      BY DEF DialogueInv
    <3>2. (\E p \in Requests : WillName(query[p], d)) => (\E p \in Requests : WillName(query[p], d)')
      BY <2>1, <2>3
    <3>3. Len(s.replies) <= MaxReplies /\ Len(s.replies) >= 1
      BY <1>7
    <3> QED BY <1>4, <1>7, <1>9, <1>10, <2>3, <3>1, <3>2, <3>3 DEF SessionFits
  <2> QED BY <2>2, <2>3
<1> QED BY <1>16, <1>17, <1>18, <1>19, <1>20 DEF DialogueInv

LEMMA SessionOpened ==
    ASSUME DialogueInv, NEW r \in Requests, NEW d \in Sessions, OpenSession(r, d)
    PROVE  DialogueInv'
<1>1. PICK q : q = query[r]
  OBVIOUS
<1>2. q.at = "session" /\ q \in Queries /\ QueryFits(q) /\ q.session = None /\ q.user \in Callers
  BY <1>1 DEF OpenSession, DialogueInv, DialogueTyped, QueryFits
<1>3. PICK s : s = [user |-> q.user, question |-> Head(q.question), replies |-> <<>>,
                    status |-> "awaiting", ref |-> None]
  OBVIOUS
<1>4. s \in ClarificationRows
  <2>1. Head(q.question) \in Questions /\ <<>> \in Seq(Replies)
    BY <1>2 DEF QueryFits
  <2> QED BY <1>2, <1>3, <2>1 DEF ClarificationRows
<1>5. /\ clarification[d] = None /\ clarification' = [clarification EXCEPT ![d] = s]
      /\ UNCHANGED <<auditLog, sqlCache, cutShort>>
  BY <1>1, <1>3 DEF OpenSession
<1>6. clarification' \in [Sessions -> ClarificationRows \cup {None}] /\ clarification'[d] = s
       /\ \A e \in Sessions : e # d => clarification'[e] = clarification[e]
  BY <1>4, <1>5 DEF DialogueInv, DialogueTyped
<1>7. PICK x : x = [q EXCEPT !.at = "audit"]
  OBVIOUS
<1>8. /\ x \in Queries /\ x.at = "audit" /\ x.user = q.user /\ x.session = q.session
      /\ x.question = q.question /\ x.generated = q.generated
  BY <1>2, <1>7, QueryMoved DEF QuerySteps
<1>9. QueryFits(x)
  BY <1>2, <1>8 DEF QueryFits
<1>10. query' = [query EXCEPT ![r] = x]
  BY <1>1, <1>7 DEF OpenSession, GoOn
<1>11. /\ query' \in [Requests -> Queries] /\ \A p \in Requests : QueryFits(query'[p])
       /\ query'[r] = x /\ \A p \in Requests : p # r => query'[p] = query[p]
  BY <1>8, <1>9, <1>10, OneMoves DEF DialogueInv
<1>12. DialogueTyped'
  BY <1>5, <1>6, <1>11 DEF DialogueInv, DialogueTyped
<1>13. AuditedForUser'
  BY <1>5 DEF DialogueInv, AuditedForUser
<1>14. \A p \in Requests : p # r => FollowsUp(query[p])' /\ NamesOwnRow(query[p])'
  <2>1. \A e \in Sessions : clarification[e] # None =>
           /\ clarification'[e] # None /\ clarification'[e].user = clarification[e].user
           /\ Len(clarification[e].replies) >= 1 => Len(clarification'[e].replies) >= 1
    BY <1>5, <1>6
  <2> QED BY <1>5, <1>11, <2>1, LogUnchanged, OthersCarried
<1>15. FollowsUp(query[r])' /\ NamesOwnRow(query[r])'
  BY <1>2, <1>8, <1>11 DEF FollowsUp, NamesOwnRow
<1>16. ASSUME NEW e \in Sessions PROVE SessionFits(e)'
  <2>1. CASE e # d
    <3>1. clarification'[e] = clarification[e]
      BY <1>6, <2>1
    <3>2. \A p \in Requests : WillName(query[p], e) => WillName(query[p], e)' \/ e \in cutShort'
      BY <1>1, <1>2, <1>11 DEF WillName
    <3> QED BY <1>5, <3>1, <3>2, LogUnchanged, SessionCarried
  <2>2. CASE e = d
    <3>1. s.status = "awaiting" /\ s.ref = None /\ Len(s.replies) = 0
      BY <1>3
    <3> QED BY <1>6, <2>2, <3>1, DialogueAssumption DEF SessionFits
  <2> QED BY <2>1, <2>2
<1> QED BY <1>12, <1>13, <1>14, <1>15, <1>16 DEF DialogueInv

\* resolve_clarification_session without a result, by a request that will run or record
\* the statement.
LEMMA Resolved ==
    ASSUME DialogueInv, NEW r \in Requests, Resolve(r)
    PROVE  DialogueInv'
<1>1. PICK q : q = query[r]
  OBVIOUS
<1>2. q.at = "resolve" /\ q \in Queries /\ QueryFits(q) /\ FollowsUp(q) /\ Passed(q)
  BY <1>1 DEF Resolve, DialogueInv, DialogueTyped, QueryFits
<1>3. PICK d \in Sessions : d = q.session
  BY <1>2 DEF Queries, QueryFits
<1>4. d # None /\ clarification[d] # None /\ Len(clarification[d].replies) >= 1
  BY <1>2, <1>3 DEF FollowsUp, QueryFits
<1>5. PICK s : s = [clarification[d] EXCEPT !.status = "resolved"]
  OBVIOUS
<1>6. clarification[d] \in ClarificationRows
  BY <1>4 DEF DialogueInv, DialogueTyped
<1>7. /\ s \in ClarificationRows /\ s.user = clarification[d].user /\ s.ref = clarification[d].ref
      /\ s.replies = clarification[d].replies
  BY <1>5, <1>6 DEF ClarificationRows
<1>8. s # None
  BY <1>7, DialogueAssumption
<1>9. PICK a \in {"execute", "audit"} : query' = [query EXCEPT ![r].at = a]
  BY DEF Resolve, GoOn
<1>10. /\ clarification' = [clarification EXCEPT ![d] = s]
       /\ UNCHANGED <<auditLog, sqlCache, cutShort>>
  BY <1>1, <1>3, <1>5 DEF Resolve
<1>11. clarification' \in [Sessions -> ClarificationRows \cup {None}] /\ clarification'[d] = s
       /\ \A e \in Sessions : e # d => clarification'[e] = clarification[e]
  BY <1>7, <1>10 DEF DialogueInv, DialogueTyped
<1>12. PICK x : x = [q EXCEPT !.at = a]
  OBVIOUS
<1>13. /\ x \in Queries /\ x.at = a /\ x.user = q.user /\ x.session = q.session /\ x.generated = q.generated
  BY <1>2, <1>12, QueryMoved DEF QuerySteps
<1>14. QueryFits(x) /\ Passed(x)
  BY <1>2, <1>3, <1>4, <1>13 DEF QueryFits, Passed
<1>15. query' = [query EXCEPT ![r] = x]
  BY <1>1, <1>9, <1>12
<1>16. /\ query' \in [Requests -> Queries] /\ \A p \in Requests : QueryFits(query'[p])
       /\ query'[r] = x /\ \A p \in Requests : p # r => query'[p] = query[p]
  BY <1>13, <1>14, <1>15, OneMoves DEF DialogueInv
<1>17. DialogueTyped'
  BY <1>10, <1>11, <1>16 DEF DialogueInv, DialogueTyped
<1>18. AuditedForUser'
  BY <1>10 DEF DialogueInv, AuditedForUser
<1>19. \A p \in Requests : p # r => FollowsUp(query[p])' /\ NamesOwnRow(query[p])'
  <2>1. \A e \in Sessions : clarification[e] # None =>
           /\ clarification'[e] # None /\ clarification'[e].user = clarification[e].user
           /\ Len(clarification[e].replies) >= 1 => Len(clarification'[e].replies) >= 1
    BY <1>4, <1>7, <1>8, <1>11
  <2> QED BY <1>10, <1>16, <2>1, LogUnchanged, OthersCarried
<1>20. FollowsUp(query[r])' /\ NamesOwnRow(query[r])'
  BY <1>2, <1>3, <1>4, <1>7, <1>8, <1>11, <1>13, <1>16 DEF FollowsUp, NamesOwnRow
<1>21. WillName(query[r], d)'
  BY <1>3, <1>13, <1>14, <1>16 DEF WillName, Passed
<1>22. ASSUME NEW e \in Sessions PROVE SessionFits(e)'
  <2>1. CASE e # d
    <3>1. clarification'[e] = clarification[e]
      BY <1>11, <2>1
    <3>2. \A p \in Requests : WillName(query[p], e) => WillName(query[p], e)' \/ e \in cutShort'
      BY <1>1, <1>2, <1>16 DEF WillName
    <3> QED BY <1>10, <3>1, <3>2, LogUnchanged, SessionCarried
  <2>2. CASE e = d
    <3>1. SessionFits(d)
      BY DEF DialogueInv
    <3> QED BY <1>4, <1>7, <1>10, <1>11, <1>21, <2>2, <3>1 DEF SessionFits
  <2> QED BY <2>1, <2>2
<1> QED BY <1>17, <1>18, <1>19, <1>20, <1>22 DEF DialogueInv

\* A request that writes one audit row and moves on.
LEMMA Recorded ==
    ASSUME DialogueInv, NEW r \in Requests, NEW a \in AuditRows, auditLog' = Append(auditLog, a),
           UNCHANGED <<clarification, sqlCache, cutShort>>,
           NEW x \in Queries, QueryFits(x), query' = [query EXCEPT ![r] = x], FollowsUp(x),
           x.at = "result" => x.ref = Len(auditLog) + 1 /\ a.user = x.user /\ a.status \in Answered,
           a.status = "executed" => a.ranFor = a.user,
           \A d \in Sessions : WillName(query[r], d) => WillName(x, d)
    PROVE  DialogueInv'
<1>1. auditLog \in Seq(AuditRows)
  BY DEF DialogueInv, DialogueTyped
<1>2. PICK n \in Nat : n = Len(auditLog) /\ DOMAIN auditLog = 1..n
  BY <1>1
<1>3. auditLog' \in Seq(AuditRows) /\ DOMAIN auditLog' = 1..(n + 1) /\ auditLog'[n + 1] = a
      /\ \A i \in 1..n : auditLog'[i] = auditLog[i]
  BY <1>1, <1>2
<1>4. \A i \in DOMAIN auditLog : i \in DOMAIN auditLog' /\ auditLog'[i] = auditLog[i]
  BY <1>2, <1>3
<1>5. /\ query' \in [Requests -> Queries] /\ \A p \in Requests : QueryFits(query'[p])
      /\ query'[r] = x /\ \A p \in Requests : p # r => query'[p] = query[p]
  BY OneMoves DEF DialogueInv
<1>6. DialogueTyped'
  BY <1>3, <1>5 DEF DialogueInv, DialogueTyped
<1>7. AuditedForUser'
  <2> SUFFICES ASSUME NEW i \in 1..(n + 1), auditLog'[i].status = "executed"
               PROVE  auditLog'[i].ranFor = auditLog'[i].user
    BY <1>3 DEF AuditedForUser
  <2>1. CASE i = n + 1
    BY <1>3, <2>1
  <2>2. CASE i \in 1..n
    BY <1>2, <1>3, <2>2 DEF DialogueInv, AuditedForUser
  <2> QED BY <1>2, <2>1, <2>2
<1>8. \A p \in Requests : p # r => FollowsUp(query[p])' /\ NamesOwnRow(query[p])'
  BY <1>4, <1>5, OthersCarried
<1>9. FollowsUp(query[r])'
  BY <1>5 DEF FollowsUp
<1>10. NamesOwnRow(query[r])'
  <2>1. x.at = "result" => x.ref \in 1..(n + 1) /\ auditLog'[x.ref] = a
    BY <1>2, <1>3
  <2> QED BY <1>3, <1>5, <2>1 DEF NamesOwnRow
<1>11. ASSUME NEW d \in Sessions PROVE SessionFits(d)'
  <2>1. \A p \in Requests : WillName(query[p], d) => WillName(query[p], d)' \/ d \in cutShort'
    <3> SUFFICES ASSUME NEW p \in Requests, WillName(query[p], d)
                 PROVE  WillName(query[p], d)'
      OBVIOUS
    <3>1. CASE p # r
      BY <1>5, <3>1 DEF WillName
    <3>2. CASE p = r
      BY <1>5, <3>2 DEF WillName
    <3> QED BY <3>1, <3>2
  <2> QED BY <1>4, <2>1, SessionCarried
<1> QED BY <1>6, <1>7, <1>8, <1>9, <1>10, <1>11 DEF DialogueInv

\* Where a request stands after its audit row.
LEMMA AuditMoves ==
    ASSUME DialogueInv, NEW r \in Requests, query[r].at \in {"audit", "execute"},
           NEW next \in {"free", "result", "store"}, AfterAudit(r, next),
           next = "result" => query[r].session # None,
           next = "store" => query[r].session = None
    PROVE  \E x \in Queries :
             /\ QueryFits(x) /\ query' = [query EXCEPT ![r] = x] /\ FollowsUp(x) /\ x.at = next
             /\ next = "result" => x.session = query[r].session /\ x.ref = Len(auditLog) + 1 /\ x.user = query[r].user
<1>1. PICK q : q = query[r]
  OBVIOUS
<1>2. q \in Queries /\ QueryFits(q) /\ FollowsUp(q) /\ auditLog \in Seq(AuditRows)
      /\ q.at \in {"audit", "execute"} /\ q.user \in Callers /\ q.generated \in Answers
  BY <1>1 DEF DialogueInv, DialogueTyped, QueryFits
<1>3. CASE next = "free"
  <2>1. query' = [query EXCEPT ![r] = Idle]
    BY <1>3 DEF AfterAudit
  <2>2. FollowsUp(Idle)
    BY IdleQuery DEF FollowsUp
  <2> QED BY <1>3, <2>1, <2>2, IdleQuery
<1>4. CASE next = "result"
  <2>1. PICK x : x = [q EXCEPT !.at = "result", !.ref = Len(auditLog) + 1]
    OBVIOUS
  <2>2. query' = [query EXCEPT ![r] = x]
    BY <1>1, <1>4, <2>1 DEF AfterAudit
  <2>3. Len(auditLog) + 1 \in Nat
    BY <1>2
  <2>4. /\ x \in Queries /\ x.at = "result" /\ x.ref = Len(auditLog) + 1 /\ x.user = q.user
        /\ x.session = q.session /\ x.question = q.question /\ x.generated = q.generated
    BY <1>2, <2>1, <2>3 DEF Queries, QuerySteps
  <2>5. QueryFits(x) /\ FollowsUp(x)
    BY <1>1, <1>2, <1>4, <2>4 DEF QueryFits, FollowsUp
  <2> QED BY <1>1, <1>4, <2>2, <2>4, <2>5
<1>5. CASE next = "store"
  <2>1. PICK x : x = [q EXCEPT !.at = "store"]
    OBVIOUS
  <2>2. query' = [query EXCEPT ![r] = x]
    BY <1>1, <1>5, <2>1 DEF AfterAudit
  <2>3. /\ x \in Queries /\ x.at = "store" /\ x.user = q.user /\ x.question = q.question
        /\ x.session = q.session /\ x.generated = q.generated
    BY <1>2, <2>1, QueryMoved DEF QuerySteps
  <2>4. QueryFits(x) /\ FollowsUp(x)
    BY <1>1, <1>2, <1>5, <2>3 DEF QueryFits, FollowsUp
  <2> QED BY <1>5, <2>2, <2>3, <2>4
<1> QED BY <1>3, <1>4, <1>5

LEMMA AuditCommitted ==
    ASSUME DialogueInv, NEW r \in Requests, CommitAudit(r)
    PROVE  DialogueInv'
<1>1. PICK q : q = query[r]
  OBVIOUS
<1>2. q.at = "audit" /\ q \in Queries /\ QueryFits(q) /\ q.user \in Callers /\ q.generated \in Answers
  BY <1>1 DEF CommitAudit, DialogueInv, DialogueTyped, QueryFits
<1>3. PICK a : a = [user |-> q.user, status |-> IF Passed(q) THEN "audited" ELSE q.generated.status,
                    ranFor |-> None, candidate |-> None]
  OBVIOUS
<1>4. a.user = q.user /\ a.status \in {"audited", "refused", "clarification_required"}
      /\ (Passed(q) => a.status = "audited") /\ a \in AuditRows
  BY <1>2, <1>3 DEF AuditRows, Answered, Answers, Passed
<1>5. auditLog' = Append(auditLog, a) /\ UNCHANGED <<clarification, sqlCache, cutShort>>
  BY <1>1, <1>3 DEF CommitAudit, Record
<1>6. PICK next : /\ next = IF ~ Passed(q) THEN "free" ELSE IF q.session # None THEN "result" ELSE "store"
                  /\ AfterAudit(r, next)
  BY <1>1 DEF CommitAudit
<1>7. PICK x \in Queries :
        /\ QueryFits(x) /\ query' = [query EXCEPT ![r] = x] /\ FollowsUp(x) /\ x.at = next
        /\ next = "result" => x.session = q.session /\ x.ref = Len(auditLog) + 1 /\ x.user = q.user
  BY <1>1, <1>2, <1>6, AuditMoves
<1>8. x.at = "result" => x.ref = Len(auditLog) + 1 /\ a.user = x.user /\ a.status \in Answered
  BY <1>4, <1>6, <1>7 DEF Answered
<1>9. \A d \in Sessions : WillName(query[r], d) => WillName(x, d)
  <2> SUFFICES ASSUME NEW d \in Sessions, WillName(q, d) PROVE WillName(x, d)
    BY <1>1
  <2>1. Passed(q) /\ q.session = d /\ d # None
    BY <1>2, DialogueAssumption DEF WillName, Sessions
  <2> QED BY <1>6, <1>7, <2>1 DEF WillName
<1>10. a.status # "executed"
  BY <1>4
<1> QED BY <1>4, <1>5, <1>7, <1>8, <1>9, <1>10, Recorded

\* execute_readonly_sql audits the statement once more, whoever's answer it came from.
LEMMA Executed ==
    ASSUME DialogueInv, NEW r \in Requests, Execute(r)
    PROVE  DialogueInv'
<1>1. PICK q : q = query[r]
  OBVIOUS
<1>2. q.at = "execute" /\ q \in Queries /\ QueryFits(q) /\ q.user \in Callers /\ q.generated \in Answers
  BY <1>1 DEF Execute, DialogueInv, DialogueTyped, QueryFits
<1>3. PICK a \in AuditRows :
        /\ auditLog' = Append(auditLog, a) /\ a.user = q.user /\ a.status \in Answered
        /\ a.status = "executed" => a.ranFor = a.user
  <2>1. CASE Record(q, "executed", q.user)
    <3>1. q.user # None /\ q.generated.candidate \in Candidates \cup {None}
      BY <1>2, DialogueAssumption DEF Answers
    <3>2. PICK a : a = [user |-> q.user, status |-> "executed", ranFor |-> q.user,
                        candidate |-> q.generated.candidate]
      OBVIOUS
    <3>3. auditLog' = Append(auditLog, a)
      BY <2>1, <3>1, <3>2 DEF Record
    <3>4. a \in AuditRows /\ a.user = q.user /\ a.status \in Answered /\ a.ranFor = a.user
      BY <1>2, <2>1, <3>1, <3>2 DEF AuditRows, Answered
    <3> QED BY <3>3, <3>4
  <2>2. ASSUME NEW status \in {"failed", "rejected"}, Record(q, status, None)
        PROVE  \E a \in AuditRows :
                 /\ auditLog' = Append(auditLog, a) /\ a.user = q.user /\ a.status \in Answered
                 /\ a.status = "executed" => a.ranFor = a.user
    <3>1. PICK a : a = [user |-> q.user, status |-> status, ranFor |-> None, candidate |-> None]
      OBVIOUS
    <3>2. auditLog' = Append(auditLog, a)
      BY <2>2, <3>1 DEF Record
    <3>3. a \in AuditRows /\ a.user = q.user /\ a.status \in Answered /\ a.status # "executed"
      BY <1>2, <3>1 DEF AuditRows, Answered
    <3> QED BY <3>2, <3>3
  <2> QED BY <1>1, <2>1, <2>2 DEF Execute
<1>4. UNCHANGED <<clarification, sqlCache, cutShort>>
  BY DEF Execute
<1>5. PICK next : next = (IF q.session # None THEN "result" ELSE "free") /\ AfterAudit(r, next)
  BY <1>1 DEF Execute
<1>6. PICK x \in Queries :
        /\ QueryFits(x) /\ query' = [query EXCEPT ![r] = x] /\ FollowsUp(x) /\ x.at = next
        /\ next = "result" => x.session = q.session /\ x.ref = Len(auditLog) + 1 /\ x.user = q.user
  BY <1>1, <1>2, <1>5, AuditMoves
<1>7. \A d \in Sessions : WillName(query[r], d) => WillName(x, d)
  <2> SUFFICES ASSUME NEW d \in Sessions, WillName(q, d) PROVE WillName(x, d)
    BY <1>1
  <2>1. q.session = d /\ d # None
    BY DialogueAssumption DEF WillName, Sessions
  <2> QED BY <1>5, <1>6, <2>1 DEF WillName
<1>8. x.at = "result" => x.ref = Len(auditLog) + 1 /\ a.user = x.user /\ a.status \in Answered
  BY <1>3, <1>5, <1>6
<1> QED BY <1>3, <1>4, <1>6, <1>7, <1>8, Recorded

LEMMA ResultNamed ==
    ASSUME DialogueInv, NEW r \in Requests, ResolveWithResult(r)
    PROVE  DialogueInv'
<1>1. PICK q : q = query[r]
  OBVIOUS
<1>2. q.at = "result" /\ q \in Queries /\ QueryFits(q) /\ FollowsUp(q) /\ NamesOwnRow(q)
  BY <1>1 DEF ResolveWithResult, DialogueInv, DialogueTyped, QueryFits
<1>3. PICK d \in Sessions : d = q.session
  BY <1>2 DEF Queries, QueryFits
<1>4. /\ d # None /\ clarification[d] # None /\ clarification[d].user = q.user
      /\ Len(clarification[d].replies) >= 1
  BY <1>2, <1>3 DEF FollowsUp, QueryFits
<1>5. PICK s : s = [clarification[d] EXCEPT !.status = "resolved", !.ref = q.ref]
  OBVIOUS
<1>6. clarification[d] \in ClarificationRows /\ auditLog \in Seq(AuditRows)
  BY <1>4 DEF DialogueInv, DialogueTyped
<1>7. q.ref \in DOMAIN auditLog /\ q.ref \in Nat /\ q.ref # None
      /\ auditLog[q.ref].user = q.user /\ auditLog[q.ref].status \in Answered
  BY <1>2, <1>6, DialogueAssumption DEF NamesOwnRow
<1>8. /\ s \in ClarificationRows /\ s.user = clarification[d].user /\ s.ref = q.ref
      /\ s.replies = clarification[d].replies
  BY <1>5, <1>6, <1>7 DEF ClarificationRows
<1>9. s # None
  BY <1>8, DialogueAssumption
<1>10. /\ clarification' = [clarification EXCEPT ![d] = s]
       /\ UNCHANGED <<auditLog, sqlCache, cutShort>>
  BY <1>1, <1>3, <1>5 DEF ResolveWithResult
<1>11. clarification' \in [Sessions -> ClarificationRows \cup {None}] /\ clarification'[d] = s
       /\ \A e \in Sessions : e # d => clarification'[e] = clarification[e]
  BY <1>8, <1>10 DEF DialogueInv, DialogueTyped
<1>12. PICK x \in Queries : /\ QueryFits(x) /\ query' = [query EXCEPT ![r] = x] /\ x.at # "result"
                            /\ x.at # "reply" /\ (x.session = None \/ (x.session = d /\ x.user = q.user))
  <2>1. CASE Done(r)
    BY <2>1, IdleQuery DEF Done
  <2>2. CASE GoOn(r, "store")
    <3>1. PICK x : x = [q EXCEPT !.at = "store"]
      OBVIOUS
    <3>2. /\ x \in Queries /\ x.at = "store" /\ x.user = q.user /\ x.question = q.question
          /\ x.session = q.session /\ x.generated = q.generated
      BY <1>2, <3>1, QueryMoved DEF QuerySteps
    <3>3. QueryFits(x)
      BY <1>2, <3>2 DEF QueryFits
    <3>4. query' = [query EXCEPT ![r] = x]
      BY <1>1, <2>2, <3>1 DEF GoOn
    <3> QED BY <1>3, <3>2, <3>3, <3>4
  <2> QED BY <2>1, <2>2 DEF ResolveWithResult, AfterResult
<1>13. /\ query' \in [Requests -> Queries] /\ \A p \in Requests : QueryFits(query'[p])
       /\ query'[r] = x /\ \A p \in Requests : p # r => query'[p] = query[p]
  BY <1>12, OneMoves DEF DialogueInv
<1>14. DialogueTyped'
  BY <1>10, <1>11, <1>13 DEF DialogueInv, DialogueTyped
<1>15. AuditedForUser'
  BY <1>10 DEF DialogueInv, AuditedForUser
<1>16. \A p \in Requests : p # r => FollowsUp(query[p])' /\ NamesOwnRow(query[p])'
  <2>1. \A e \in Sessions : clarification[e] # None =>
           /\ clarification'[e] # None /\ clarification'[e].user = clarification[e].user
           /\ Len(clarification[e].replies) >= 1 => Len(clarification'[e].replies) >= 1
    BY <1>4, <1>8, <1>9, <1>11
  <2> QED BY <1>10, <1>13, <2>1, LogUnchanged, OthersCarried
<1>17. FollowsUp(query[r])' /\ NamesOwnRow(query[r])'
  BY <1>4, <1>8, <1>9, <1>11, <1>12, <1>13 DEF FollowsUp, NamesOwnRow
<1>18. ASSUME NEW e \in Sessions PROVE SessionFits(e)'
  <2>1. CASE e # d
    <3>1. clarification'[e] = clarification[e]
      BY <1>11, <2>1
    <3>2. \A p \in Requests : WillName(query[p], e) => WillName(query[p], e)' \/ e \in cutShort'
      <4> SUFFICES ASSUME NEW p \in Requests, WillName(query[p], e)
                   PROVE  WillName(query[p], e)'
        OBVIOUS
      <4>1. p # r
        BY <1>1, <1>3, <2>1 DEF WillName
      <4> QED BY <1>13, <4>1 DEF WillName
    <3> QED BY <1>10, <3>1, <3>2, LogUnchanged, SessionCarried
  <2>2. CASE e = d
    <3>1. SessionFits(d)
      BY DEF DialogueInv
    <3> QED BY <1>4, <1>7, <1>8, <1>10, <1>11, <2>2, <3>1 DEF SessionFits
  <2> QED BY <2>1, <2>2
<1> QED BY <1>14, <1>15, <1>16, <1>17, <1>18 DEF DialogueInv

LEMMA DialogueStep == DialogueInv /\ [DialogueNext]_dialogueVars => DialogueInv'
<1> SUFFICES ASSUME DialogueInv, [DialogueNext]_dialogueVars PROVE DialogueInv'
  OBVIOUS
<1>1. ASSUME UNCHANGED <<clarification, auditLog, query, cutShort>>,
             sqlCache' \subseteq sqlCache
      PROVE  DialogueInv'
  <2>1. DialogueTyped' /\ AuditedForUser'
    BY <1>1 DEF DialogueInv, DialogueTyped, AuditedForUser
  <2>2. \A r \in Requests : FollowsUp(query[r])' /\ NamesOwnRow(query[r])'
    BY <1>1 DEF DialogueInv, FollowsUp, NamesOwnRow
  <2>3. \A d \in Sessions : SessionFits(d)'
    BY <1>1 DEF DialogueInv, SessionFits, WillName
  <2> QED BY <2>1, <2>2, <2>3 DEF DialogueInv
<1>2. ASSUME NEW e \in sqlCache, ExpireAnswer(e) PROVE DialogueInv'
  BY <1>1, <1>2 DEF ExpireAnswer
<1>3. CASE UNCHANGED dialogueVars
  BY <1>1, <1>3 DEF dialogueVars
<1> QED BY <1>2, <1>3, QueryBegins, FollowUpBegins, ReplyCommitted, Generated, AuditCommitted,
        Executed, Resolved, ResultNamed, Stored, QueryLost, SessionOpened DEF DialogueNext

LEMMA DialogueAlways == DialogueSpec => []DialogueInv
BY DialogueStarts, DialogueStep, PTL DEF DialogueSpec

\* The condition that the audit appends lets nothing through that apply_data_scope would
\* not return, or the company-wide metrics.
LEMMA AuditedStaysInScope ==
    ASSUME NEW u \in Callers, NEW s, NEW combination, Returns(s, combination, u),
           NEW k \in DOMAIN s.from
    PROVE  MayShow(combination[k], s.from[k].table, u)
<1>1. PICK table : table = s.from[k].table
  OBVIOUS
<1>2. ScopeCondition(combination[k], table, u)
  BY <1>1 DEF Returns, Scoped
<1>3. u.scopeType = "project" => u.dataScope = "org"
  BY DialogueAssumption
<1>4. MayShow(combination[k], table, u)
  BY <1>2, <1>3 DEF ScopeCondition, ByProject, ByOrg, MayShow, InDataScope
<1> QED BY <1>1, <1>4

\* The rows of its own tables that a statement returns are rows the caller may see
\* (execute_readonly_sql).
THEOREM AnswersStayInScope == DialogueSpec => []AnswersInScope
<1>1. DialogueInv => AnswersInScope
  <2> SUFFICES ASSUME DialogueInv, NEW i \in DOMAIN auditLog, auditLog[i].status = "executed",
                      NEW combination \in [DOMAIN auditLog[i].candidate.from -> Rows],
                      Returns(auditLog[i].candidate, combination, auditLog[i].ranFor),
                      NEW k \in DOMAIN auditLog[i].candidate.from
               PROVE  MayShow(combination[k], auditLog[i].candidate.from[k].table, auditLog[i].user)
    BY DEF AnswersInScope
  <2>1. auditLog[i].ranFor = auditLog[i].user
    BY DEF DialogueInv, AuditedForUser
  <2>2. auditLog[i].user \in Callers
    <3>1. auditLog[i] \in AuditRows
      BY DEF DialogueInv, DialogueTyped
    <3> QED BY <3>1 DEF AuditRows
  <2> QED BY <2>1, <2>2, AuditedStaysInScope
<1> QED BY <1>1, DialogueAlways, PTL

\* A resolved session names its own user's answer, or somebody still will, or failed to
\* (resolve_clarification_session).
THEOREM ResolvedNamesResult == DialogueSpec => []ResolvedHasResult
<1>1. DialogueInv => ResolvedHasResult
  <2> SUFFICES ASSUME DialogueInv, NEW d \in Sessions, clarification[d] # None,
                      clarification[d].status = "resolved"
               PROVE  /\ Len(clarification[d].replies) \in 1..MaxReplies
                      /\ IF clarification[d].ref # None
                         THEN /\ auditLog[clarification[d].ref].user = clarification[d].user
                              /\ auditLog[clarification[d].ref].status \in Answered
                         ELSE d \in cutShort \/ \E r \in Requests : query[r].session = d
    BY DEF ResolvedHasResult, Answered
  <2>1. SessionFits(d)
    BY DEF DialogueInv
  <2>2. clarification[d].replies \in Seq(Replies)
    BY DEF DialogueInv, DialogueTyped, ClarificationRows
  <2>3. Len(clarification[d].replies) \in Nat
    BY <2>2
  <2> QED BY <2>1, <2>3, DialogueAssumption DEF SessionFits, WillName
<1> QED BY <1>1, DialogueAlways, PTL
-----------------------------------------------------------------------------
ImportJobs == [at : {"import"}, batch : Batches, reingest : BOOLEAN, found : SUBSET Cases]
ReadJobs == [at : {"read"}, tenant : Tenants, touched : SUBSET Cases]
Snapshots == UNION {[S -> LibraryRows] : S \in SUBSET Cases}
WriteJobs == [at : {"upsert", "mark"}, touched : SUBSET Cases, seen : Snapshots]

CaseTyped ==
    /\ caseRow \in [Cases -> LibraryRows \cup {None}]
    /\ vectors \in [Cases -> Entities \cup {None}]
    /\ job \in [Requests -> {NoJob} \cup ImportJobs \cup ReadJobs \cup WriteJobs]

\* What was read is still there: no row is ever deleted.
StillThere ==
    \A r \in Requests : job[r].at \in {"upsert", "mark"} =>
        \A c \in DOMAIN job[r].seen : caseRow[c] # None

OneJob == \A q, r \in Requests : job[q] # NoJob /\ job[r] # NoJob => q = r
SeenIsNow ==
    \A r \in Requests : job[r].at = "upsert" =>
        \A c \in DOMAIN job[r].seen : caseRow[c] = job[r].seen[c]
StoredIsNow ==
    \A r \in Requests : job[r].at = "mark" =>
        \A c \in DOMAIN job[r].seen : caseRow[c] # None /\ vectors[c] = VectorOf(caseRow[c])
MarkedIsStored ==
    \A c \in Cases : caseRow[c] # None /\ caseRow[c].embedded => vectors[c] = VectorOf(caseRow[c])

CaseInv ==
    /\ CaseTyped /\ StillThere
    /\ ~ crossed => OneJob /\ SeenIsNow /\ StoredIsNow /\ MarkedIsStored

LEMMA MaxMember ==
    ASSUME NEW n \in Nat, NEW T \in SUBSET (1..n), T # {}
    PROVE  Max(T) \in T
<1>1. T \in SUBSET Nat /\ \A t \in T : t <= n
  OBVIOUS
<1>2. \E x \in T : \A y \in T : x >= y
  BY <1>1, LargestOf
<1> QED BY <1>2 DEF Max

\* What an import writes is a row of the library, whatever was there before.
LEMMA ImportedType ==
    ASSUME NEW b \in Batches, NEW c \in Cases, Occurrences(b, c) # {},
           caseRow \in [Cases -> LibraryRows \cup {None}]
    PROVE  Imported(b, c) \in LibraryRows /\ ~ Imported(b, c).embedded
<1>1. PICK n \in Nat : DOMAIN b = 1..n /\ \A i \in 1..n : b[i] \in CsvRows
  <2>1. b \in Seq(CsvRows)
    BY CaseAssumption
  <2> QED BY <2>1
<1>2. Occurrences(b, c) \in SUBSET (1..n) /\ Texted(b, c) \in SUBSET (1..n)
  BY <1>1 DEF Occurrences, Texted
<1>3. b[Max(Occurrences(b, c))].tenant \in Tenants
  BY <1>1, <1>2, MaxMember DEF CsvRows
<1> DEFINE text == IF Texted(b, c) # {} THEN b[Max(Texted(b, c))].text
                   ELSE IF caseRow[c] = None THEN None ELSE caseRow[c].text
<1>4. text \in Texts \cup {None}
  <2>1. CASE Texted(b, c) # {}
    <3>1. Max(Texted(b, c)) \in 1..n
      BY <2>1, <1>2, MaxMember
    <3> QED BY <2>1, <3>1, <1>1 DEF CsvRows
  <2>2. CASE Texted(b, c) = {}
    BY <2>2 DEF LibraryRows
  <2> QED BY <2>1, <2>2
<1>5. Imported(b, c) = [tenant |-> b[Max(Occurrences(b, c))].tenant, text |-> text, embedded |-> FALSE]
  BY DEF Imported
<1> HIDE DEF text
<1> QED BY <1>3, <1>4, <1>5 DEF LibraryRows

LEMMA JobShape ==
    ASSUME NEW j \in {NoJob} \cup ImportJobs \cup ReadJobs \cup WriteJobs
    PROVE  /\ j.at # "free" => j # NoJob
           /\ j.at = "import" => j \in ImportJobs
           /\ j.at = "read" => j \in ReadJobs
           /\ j.at \in {"upsert", "mark"} => j \in WriteJobs
           /\ NoJob.at = "free"
<1>1. CASE j = NoJob
  BY <1>1 DEF NoJob
<1>2. CASE j \in ImportJobs
  BY <1>2 DEF NoJob, ImportJobs
<1>3. CASE j \in ReadJobs
  BY <1>3 DEF NoJob, ReadJobs
<1>4. CASE j \in WriteJobs
  BY <1>4 DEF NoJob, WriteJobs
<1> QED BY <1>1, <1>2, <1>3, <1>4

\* The rows of the library and of the collection are no None, and what the search
\* compares of them is an entity.
LEMMA NotNone ==
    /\ \A row \in LibraryRows : row # None /\ VectorOf(row) \in Entities
    /\ \A v \in Entities : v # None
BY CaseAssumption DEF LibraryRows, Entities, VectorOf

LEMMA CaseStarts == CaseInit => CaseInv
<1> SUFFICES ASSUME CaseInit PROVE CaseInv
  OBVIOUS
<1>1. CaseTyped
  BY DEF CaseInit, CaseTyped
<1>2. OneJob
  BY DEF CaseInit, OneJob
<1>3. \A r \in Requests : job[r].at = "free"
  BY DEF CaseInit, NoJob
<1>4. SeenIsNow /\ StoredIsNow
  BY <1>3 DEF SeenIsNow, StoredIsNow
<1>5. MarkedIsStored
  BY DEF CaseInit, MarkedIsStored
<1>6. StillThere
  BY <1>3 DEF StillThere
<1> QED BY <1>1, <1>2, <1>4, <1>5, <1>6 DEF CaseInv

\* A job that ends takes nothing with it.
LEMMA JobEnds ==
    ASSUME CaseInv, NEW r \in Requests, EndJob(r),
           UNCHANGED <<caseRow, vectors, crossed>>
    PROVE  CaseInv'
<1> USE DEF CaseInv
<1>1. job' \in [Requests -> {NoJob} \cup ImportJobs \cup ReadJobs \cup WriteJobs]
      /\ job'[r] = NoJob /\ \A q \in Requests : q # r => job'[q] = job[q]
  BY DEF CaseTyped, EndJob
<1>2. NoJob.at = "free"
  BY DEF NoJob
<1>3. CaseTyped'
  BY <1>1 DEF CaseTyped
<1>s. StillThere'
  BY <1>1, <1>2 DEF StillThere
<1>4. ASSUME ~ crossed'
      PROVE  (OneJob /\ SeenIsNow /\ StoredIsNow /\ MarkedIsStored)'
  <2>1. OneJob /\ SeenIsNow /\ StoredIsNow /\ MarkedIsStored
    BY <1>4
  <2>2. OneJob'
    BY <1>1, <2>1 DEF OneJob
  <2>3. SeenIsNow' /\ StoredIsNow'
    BY <1>1, <1>2, <2>1 DEF SeenIsNow, StoredIsNow
  <2>4. MarkedIsStored'
    BY <2>1 DEF MarkedIsStored
  <2> QED BY <2>2, <2>3, <2>4
<1> QED BY <1>3, <1>s, <1>4

\* A script or request that starts has read nothing yet that it would write.
LEMMA JobStarts ==
    ASSUME CaseInv, NEW r \in Requests, NEW j \in ImportJobs \cup ReadJobs, StartJob(r, j)
    PROVE  CaseInv'
<1> USE DEF CaseInv
<1>1. job[r] = NoJob /\ UNCHANGED <<caseRow, vectors>>
      /\ crossed' = (crossed \/ \E q \in Requests : job[q] # NoJob)
  BY DEF StartJob
<1>2. job' \in [Requests -> {NoJob} \cup ImportJobs \cup ReadJobs \cup WriteJobs]
      /\ job'[r] = j /\ \A q \in Requests : q # r => job'[q] = job[q]
  BY DEF CaseTyped, StartJob
<1>3. j.at \in {"import", "read"}
  BY DEF ImportJobs, ReadJobs
<1>4. CaseTyped'
  BY <1>1, <1>2 DEF CaseTyped
<1>s. StillThere'
  BY <1>1, <1>2, <1>3 DEF StillThere
<1>5. ASSUME ~ crossed'
      PROVE  (OneJob /\ SeenIsNow /\ StoredIsNow /\ MarkedIsStored)'
  <2>1. ~ crossed /\ \A q \in Requests : job[q] = NoJob
    BY <1>1, <1>5
  <2>2. OneJob'
    BY <1>2, <2>1 DEF OneJob
  <2>3. \A q \in Requests : job'[q].at \notin {"upsert", "mark"}
    BY <1>2, <1>3, <2>1 DEF NoJob
  <2>4. SeenIsNow' /\ StoredIsNow'
    BY <2>3 DEF SeenIsNow, StoredIsNow
  <2>5. MarkedIsStored'
    BY <1>1, <2>1 DEF MarkedIsStored
  <2> QED BY <2>2, <2>4, <2>5
<1> QED BY <1>4, <1>s, <1>5

\* While one job alone is open, the others have nothing in hand.
LEMMA OthersFree ==
    ASSUME OneJob, NEW r \in Requests, job[r] # NoJob
    PROVE  \A q \in Requests : q # r => job[q] = NoJob /\ job[q].at = "free"
BY DEF OneJob, NoJob

LEMMA ImportCommitted ==
    ASSUME CaseInv, NEW r \in Requests, CommitImport(r)
    PROVE  CaseInv'
<1> DEFINE j == job[r]
           b == job[r].batch
           tenants == {job[r].batch[i].tenant : i \in DOMAIN job[r].batch}
           touched == {job[r].batch[i].case : i \in DOMAIN job[r].batch}
<1>1. j.at = "import" /\ UNCHANGED <<vectors, milvusUp, scripts, crossed>>
  BY DEF CommitImport
<1>2. j \in ImportJobs /\ j # NoJob
  BY <1>1, JobShape DEF CaseInv, CaseTyped
<1>3. b \in Batches
  BY <1>2 DEF ImportJobs
<1>4. CASE UNCHANGED caseRow /\ EndJob(r)
  BY <1>1, <1>4, JobEnds
<1>5. CASE /\ caseRow' = [c \in Cases |-> IF Occurrences(b, c) # {} THEN Imported(b, c) ELSE caseRow[c]]
           /\ \/ EndJob(r)
              \/ /\ Cardinality(tenants) = 1
                 /\ job' = [job EXCEPT ![r] = [at |-> "read", tenant |-> CHOOSE t \in tenants : TRUE,
                                               touched |-> touched]]
  <2>1. caseRow' \in [Cases -> LibraryRows \cup {None}]
    BY <1>3, <1>5, ImportedType DEF CaseInv, CaseTyped
  <2>2. PICK n \in Nat : DOMAIN b = 1..n /\ \A i \in 1..n : b[i] \in CsvRows
    BY <1>3, CaseAssumption
  <2>3. tenants \subseteq Tenants /\ touched \subseteq Cases
    <3>1. \A i \in DOMAIN b : b[i].tenant \in Tenants /\ b[i].case \in Cases
      BY <2>2 DEF CsvRows
    <3>2. tenants \subseteq Tenants
      BY <3>1
    <3>3. touched \subseteq Cases
      BY <3>1
    <3> QED BY <3>2, <3>3
  <2>4. Cardinality(tenants) = 1 => tenants # {}
    <3>1. Cardinality({}) = 0
      BY FS_EmptySet
    <3>2. ASSUME tenants = {} PROVE Cardinality(tenants) = 0
      BY <3>1, <3>2
    <3> HIDE DEF tenants
    <3> QED BY <3>2
  <2>5. PICK x : /\ x \in {NoJob} \cup ReadJobs
                 /\ job' = [job EXCEPT ![r] = x]
    <3>1. CASE EndJob(r)
      BY <3>1 DEF EndJob
    <3>2. CASE /\ Cardinality(tenants) = 1
               /\ job' = [job EXCEPT ![r] = [at |-> "read", tenant |-> CHOOSE t \in tenants : TRUE,
                                             touched |-> touched]]
      <4>1. (CHOOSE t \in tenants : TRUE) \in Tenants
        BY <2>3, <2>4, <3>2
      <4> HIDE DEF tenants, touched
      <4>2. [at |-> "read", tenant |-> CHOOSE t \in tenants : TRUE, touched |-> touched] \in ReadJobs
        BY <4>1, <2>3 DEF ReadJobs
      <4> QED BY <3>2, <4>2
    <3> QED BY <1>5, <3>1, <3>2
  <2>6. x.at \in {"free", "read"}
    BY <2>5 DEF NoJob, ReadJobs
  <2>7. /\ job' \in [Requests -> {NoJob} \cup ImportJobs \cup ReadJobs \cup WriteJobs]
        /\ job'[r] = x /\ \A q \in Requests : q # r => job'[q] = job[q]
    BY <2>5 DEF CaseInv, CaseTyped
  <2>8. CaseTyped'
    BY <1>1, <2>1, <2>7 DEF CaseInv, CaseTyped
  <2>s. StillThere'
    <3>1. \A c \in Cases : caseRow[c] # None => caseRow'[c] # None
      <4>1. caseRow \in [Cases -> LibraryRows \cup {None}]
        BY DEF CaseInv, CaseTyped
      <4> QED BY <1>3, <1>5, <4>1, ImportedType, NotNone
    <3>2. \A q \in Requests : q # r /\ job[q].at \in {"upsert", "mark"} => DOMAIN job[q].seen \subseteq Cases
      BY JobShape DEF CaseInv, CaseTyped, WriteJobs, Snapshots
    <3>3. StillThere
      BY DEF CaseInv
    <3>4. \A q \in Requests : q # r /\ job[q].at \in {"upsert", "mark"} =>
             \A c \in DOMAIN job[q].seen : caseRow'[c] # None
      BY <3>1, <3>2, <3>3 DEF StillThere
    <3>5. job'[r].at \notin {"upsert", "mark"}
      BY <2>6, <2>7
    <3> QED BY <2>7, <3>4, <3>5 DEF StillThere
  <2>9. ASSUME ~ crossed'
        PROVE  (OneJob /\ SeenIsNow /\ StoredIsNow /\ MarkedIsStored)'
    <3>1. OneJob /\ MarkedIsStored
      BY <1>1, <2>9 DEF CaseInv
    <3>2. \A q \in Requests : q # r => job'[q] = NoJob /\ job'[q].at = "free"
      BY <1>2, <2>7, <3>1, OthersFree
    <3>3. OneJob'
      BY <3>2 DEF OneJob
    <3>4. \A q \in Requests : job'[q].at \notin {"upsert", "mark"}
      <4>1. job'[r].at \notin {"upsert", "mark"}
        BY <2>6, <2>7
      <4> QED BY <3>2, <4>1
    <3>5. SeenIsNow' /\ StoredIsNow'
      BY <3>4 DEF SeenIsNow, StoredIsNow
    <3>6. MarkedIsStored'
      <4> SUFFICES ASSUME NEW c \in Cases, caseRow'[c] # None, caseRow'[c].embedded
                   PROVE  vectors'[c] = VectorOf(caseRow'[c])
        BY DEF MarkedIsStored
      <4>1. caseRow \in [Cases -> LibraryRows \cup {None}]
        BY DEF CaseInv, CaseTyped
      <4>2. Occurrences(b, c) = {}
        BY <1>3, <1>5, <4>1, ImportedType
      <4>3. caseRow'[c] = caseRow[c]
        BY <1>5, <4>2
      <4> QED BY <1>1, <3>1, <4>3 DEF MarkedIsStored
    <3> QED BY <3>3, <3>5, <3>6
  <2> QED BY <2>8, <2>s, <2>9 DEF CaseInv
<1> QED BY <1>4, <1>5 DEF CommitImport

LEMMA CasesRead ==
    ASSUME CaseInv, NEW r \in Requests, ReadCases(r)
    PROVE  CaseInv'
<1>1. job[r].at = "read" /\ UNCHANGED <<caseRow, vectors, milvusUp, scripts, crossed>>
  BY DEF ReadCases
<1>2. job[r] \in ReadJobs /\ job[r] # NoJob
  BY <1>1, JobShape DEF CaseInv, CaseTyped
<1>3. CASE EndJob(r)
  BY <1>1, <1>3, JobEnds
<1>4. CASE ~ EndJob(r)
  <2> DEFINE own == {d \in Cases : caseRow[d] # None /\ caseRow[d].tenant = job[r].tenant}
  <2>1. PICK x : /\ x = [at |-> "upsert", touched |-> job[r].touched, seen |-> [c \in own |-> caseRow[c]]]
                 /\ job' = [job EXCEPT ![r] = x]
    BY <1>4 DEF ReadCases
  <2>2. [c \in own |-> caseRow[c]] \in [own -> LibraryRows] /\ own \in SUBSET Cases
    BY DEF CaseInv, CaseTyped
  <2>3. x.seen \in Snapshots /\ x.at = "upsert" /\ x.touched \in SUBSET Cases
    <3> HIDE DEF own
    <3> QED BY <1>2, <2>1, <2>2 DEF Snapshots, ReadJobs
  <2>4. x \in WriteJobs
    <3> HIDE DEF own
    <3> QED BY <2>1, <2>3 DEF WriteJobs
  <2>5. /\ job' \in [Requests -> {NoJob} \cup ImportJobs \cup ReadJobs \cup WriteJobs]
        /\ job'[r] = x /\ \A q \in Requests : q # r => job'[q] = job[q]
    BY <2>1, <2>4 DEF CaseInv, CaseTyped
  <2>6. CaseTyped'
    BY <1>1, <2>5 DEF CaseInv, CaseTyped
  <2>s. StillThere'
    <3>1. \A c \in DOMAIN x.seen : caseRow[c] # None
      BY <2>1
    <3> QED BY <1>1, <2>5, <3>1 DEF CaseInv, StillThere
  <2>7. ASSUME ~ crossed'
        PROVE  (OneJob /\ SeenIsNow /\ StoredIsNow /\ MarkedIsStored)'
    <3>1. OneJob /\ MarkedIsStored
      BY <1>1, <2>7 DEF CaseInv
    <3>2. \A q \in Requests : q # r => job'[q] = NoJob /\ job'[q].at = "free"
      BY <1>2, <2>5, <3>1, OthersFree
    <3>3. OneJob'
      BY <3>2 DEF OneJob
    <3>4. SeenIsNow'
      <4>1. \A c \in DOMAIN x.seen : caseRow[c] = x.seen[c]
        BY <2>1
      <4> QED BY <1>1, <2>5, <3>2, <4>1 DEF SeenIsNow
    <3>5. StoredIsNow'
      BY <2>3, <2>5, <3>2 DEF StoredIsNow
    <3>6. MarkedIsStored'
      BY <1>1, <3>1 DEF MarkedIsStored
    <3> QED BY <3>3, <3>4, <3>5, <3>6
  <2> QED BY <2>6, <2>s, <2>7 DEF CaseInv
<1> QED BY <1>3, <1>4

LEMMA VectorsWritten ==
    ASSUME CaseInv, NEW r \in Requests, Upsert(r)
    PROVE  CaseInv'
<1>1. job[r].at = "upsert" /\ UNCHANGED <<caseRow, milvusUp, scripts, crossed>>
  BY DEF Upsert
<1>2. job[r] \in WriteJobs /\ job[r] # NoJob
  BY <1>1, JobShape DEF CaseInv, CaseTyped
<1>3. CASE UNCHANGED vectors /\ EndJob(r)
  BY <1>1, <1>3, JobEnds
<1>4. CASE /\ vectors' = [c \in Cases |-> IF c \in DOMAIN job[r].seen THEN VectorOf(job[r].seen[c]) ELSE vectors[c]]
           /\ job' = [job EXCEPT ![r].at = "mark"]
  <2>1. PICK S \in SUBSET Cases : job[r].seen \in [S -> LibraryRows]
    BY <1>2 DEF WriteJobs, Snapshots
  <2>2. \A c \in S : VectorOf(job[r].seen[c]) \in Entities
    BY <2>1, NotNone
  <2>3. vectors' \in [Cases -> Entities \cup {None}]
    BY <1>4, <2>1, <2>2 DEF CaseInv, CaseTyped
  <2>4. PICK x : x = [job[r] EXCEPT !.at = "mark"]
    OBVIOUS
  <2>5. x \in WriteJobs /\ x.at = "mark" /\ x.seen = job[r].seen
    BY <1>2, <2>4 DEF WriteJobs
  <2>6. job' = [job EXCEPT ![r] = x]
    BY <1>4, <2>4
  <2>7. /\ job' \in [Requests -> {NoJob} \cup ImportJobs \cup ReadJobs \cup WriteJobs]
        /\ job'[r] = x /\ \A q \in Requests : q # r => job'[q] = job[q]
    BY <2>5, <2>6 DEF CaseInv, CaseTyped
  <2>8. CaseTyped'
    BY <1>1, <2>3, <2>7 DEF CaseInv, CaseTyped
  <2>s. StillThere'
    BY <1>1, <2>5, <2>7 DEF CaseInv, StillThere
  <2>9. ASSUME ~ crossed'
        PROVE  (OneJob /\ SeenIsNow /\ StoredIsNow /\ MarkedIsStored)'
    <3>1. OneJob /\ MarkedIsStored /\ \A c \in S : caseRow[c] = job[r].seen[c]
      BY <1>1, <2>1, <2>9 DEF CaseInv, SeenIsNow
    <3>2. \A q \in Requests : q # r => job'[q] = NoJob /\ job'[q].at = "free"
      BY <1>2, <2>7, <3>1, OthersFree
    <3>3. OneJob'
      BY <3>2 DEF OneJob
    <3>4. SeenIsNow'
      BY <2>5, <2>7, <3>2 DEF SeenIsNow
    <3>5. \A c \in S : caseRow[c] # None /\ vectors'[c] = VectorOf(caseRow[c])
      BY <1>4, <2>1, <3>1, NotNone
    <3>6. StoredIsNow'
      BY <1>1, <2>1, <2>5, <2>7, <3>2, <3>5 DEF StoredIsNow
    <3>7. MarkedIsStored'
      BY <1>1, <1>4, <2>1, <3>1, <3>5 DEF MarkedIsStored
    <3> QED BY <3>3, <3>4, <3>6, <3>7
  <2> QED BY <2>8, <2>s, <2>9 DEF CaseInv
<1> QED BY <1>3, <1>4 DEF Upsert

LEMMA RowsMarked ==
    ASSUME CaseInv, NEW r \in Requests, Mark(r)
    PROVE  CaseInv'
<1>1. job[r].at = "mark" /\ EndJob(r) /\ UNCHANGED <<vectors, milvusUp, scripts, crossed>>
  BY DEF Mark
<1>2. job[r] \in WriteJobs /\ job[r] # NoJob
  BY <1>1, JobShape DEF CaseInv, CaseTyped
<1>3. PICK S \in SUBSET Cases : job[r].seen \in [S -> LibraryRows]
  BY <1>2 DEF WriteJobs, Snapshots
<1> DEFINE marked == job[r].touched \cap DOMAIN job[r].seen
<1>4. caseRow' = [c \in Cases |-> IF c \in marked THEN [caseRow[c] EXCEPT !.embedded = TRUE] ELSE caseRow[c]]
  BY DEF Mark
<1>5. /\ job' \in [Requests -> {NoJob} \cup ImportJobs \cup ReadJobs \cup WriteJobs]
      /\ job'[r] = NoJob /\ \A q \in Requests : q # r => job'[q] = job[q]
  BY <1>1 DEF CaseInv, CaseTyped, EndJob
<1> HIDE DEF marked
<1>6. \A c \in Cases : /\ caseRow[c] # None => caseRow'[c] # None /\ VectorOf(caseRow'[c]) = VectorOf(caseRow[c])
                       /\ caseRow[c] = None => caseRow'[c] = None
                       /\ caseRow'[c] \in LibraryRows \cup {None}
  <2> SUFFICES ASSUME NEW c \in Cases
               PROVE  /\ caseRow[c] # None => caseRow'[c] # None /\ VectorOf(caseRow'[c]) = VectorOf(caseRow[c])
                      /\ caseRow[c] = None => caseRow'[c] = None
                      /\ caseRow'[c] \in LibraryRows \cup {None}
    OBVIOUS
  <2>1. caseRow[c] \in LibraryRows \cup {None}
    BY DEF CaseInv, CaseTyped
  <2>2. CASE c \notin marked
    BY <1>4, <2>1, <2>2
  <2>3. CASE c \in marked
    <3>1. caseRow[c] # None
      BY <1>1, <2>3 DEF CaseInv, StillThere, marked
    <3>2. caseRow'[c] = [caseRow[c] EXCEPT !.embedded = TRUE]
      BY <1>4, <2>3
    <3>3. caseRow'[c] \in LibraryRows /\ VectorOf(caseRow'[c]) = VectorOf(caseRow[c])
      BY <2>1, <3>1, <3>2 DEF LibraryRows, VectorOf
    <3> QED BY <3>1, <3>3, NotNone
  <2> QED BY <2>2, <2>3
<1>7. CaseTyped'
  BY <1>1, <1>4, <1>5, <1>6 DEF CaseInv, CaseTyped
<1>8. NoJob.at = "free"
  BY DEF NoJob
<1>9. StillThere'
  <2> SUFFICES ASSUME NEW q \in Requests, job'[q].at \in {"upsert", "mark"}, NEW c \in DOMAIN job'[q].seen
               PROVE  caseRow'[c] # None
    BY DEF StillThere
  <2>1. q # r /\ job'[q] = job[q]
    BY <1>5, <1>8
  <2>2. job[q] \in WriteJobs
    BY <2>1, JobShape DEF CaseInv, CaseTyped
  <2>3. c \in Cases
    BY <2>1, <2>2 DEF WriteJobs, Snapshots
  <2>4. caseRow[c] # None
    BY <2>1 DEF CaseInv, StillThere
  <2> QED BY <1>6, <2>3, <2>4
<1>10. ASSUME ~ crossed'
       PROVE  (OneJob /\ SeenIsNow /\ StoredIsNow /\ MarkedIsStored)'
  <2>1. OneJob /\ StoredIsNow /\ MarkedIsStored
    BY <1>1, <1>10 DEF CaseInv
  <2>2. \A q \in Requests : job'[q] = NoJob /\ job'[q].at = "free"
    BY <1>2, <1>5, <1>8, <2>1, OthersFree
  <2>3. OneJob' /\ SeenIsNow' /\ StoredIsNow'
    BY <2>2 DEF OneJob, SeenIsNow, StoredIsNow
  <2>4. MarkedIsStored'
    <3> SUFFICES ASSUME NEW c \in Cases, caseRow'[c] # None, caseRow'[c].embedded
                 PROVE  vectors'[c] = VectorOf(caseRow'[c])
      BY DEF MarkedIsStored
    <3>1. caseRow[c] # None /\ VectorOf(caseRow'[c]) = VectorOf(caseRow[c])
      BY <1>6
    <3>2. CASE c \in marked
      BY <1>1, <2>1, <3>1, <3>2 DEF StoredIsNow, marked
    <3>3. CASE c \notin marked
      BY <1>1, <1>4, <2>1, <3>1, <3>3 DEF MarkedIsStored
    <3> QED BY <3>2, <3>3
  <2> QED BY <2>3, <2>4
<1> QED BY <1>7, <1>9, <1>10 DEF CaseInv

\* Every step of the library keeps the invariant.
LEMMA CaseStep == CaseInv /\ [CaseNext]_caseVars => CaseInv'
<1> SUFFICES ASSUME CaseInv, [CaseNext]_caseVars PROVE CaseInv'
  OBVIOUS
<1>1. ASSUME NEW r \in Requests, NEW batch \in Batches, NEW reingest \in BOOLEAN, BeginImport(r, batch, reingest)
      PROVE  CaseInv'
  <2>1. PICK j : /\ j = [at |-> "import", batch |-> batch, reingest |-> reingest,
                         found |-> {c \in Cases : caseRow[c] # None}]
                 /\ StartJob(r, j)
    BY <1>1 DEF BeginImport
  <2>2. j \in ImportJobs
    BY <2>1 DEF ImportJobs
  <2> QED BY <2>1, <2>2, JobStarts
<1>2. ASSUME NEW r \in Requests, NEW t \in Tenants, BeginReingest(r, t)
      PROVE  CaseInv'
  <2>1. PICK j : j = [at |-> "read", tenant |-> t, touched |-> Cases] /\ StartJob(r, j)
    BY <1>2 DEF BeginReingest
  <2>2. j \in ReadJobs
    BY <2>1 DEF ReadJobs
  <2> QED BY <2>1, <2>2, JobStarts
<1>3. ASSUME NEW r \in Requests, LoseJob(r)
      PROVE  CaseInv'
  BY <1>3, JobEnds DEF LoseJob
<1>4. CASE MilvusTurns
  BY <1>4 DEF MilvusTurns, CaseInv, CaseTyped, StillThere, OneJob, SeenIsNow, StoredIsNow, MarkedIsStored
<1>5. CASE UNCHANGED caseVars
  BY <1>5 DEF caseVars, CaseInv, CaseTyped, StillThere, OneJob, SeenIsNow, StoredIsNow, MarkedIsStored
<1> QED BY <1>1, <1>2, <1>3, <1>4, <1>5, ImportCommitted, CasesRead, VectorsWritten, RowsMarked DEF CaseNext

\* In a search every hit says what the vector or the row of its case says, and a case
\* whose row is marked is among them.
LEMMA SearchIsCurrent ==
    ASSUME CaseInv PROVE SearchCurrentUnlessCrossed
<1> SUFFICES ASSUME ~ crossed, NEW c \in Cases, caseRow[c] # None, caseRow[c].embedded
             PROVE  /\ [case |-> c, says |-> VectorOf(caseRow[c])] \in Hits(caseRow[c].tenant)
                    /\ \A t \in Tenants : \A h \in Hits(t) : h.case = c => h.says = VectorOf(caseRow[c])
  BY DEF SearchCurrentUnlessCrossed
<1>1. vectors[c] = VectorOf(caseRow[c])
  BY DEF CaseInv, MarkedIsStored
<1>2. caseRow[c] \in LibraryRows
  BY DEF CaseInv, CaseTyped
<1>3. vectors[c] # None /\ vectors[c].tenant = caseRow[c].tenant
  BY <1>1, <1>2, NotNone DEF VectorOf
<1>4. [case |-> c, says |-> VectorOf(caseRow[c])] \in VectorHits(caseRow[c].tenant)
  BY <1>1, <1>3 DEF VectorHits
<1>5. [case |-> c, says |-> VectorOf(caseRow[c])] \in KeywordHits(caseRow[c].tenant)
  BY DEF KeywordHits
<1>6. ASSUME NEW t \in Tenants, NEW h \in VectorHits(t) \cup KeywordHits(t), h.case = c
      PROVE  h.says = VectorOf(caseRow[c])
  BY <1>1, <1>6 DEF VectorHits, KeywordHits
<1>7. [case |-> c, says |-> VectorOf(caseRow[c])] \in Hits(caseRow[c].tenant)
  BY <1>4, <1>5 DEF Hits
<1>8. \A t \in Tenants : Hits(t) \subseteq VectorHits(t) \cup KeywordHits(t)
  BY DEF Hits
<1> QED BY <1>6, <1>7, <1>8

\* Unless scripts overlapped, a search of the case library answers what the library says
\* now, for every case whose row is marked as embedded (rag/retrieve.py).
THEOREM SearchStaysCurrent == CaseSpec => []SearchCurrentUnlessCrossed
<1>1. CaseSpec => []CaseInv
  BY CaseStarts, CaseStep, PTL DEF CaseSpec
<1> QED BY <1>1, SearchIsCurrent, PTL
-----------------------------------------------------------------------------
Statuses == {"active", "open", "closed"}
NodeMerges == [op : {"node"}, id : Ids, status : Statuses]
EdgeMerges == [op : {"edge"}, from : Ids, type : {"WORKS_ON", "SUBCONTRACTS", "HAS_HAZARD"}, to : Ids]
Merges == NodeMerges \cup EdgeMerges
Lists == {s \in Seq(Merges) : s # <<>>}
Plans == UNION {[S -> Lists] : S \in SUBSET Ids}
Syncs == [left : Plans, row : Ids \cup {None}, current : BOOLEAN]

GraphTyped ==
    /\ site \in [Sites -> BOOLEAN] /\ firm \in [Firms -> BOOLEAN]
    /\ staff \in [Staff -> StaffRows] /\ danger \in [Dangers -> DangerRows \cup {None}]
    /\ nodes \in [Ids -> Statuses \cup {None}]
    /\ sync \in [Requests -> Syncs]
    /\ fresh \in BOOLEAN

Members(s) == {s[k] : k \in DOMAIN s}
StatusOf(i) == IF i \in Dangers THEN danger[i].status ELSE "active"

\* An edge of a row joins it, or two rows synced before it.
EdgesOf(i) ==
    {e \in EdgeMerges : /\ e.from = i \/ Phase(e.from) < Phase(i)
                        /\ e.to = i \/ Phase(e.to) < Phase(i)}

\* What a statement was run for is there.
Holds(st) ==
    IF st.op = "node" THEN nodes[st.id] = st.status
    ELSE st.from \in Synced /\ st.to \in Synced =>
            [from |-> st.from, type |-> st.type, to |-> st.to] \in edges

\* A sync that read an older state is running, or none.
OneState ==
    /\ \A r \in Requests : ~ Running(r) => sync[r].current
    /\ (fresh \/ \E r \in Requests : Running(r) /\ sync[r].current) => \A q \in Requests : sync[q].current

\* A sync has still to run what is not there yet, the node of a row first.
Remains(i, left) ==
    \/ left = StatementsOf(i)
    \/ nodes[i] # None /\ Members(left) \subseteq EdgesOf(i) \cap Members(StatementsOf(i))
OnCourse(y) ==
    /\ DOMAIN y.left \subseteq Synced
    /\ \A i \in DOMAIN y.left : Remains(i, y.left[i])
    /\ \A i \in Synced : \A st \in Members(StatementsOf(i)) :
          Holds(st) \/ (i \in DOMAIN y.left /\ st \in Members(y.left[i]))
Progress == \A r \in Requests : Running(r) /\ sync[r].current => OnCourse(sync[r])
Finished == fresh => \A i \in Synced : \A st \in Members(StatementsOf(i)) : Holds(st)

GraphInv == GraphTyped /\ OneState /\ Progress /\ Finished

FirstThen(s, a, A, B, x, y) ==
    /\ s \in Seq(A) /\ s # <<>> /\ Head(s) = a /\ \A k \in 2..Len(s) : s[k] \in B
    /\ Members(x) \cup Members(y) \subseteq Members(s)

LEMMA Joined ==
    ASSUME NEW A, NEW a \in A, NEW B \in SUBSET A, NEW x \in Seq(B), NEW y \in Seq(B),
           NEW s, s = (<<a>> \o x) \o y
    PROVE  FirstThen(s, a, A, B, x, y)
<1>1. PICK m \in Nat, n \in Nat : m = Len(x) /\ n = Len(y)
  OBVIOUS
<1>2. x \in Seq(A) /\ y \in Seq(A) /\ <<a>> \in Seq(A)
  OBVIOUS
<1>3. PICK z : z = <<a>> \o x
  OBVIOUS
<1>4. z \in Seq(A) /\ Len(z) = m + 1 /\ z[1] = a /\ \A k \in 1..m : z[k + 1] = x[k]
  BY <1>1, <1>2, <1>3
<1>5. /\ s \in Seq(A) /\ Len(s) = m + 1 + n /\ DOMAIN s = 1..(m + 1 + n)
      /\ \A k \in 1..(m + 1) : s[k] = z[k]
      /\ \A k \in 1..n : s[m + 1 + k] = y[k]
  BY <1>1, <1>2, <1>3, <1>4
<1>6. s[1] = a /\ \A k \in 1..m : s[k + 1] = x[k]
  BY <1>4, <1>5
<1>7. s # <<>> /\ Head(s) = a
  BY <1>5, <1>6
<1>8. ASSUME NEW k \in 2..Len(s) PROVE s[k] \in B
  <2>1. CASE k <= m + 1
    <3>1. PICK j \in 1..m : k = j + 1
      BY <1>5, <2>1
    <3> QED BY <1>1, <1>6, <3>1
  <2>2. CASE k > m + 1
    <3>1. PICK j \in 1..n : k = m + 1 + j
      BY <1>5, <2>2
    <3> QED BY <1>1, <1>5, <3>1
  <2> QED BY <1>5, <2>1, <2>2
<1>9. ASSUME NEW e \in Members(x) PROVE e \in Members(s)
  <2>1. PICK k \in 1..m : e = x[k]
    BY <1>1 DEF Members
  <2>2. k + 1 \in DOMAIN s
    BY <1>5
  <2>3. s[k + 1] = e
    BY <1>6, <2>1
  <2> QED BY <2>2, <2>3 DEF Members
<1>10. ASSUME NEW e \in Members(y) PROVE e \in Members(s)
  <2>1. PICK k \in 1..n : e = y[k]
    BY <1>1 DEF Members
  <2>2. m + 1 + k \in DOMAIN s /\ s[m + 1 + k] = e
    BY <1>5, <2>1
  <2> QED BY <2>2 DEF Members
<1> QED BY <1>5, <1>7, <1>8, <1>9, <1>10 DEF FirstThen

LEMMA Two ==
    ASSUME NEW a, NEW b
    PROVE  <<a>> \o <<b>> = <<a, b>>
<1>1. <<a>> \in Seq({a, b}) /\ <<b>> \in Seq({a, b}) /\ <<a, b>> \in Seq({a, b})
  OBVIOUS
<1>2. PICK z : z = <<a>> \o <<b>>
  OBVIOUS
<1>3. z \in Seq({a, b}) /\ Len(z) = 2 /\ z[1] = a /\ z[2] = b
  BY <1>1, <1>2
<1>4. \A k \in 1..Len(z) : z[k] = <<a, b>>[k]
  <2> TAKE k \in 1..Len(z)
  <2>1. k = 1 \/ k = 2
    BY <1>3
  <2> QED BY <1>3, <2>1
<1>5. Len(z) = Len(<<a, b>>)
  BY <1>3
<1>6. z = <<a, b>>
  BY <1>1, <1>3, <1>4, <1>5, SeqEqual
<1> QED BY <1>2, <1>6

LEMMA Kinds ==
    /\ \A p \in Sites : p \notin Firms \cup Staff \cup Dangers /\ Phase(p) = 1
    /\ \A s \in Firms : s \notin Sites \cup Staff \cup Dangers /\ Phase(s) = 2
    /\ \A w \in Staff : w \notin Sites \cup Firms \cup Dangers /\ Phase(w) = 3
    /\ \A h \in Dangers : h \notin Sites \cup Firms \cup Staff /\ Phase(h) = 4
BY GraphAssumption DEF Phase

LEMMA IfKnownType ==
    ASSUME NEW B, NEW ids, NEW st, None \notin ids => st \in B
    PROVE  /\ IfKnown(ids, st) \in Seq(B)
           /\ None \notin ids => st \in Members(IfKnown(ids, st))
<1>1. CASE None \in ids
  BY <1>1 DEF IfKnown
<1>2. CASE None \notin ids
  <2>1. IfKnown(ids, st) = <<st>> /\ st \in B
    BY <1>2 DEF IfKnown
  <2> QED BY <1>2, <2>1 DEF Members
<1> QED BY <1>1, <1>2

\* The statements of a row: its node, then edges.
LEMMA StatementsShape ==
    ASSUME GraphTyped, NEW i \in Synced
    PROVE  /\ StatementsOf(i) \in Lists /\ Head(StatementsOf(i)) = MergeNode(i, StatusOf(i))
           /\ StatusOf(i) \in Statuses /\ StatusOf(i) # None /\ i \in Ids
           /\ MergeNode(i, StatusOf(i)) \in NodeMerges
           /\ \A k \in 2..Len(StatementsOf(i)) : StatementsOf(i)[k] \in EdgesOf(i)
           /\ i \in Staff => LET row == staff[i] IN
                /\ row.site # None => MergeEdge(i, "WORKS_ON", row.site) \in Members(StatementsOf(i))
                /\ row.site # None /\ row.firm # None =>
                     MergeEdge(row.firm, "SUBCONTRACTS", row.site) \in Members(StatementsOf(i))
           /\ i \in Dangers => MergeEdge(danger[i].site, "HAS_HAZARD", i) \in Members(StatementsOf(i))
<1>1. i \in Ids
  BY DEF Synced, ActiveSites, ActiveFirms, ActiveStaff, Reported, Ids
<1>2. StatusOf(i) \in Statuses /\ (i \in Dangers => danger[i] \in DangerRows)
  <2>1. CASE i \in Dangers
    <3>1. danger[i] # None
      BY <2>1, Kinds DEF Synced, ActiveSites, ActiveFirms, ActiveStaff, Reported
    <3>2. danger[i] \in DangerRows
      BY <2>1, <3>1 DEF GraphTyped
    <3>3. danger[i].status \in {"open", "closed"}
      BY <3>2 DEF DangerRows
    <3> QED BY <2>1, <3>2, <3>3 DEF StatusOf, Statuses
  <2>2. CASE i \notin Dangers
    BY <2>2 DEF StatusOf, Statuses
  <2> QED BY <2>1, <2>2
<1>3. StatusOf(i) # None
  BY <1>2, GraphAssumption DEF Statuses
<1>4. MergeNode(i, StatusOf(i)) \in NodeMerges /\ NodeMerges \subseteq Merges
      /\ EdgesOf(i) \subseteq Merges
  BY <1>1, <1>2 DEF NodeMerges, MergeNode, Merges, EdgesOf
<1>5. CASE i \in Staff
  <2>1. PICK row \in StaffRows : row = staff[i]
    BY <1>5 DEF GraphTyped
  <2>2. row.site \in Sites \cup {None} /\ row.firm \in Firms \cup {None}
    BY <2>1 DEF StaffRows
  <2>3. PICK e1, e2 : e1 = MergeEdge(i, "WORKS_ON", row.site) /\ e2 = MergeEdge(row.firm, "SUBCONTRACTS", row.site)
    OBVIOUS
  <2>4. row.site # None => e1 \in EdgesOf(i)
    BY <1>1, <1>5, <2>2, <2>3, Kinds DEF EdgesOf, EdgeMerges, MergeEdge, Ids
  <2>5. row.site # None /\ row.firm # None => e2 \in EdgesOf(i)
    BY <1>1, <1>5, <2>2, <2>3, Kinds DEF EdgesOf, EdgeMerges, MergeEdge, Ids
  <2>6. PICK x \in Seq(EdgesOf(i)) : x = IfKnown({row.site}, e1) /\ (row.site # None => e1 \in Members(x))
    BY <2>4, IfKnownType
  <2>7. PICK y \in Seq(EdgesOf(i)) :
          y = IfKnown({row.site, row.firm}, e2) /\ (row.site # None /\ row.firm # None => e2 \in Members(y))
    BY <2>5, IfKnownType
  <2>8. i \notin Dangers /\ StatusOf(i) = "active"
    BY <1>5, Kinds DEF StatusOf
  <2>9. PICK s : s = StatementsOf(i)
    OBVIOUS
  <2>10. s = (<<MergeNode(i, StatusOf(i))>> \o x) \o y
    BY <1>5, <2>1, <2>3, <2>6, <2>7, <2>8, <2>9 DEF StatementsOf, OfStaff
  <2>11. /\ s \in Seq(Merges) /\ s # <<>> /\ Head(s) = MergeNode(i, StatusOf(i))
         /\ \A k \in 2..Len(s) : s[k] \in EdgesOf(i)
         /\ Members(x) \cup Members(y) \subseteq Members(s)
    <3>1. PICK a \in Merges : a = MergeNode(i, StatusOf(i))
      BY <1>4
    <3>2. PICK B \in SUBSET Merges : B = EdgesOf(i)
      BY <1>4
    <3>3. x \in Seq(B) /\ y \in Seq(B) /\ s = (<<a>> \o x) \o y
      BY <2>10, <3>1, <3>2
    <3>4. PICK A : A = Merges
      OBVIOUS
    <3>5. a \in A /\ B \in SUBSET A
      BY <3>4
    <3>6. FirstThen(s, a, A, B, x, y)
      BY <3>3, <3>5, Joined, Zenon
    <3> QED BY <3>1, <3>2, <3>4, <3>6 DEF FirstThen
  <2> QED BY <1>1, <1>2, <1>3, <1>4, <1>5, <2>1, <2>3, <2>6, <2>7, <2>8, <2>9, <2>11 DEF Lists
<1>6. CASE i \in Dangers
  <2>1. PICK row \in DangerRows : row = danger[i]
    BY <1>2, <1>6
  <2>2. row.site \in Sites /\ row.firm \in Firms \cup {None}
    BY <2>1 DEF DangerRows
  <2>3. PICK e1, e2 : e1 = MergeEdge(row.site, "HAS_HAZARD", i) /\ e2 = MergeEdge(row.firm, "HAS_HAZARD", i)
    OBVIOUS
  <2>4. e1 \in EdgesOf(i)
    BY <1>1, <1>6, <2>2, <2>3, Kinds DEF EdgesOf, EdgeMerges, MergeEdge, Ids
  <2>5. row.firm # None => e2 \in EdgesOf(i)
    BY <1>1, <1>6, <2>2, <2>3, Kinds DEF EdgesOf, EdgeMerges, MergeEdge, Ids
  <2>6. PICK x \in Seq(EdgesOf(i)) : x = <<e1>> /\ e1 \in Members(x)
    <3>1. <<e1>> \in Seq(EdgesOf(i))
      BY <2>4
    <3>2. e1 \in Members(<<e1>>)
      BY DEF Members
    <3> QED BY <3>1, <3>2
  <2>7. PICK y \in Seq(EdgesOf(i)) : y = IfKnown({row.firm}, e2)
    BY <2>5, IfKnownType
  <2>8. i \notin Staff /\ StatusOf(i) = row.status
    BY <1>6, <2>1, Kinds DEF StatusOf
  <2>9. PICK s : s = StatementsOf(i)
    OBVIOUS
  <2>10. s = (<<MergeNode(i, StatusOf(i))>> \o x) \o y
    <3>1. <<MergeNode(i, StatusOf(i))>> \o <<e1>> = <<MergeNode(i, StatusOf(i)), e1>>
      BY Two
    <3> QED BY <1>6, <2>1, <2>3, <2>6, <2>7, <2>8, <2>9, <3>1 DEF StatementsOf, OfDanger
  <2>11. /\ s \in Seq(Merges) /\ s # <<>> /\ Head(s) = MergeNode(i, StatusOf(i))
         /\ \A k \in 2..Len(s) : s[k] \in EdgesOf(i)
         /\ Members(x) \cup Members(y) \subseteq Members(s)
    <3>1. PICK a \in Merges : a = MergeNode(i, StatusOf(i))
      BY <1>4
    <3>2. PICK B \in SUBSET Merges : B = EdgesOf(i)
      BY <1>4
    <3>3. x \in Seq(B) /\ y \in Seq(B) /\ s = (<<a>> \o x) \o y
      BY <2>10, <3>1, <3>2
    <3>4. PICK A : A = Merges
      OBVIOUS
    <3>5. a \in A /\ B \in SUBSET A
      BY <3>4
    <3>6. FirstThen(s, a, A, B, x, y)
      BY <3>3, <3>5, Joined, Zenon
    <3> QED BY <3>1, <3>2, <3>4, <3>6 DEF FirstThen
  <2> QED BY <1>1, <1>2, <1>3, <1>4, <1>6, <2>1, <2>3, <2>6, <2>8, <2>9, <2>11 DEF Lists
<1>7. CASE i \notin Staff \cup Dangers
  <2>1. StatementsOf(i) = <<MergeNode(i, StatusOf(i))>>
    BY <1>7 DEF StatementsOf, StatusOf
  <2> QED BY <1>1, <1>2, <1>3, <1>4, <1>7, <2>1 DEF Lists
<1> QED BY <1>5, <1>6, <1>7

LEMMA TailMembers ==
    ASSUME NEW A, NEW s \in Seq(A), s # <<>>
    PROVE  /\ Tail(s) \in Seq(A) /\ Head(s) \in Members(s)
           /\ \A e : e \in Members(s) <=> e = Head(s) \/ e \in Members(Tail(s))
<1>1. PICK t : t = Tail(s)
  OBVIOUS
<1>2. PICK n \in Nat : n = Len(t)
  BY <1>1
<1>3. /\ t \in Seq(A) /\ Len(s) = n + 1 /\ Head(s) = s[1] /\ DOMAIN s = 1..(n + 1) /\ DOMAIN t = 1..n
      /\ \A k \in 1..n : t[k] = s[k + 1]
  BY <1>1, <1>2
<1>4. Head(s) \in Members(s)
  BY <1>2, <1>3 DEF Members
<1>5. ASSUME NEW e \in Members(s), e # Head(s) PROVE e \in Members(t)
  <2>1. PICK k \in 1..(n + 1) : e = s[k]
    BY <1>3 DEF Members
  <2>2. k # 1
    BY <1>3, <1>5, <2>1
  <2>3. PICK j \in 1..n : k = j + 1
    BY <1>2, <2>2
  <2>4. t[j] = e /\ j \in DOMAIN t
    BY <1>3, <2>1, <2>3
  <2> QED BY <2>4 DEF Members
<1>6. ASSUME NEW e \in Members(t) PROVE e \in Members(s)
  <2>1. PICK k \in 1..n : e = t[k]
    BY <1>3 DEF Members
  <2>2. k + 1 \in DOMAIN s
    BY <1>2, <1>3
  <2>3. s[k + 1] = e
    BY <1>3, <2>1
  <2> QED BY <2>2, <2>3 DEF Members
<1> QED BY <1>1, <1>3, <1>4, <1>5, <1>6

LEMMA RowStatements ==
    ASSUME GraphTyped, NEW i \in Synced, NEW st \in Members(StatementsOf(i))
    PROVE  st = MergeNode(i, StatusOf(i)) \/ st \in EdgesOf(i)
<1>1. PICK s : s = StatementsOf(i)
  OBVIOUS
<1>2. /\ s \in Seq(Merges) /\ Head(s) = MergeNode(i, StatusOf(i))
      /\ \A k \in 2..Len(s) : s[k] \in EdgesOf(i)
  BY <1>1, StatementsShape DEF Lists
<1>3. PICK k \in 1..Len(s) : st = s[k]
  BY <1>1, <1>2 DEF Members
<1>4. k = 1 \/ k \in 2..Len(s)
  BY <1>2
<1> QED BY <1>2, <1>3, <1>4

LEMMA NothingIn == \A e : e \notin Members(<<>>)
BY DEF Members

LEMMA PlanShape ==
    ASSUME NEW p \in Plans
    PROVE  DOMAIN p \in SUBSET Ids /\ \A i \in DOMAIN p : p[i] \in Seq(Merges) /\ p[i] # <<>>
<1>1. PICK S \in SUBSET Ids : p \in [S -> Lists]
  BY DEF Plans
<1>2. DOMAIN p = S /\ \A i \in S : p[i] \in Lists
  BY <1>1
<1> QED BY <1>2 DEF Lists

LEMMA PlanMade ==
    ASSUME NEW S \in SUBSET Ids, NEW p \in [S -> Lists]
    PROVE  p \in Plans
BY DEF Plans

LEMMA IdleSync == NoSync \in Syncs /\ NoSync.current /\ DOMAIN NoSync.left = {}
<1>1. PICK p : p = <<>>
  OBVIOUS
<1>2. DOMAIN p = {}
  BY <1>1
<1>3. p \in [{} -> Lists]
  BY <1>1
<1>4. p \in Plans
  BY <1>3, PlanMade
<1> QED BY <1>1, <1>2, <1>4 DEF NoSync, Syncs

LEMMA RowsSame ==
    ASSUME UNCHANGED rowVars
    PROVE  Synced' = Synced /\ \A i : StatementsOf(i)' = StatementsOf(i) /\ StatusOf(i)' = StatusOf(i)
BY DEF rowVars, Synced, ActiveSites, ActiveFirms, ActiveStaff, Reported, StatementsOf, StatusOf, OfStaff,
       OfDanger

LEMMA GraphStarts ==
    ASSUME GraphInit
    PROVE  GraphInv
<1>1. GraphTyped
  <2>1. sync \in [Requests -> Syncs]
    BY IdleSync DEF GraphInit
  <2>2. staff \in [Staff -> StaffRows]
    BY DEF GraphInit, StaffRows
  <2> QED BY <2>1, <2>2 DEF GraphInit, GraphTyped, Statuses
<1>2. \A r \in Requests : sync[r] = NoSync
  BY DEF GraphInit
<1>3. OneState /\ Progress
  BY <1>2, IdleSync DEF OneState, Progress, Running
<1> QED BY <1>1, <1>3 DEF GraphInv, Finished, GraphInit

LEMMA RowChanged ==
    ASSUME GraphInv, ChangeRow
    PROVE  GraphInv'
<1>1. GraphTyped'
  <2>1. \A r \in Requests : sync[r] \in Syncs
    BY DEF GraphInv, GraphTyped
  <2>2. \A r \in Requests : [sync[r] EXCEPT !.current = FALSE] \in Syncs
    BY <2>1 DEF Syncs
  <2>3. (sync \in [Requests -> Syncs])'
    BY <2>1, <2>2, IdleSync DEF ChangeRow
  <2>4. (site \in [Sites -> BOOLEAN] /\ firm \in [Firms -> BOOLEAN] /\ staff \in [Staff -> StaffRows]
         /\ danger \in [Dangers -> DangerRows \cup {None}])'
    BY DEF GraphInv, GraphTyped, ChangeRow
  <2>5. (nodes \in [Ids -> Statuses \cup {None}] /\ fresh \in BOOLEAN)'
    BY DEF GraphInv, GraphTyped, ChangeRow
  <2> QED BY <2>3, <2>4, <2>5 DEF GraphTyped
<1>2. ~ fresh'
  BY DEF ChangeRow
<1>3. ASSUME NEW r \in Requests PROVE Running(r)' /\ sync'[r].current => FALSE
  <2>1. sync'[r] = IF Running(r) THEN [sync[r] EXCEPT !.current = FALSE] ELSE NoSync
    BY DEF ChangeRow
  <2>2. sync[r] \in Syncs
    BY DEF GraphInv, GraphTyped
  <2> QED BY <2>1, <2>2, IdleSync DEF Running, Syncs
<1>4. ASSUME NEW r \in Requests PROVE ~ Running(r)' => sync'[r].current
  <2>1. sync'[r] = IF Running(r) THEN [sync[r] EXCEPT !.current = FALSE] ELSE NoSync
    BY DEF ChangeRow
  <2>2. sync[r] \in Syncs
    BY DEF GraphInv, GraphTyped
  <2> QED BY <2>1, <2>2, IdleSync DEF Running, Syncs
<1>5. OneState' /\ Progress' /\ Finished'
  BY <1>2, <1>3, <1>4 DEF OneState, Progress, Finished
<1> QED BY <1>1, <1>5 DEF GraphInv

LEMMA GraphSame ==
    ASSUME UNCHANGED rowVars, UNCHANGED <<nodes, edges>>
    PROVE  (\A st : Holds(st)' = Holds(st)) /\ \A y : OnCourse(y)' = OnCourse(y)
<1>1. Synced' = Synced /\ \A i : StatementsOf(i)' = StatementsOf(i)
  BY RowsSame
<1>2. \A st : Holds(st)' = Holds(st)
  BY <1>1 DEF Holds
<1>3. \A i, left : Remains(i, left)' = Remains(i, left)
  BY <1>1 DEF Remains, EdgesOf
<1>4. ASSUME NEW y PROVE OnCourse(y)' = OnCourse(y)
  BY <1>1, <1>2, <1>3 DEF OnCourse
<1> QED BY <1>2, <1>4

LEMMA CourseKept ==
    ASSUME \A q \in Requests : Running(q)' /\ sync'[q].current => \E z : z = sync'[q] /\ OnCourse(z)'
    PROVE  Progress'
<1> SUFFICES ASSUME NEW q \in Requests, Running(q)', sync'[q].current PROVE OnCourse(sync[q])'
  BY DEF Progress
<1>1. PICK z : z = sync'[q] /\ OnCourse(z)'
  OBVIOUS
<1> QED BY <1>1 DEF OnCourse

LEMMA SyncStarted ==
    ASSUME GraphInv, NEW r \in Requests, StartSync(r)
    PROVE  GraphInv'
<1> DEFINE c == \A q \in Requests : sync[q].current
<1>1. PICK S \in SUBSET Ids : S = Synced
  BY DEF Synced, ActiveSites, ActiveFirms, ActiveStaff, Reported, Ids
<1>2. PICK y : y = [left |-> [i \in S |-> StatementsOf(i)], row |-> None, current |-> c]
  OBVIOUS
<1>3. sync' = [sync EXCEPT ![r] = y] /\ S # {}
  BY <1>1, <1>2 DEF StartSync
<1>4. UNCHANGED rowVars /\ UNCHANGED <<nodes, edges, fresh>>
  BY DEF StartSync
<1>5. GraphTyped /\ OneState /\ Progress /\ Finished
  BY DEF GraphInv
<1>6. Synced' = Synced /\ \A i : StatementsOf(i)' = StatementsOf(i)
  BY <1>4, RowsSame
<1>7. (\A st : Holds(st)' = Holds(st)) /\ \A z : OnCourse(z)' = OnCourse(z)
  BY <1>4, GraphSame
<1>8. PICK p : p = [i \in S |-> StatementsOf(i)]
  OBVIOUS
<1>9. p \in [S -> Lists]
  <2>1. \A i \in S : StatementsOf(i) \in Lists
    BY <1>1, <1>5, StatementsShape
  <2> QED BY <1>8, <2>1
<1>10. p \in Plans
  BY <1>9, PlanMade
<1>11. y.left = p /\ y.current = c /\ y \in Syncs /\ c \in BOOLEAN /\ DOMAIN y.left = S
  BY <1>2, <1>8, <1>10 DEF Syncs
<1>12. sync'[r] = y /\ \A q \in Requests : q # r => sync'[q] = sync[q]
  BY <1>3, <1>5 DEF GraphTyped
<1> HIDE DEF c
<1>13. GraphTyped'
  <2>1. (sync \in [Requests -> Syncs])'
    BY <1>3, <1>5, <1>11 DEF GraphTyped
  <2> QED BY <1>4, <1>5, <2>1 DEF GraphTyped, rowVars
<1>14. c <=> \A q \in Requests : sync[q].current
  BY DEF c
<1>15. \A q \in Requests : sync[q].current \in BOOLEAN
  BY <1>5 DEF GraphTyped, Syncs
<1>16. ASSUME NEW q \in Requests, ~ Running(q)' PROVE sync'[q].current
  BY <1>3, <1>5, <1>11, <1>12, <1>16 DEF OneState, Running
<1>17. ASSUME fresh' \/ \E q \in Requests : Running(q)' /\ sync'[q].current PROVE c
  <2>1. CASE fresh'
    BY <1>4, <1>5, <1>14, <2>1 DEF OneState
  <2>2. CASE \E q \in Requests : Running(q)' /\ sync'[q].current
    <3>1. PICK q \in Requests : Running(q)' /\ sync'[q].current
      BY <2>2
    <3>2. CASE q = r
      BY <1>11, <1>12, <3>1, <3>2
    <3>3. CASE q # r
      <4>1. Running(q) /\ sync[q].current
        BY <1>12, <3>1, <3>3 DEF Running
      <4> QED BY <1>5, <1>14, <4>1 DEF OneState
    <3> QED BY <3>2, <3>3
  <2> QED BY <1>17, <2>1, <2>2
<1>18. OneState'
  <2>1. ASSUME c, NEW q \in Requests PROVE sync'[q].current
    BY <1>11, <1>12, <1>14, <2>1
  <2> QED BY <1>16, <1>17, <2>1 DEF OneState
<1>19. Progress'
  <2>1. OnCourse(y)
    <3>1. \A i \in S : y.left[i] = StatementsOf(i)
      BY <1>8, <1>11
    <3>2. \A i \in S : Remains(i, y.left[i])
      BY <3>1 DEF Remains
    <3> QED BY <1>1, <1>11, <3>1, <3>2 DEF OnCourse
  <2>2. ASSUME NEW q \in Requests, Running(q)', sync'[q].current
        PROVE  \E z : z = sync'[q] /\ OnCourse(z)
    <3>1. CASE q = r
      BY <1>12, <2>1, <3>1
    <3>2. CASE q # r
      <4>1. sync'[q] = sync[q] /\ Running(q) /\ sync[q].current
        BY <1>12, <2>2, <3>2 DEF Running
      <4> QED BY <1>5, <4>1 DEF Progress
    <3> QED BY <3>1, <3>2
  <2> QED BY <1>7, <2>2, CourseKept
<1>20. Finished'
  BY <1>4, <1>5, <1>6, <1>7 DEF Finished, Members
<1> QED BY <1>13, <1>18, <1>19, <1>20 DEF GraphInv

LEMMA SyncLost ==
    ASSUME GraphInv, NEW r \in Requests, LoseSync(r)
    PROVE  GraphInv'
<1>1. UNCHANGED rowVars /\ UNCHANGED <<nodes, edges, fresh>>
  BY DEF LoseSync
<1>2. GraphTyped /\ OneState /\ Progress /\ Finished
  BY DEF GraphInv
<1>3. sync'[r] = NoSync /\ \A q \in Requests : q # r => sync'[q] = sync[q]
  BY <1>2 DEF LoseSync, GraphTyped
<1>4. GraphTyped'
  <2>1. (sync \in [Requests -> Syncs])'
    BY <1>2, IdleSync DEF LoseSync, GraphTyped
  <2> QED BY <1>1, <1>2, <2>1 DEF GraphTyped, rowVars
<1>5. Synced' = Synced /\ \A i : StatementsOf(i)' = StatementsOf(i)
  BY <1>1, RowsSame
<1>6. (\A st : Holds(st)' = Holds(st)) /\ \A z : OnCourse(z)' = OnCourse(z)
  BY <1>1, GraphSame
<1>7. OneState'
  <2>1. ~ Running(r)' /\ sync'[r].current
    BY <1>3, IdleSync DEF Running
  <2>2. \A q \in Requests : q # r => Running(q)' = Running(q)
    BY <1>3 DEF Running
  <2> QED BY <1>1, <1>2, <1>3, <2>1, <2>2 DEF OneState
<1>8. Progress'
  <2>1. ASSUME NEW q \in Requests, Running(q)', sync'[q].current
        PROVE  \E z : z = sync'[q] /\ OnCourse(z)
    <3>1. q # r
      BY <1>3, <2>1, IdleSync DEF Running
    <3>2. sync'[q] = sync[q] /\ Running(q) /\ sync[q].current
      BY <1>3, <2>1, <3>1 DEF Running
    <3> QED BY <1>2, <3>2 DEF Progress
  <2> QED BY <1>6, <2>1, CourseKept
<1>9. Finished'
  BY <1>1, <1>2, <1>5, <1>6 DEF Finished, Members
<1> QED BY <1>4, <1>7, <1>8, <1>9 DEF GraphInv

\* What a sync that reads the rows of now runs is a statement of the row it is at, an
\* edge only when both its ends have been merged; it takes nothing back.
LEMMA MergeRun ==
    ASSUME GraphInv, NEW r \in Requests, Running(r), sync[r].current,
           NEW i \in NextRows(sync[r].left), NEW st, st = Head(sync[r].left[i]),
           RunMerge(st), UNCHANGED rowVars
    PROVE  /\ Holds(st)' /\ nodes'[i] # None
           /\ \A j \in Ids : nodes[j] # None => nodes'[j] # None
           /\ \A j \in Synced : \A x \in Members(StatementsOf(j)) : Holds(x) => Holds(x)'
<1>1. GraphTyped /\ Progress
  BY DEF GraphInv
<1>2. PICK p \in Plans : p = sync[r].left
  BY <1>1 DEF GraphTyped, Syncs
<1>3. i \in DOMAIN p /\ \A j \in DOMAIN p : Phase(i) <= Phase(j)
  BY <1>2 DEF NextRows
<1>4. OnCourse(sync[r])
  BY <1>1 DEF Progress
<1>5. /\ i \in Synced /\ Remains(i, p[i])
      /\ \A j \in Synced : \A x \in Members(StatementsOf(j)) : Holds(x) \/ j \in DOMAIN p
  BY <1>2, <1>3, <1>4 DEF OnCourse
<1>6. /\ StatementsOf(i) \in Lists /\ Head(StatementsOf(i)) = MergeNode(i, StatusOf(i))
      /\ StatusOf(i) \in Statuses /\ StatusOf(i) # None /\ i \in Ids
      /\ MergeNode(i, StatusOf(i)) \in NodeMerges
  BY <1>1, <1>5, StatementsShape
<1>7. p[i] \in Seq(Merges) /\ p[i] # <<>> /\ st = Head(p[i]) /\ st \in Members(p[i])
  BY <1>2, <1>3, PlanShape, TailMembers
<1>8. Synced' = Synced
  BY RowsSame
<1>9. nodes \in [Ids -> Statuses \cup {None}]
  BY <1>1 DEF GraphTyped
<1>10. CASE p[i] = StatementsOf(i)
  <2>1. st = MergeNode(i, StatusOf(i))
    BY <1>6, <1>7, <1>10
  <2>2. nodes' = [nodes EXCEPT ![i] = StatusOf(i)] /\ edges' = edges
    BY <2>1 DEF RunMerge, MergeNode
  <2>3. \A j \in Ids : nodes[j] # None => nodes'[j] # None
    BY <1>6, <1>9, <2>2
  <2>4. nodes'[i] = StatusOf(i) /\ \A j \in Ids : j # i => nodes'[j] = nodes[j]
    BY <1>6, <1>9, <2>2
  <2>5. Holds(st)'
    BY <2>1, <2>4 DEF Holds, MergeNode
  <2>6. ASSUME NEW j \in Synced, NEW x \in Members(StatementsOf(j)), Holds(x) PROVE Holds(x)'
    <3>1. CASE x = MergeNode(j, StatusOf(j))
      <4>1. j \in Ids
        BY <1>1, StatementsShape
      <4>2. x.op = "node" /\ x.id = j /\ x.status = StatusOf(j)
        BY <3>1 DEF MergeNode
      <4> QED BY <2>4, <2>6, <4>1, <4>2 DEF Holds
    <3>2. CASE x \in EdgesOf(j)
      <4>1. x.op # "node"
        BY <3>2 DEF EdgesOf, EdgeMerges
      <4> QED BY <1>8, <2>2, <2>6, <4>1 DEF Holds
    <3> QED BY <1>1, <3>1, <3>2, RowStatements
  <2> QED BY <1>6, <2>3, <2>4, <2>5, <2>6
<1>11. CASE nodes[i] # None /\ Members(p[i]) \subseteq EdgesOf(i) \cap Members(StatementsOf(i))
  <2>1. /\ st \in EdgeMerges
        /\ st.from = i \/ Phase(st.from) < Phase(i)
        /\ st.to = i \/ Phase(st.to) < Phase(i)
    BY <1>7, <1>11 DEF EdgesOf
  <2>2. st.op # "node" /\ st.from \in Ids /\ st.to \in Ids
    BY <2>1 DEF EdgeMerges
  <2>3. /\ nodes' = nodes
        /\ edges' = IF None \in {nodes[st.from], nodes[st.to]} THEN edges
                    ELSE edges \cup {[from |-> st.from, type |-> st.type, to |-> st.to]}
    BY <2>2 DEF RunMerge
  <2>4. ASSUME NEW j \in Synced, j = i \/ Phase(j) < Phase(i) PROVE nodes[j] # None
    <3>1. CASE j = i
      BY <1>11, <3>1
    <3>2. CASE Phase(j) < Phase(i)
      <4>1. j \notin DOMAIN p
        <5>1. Phase(i) \in Nat /\ Phase(j) \in Nat
          BY DEF Phase
        <5> QED BY <1>3, <3>2, <5>1
      <4>2. PICK s : s = StatementsOf(j)
        OBVIOUS
      <4>3. s \in Seq(Merges) /\ s # <<>> /\ Head(s) = MergeNode(j, StatusOf(j)) /\ StatusOf(j) # None
        BY <1>1, <4>2, StatementsShape DEF Lists
      <4>4. MergeNode(j, StatusOf(j)) \in Members(s)
        BY <4>3, TailMembers
      <4>5. Holds(MergeNode(j, StatusOf(j)))
        BY <1>5, <4>1, <4>2, <4>4
      <4> QED BY <4>3, <4>5 DEF Holds, MergeNode
    <3> QED BY <2>4, <3>1, <3>2
  <2>5. Holds(st)'
    <3>1. st.from \in Synced /\ st.to \in Synced => nodes[st.from] # None /\ nodes[st.to] # None
      BY <2>1, <2>4
    <3> QED BY <1>8, <2>2, <2>3, <3>1 DEF Holds
  <2>6. ASSUME NEW x, Holds(x) PROVE Holds(x)'
    BY <1>8, <2>3, <2>6 DEF Holds
  <2> QED BY <1>11, <2>3, <2>5, <2>6
<1> QED BY <1>5, <1>10, <1>11 DEF Remains

\* What is left of a sync that has run a statement of row i.
Advanced(old, i, y) ==
    /\ y \in Syncs /\ DOMAIN y.left \subseteq DOMAIN old.left
    /\ \A j \in DOMAIN y.left : y.left[j] = IF j = i THEN Tail(old.left[i]) ELSE old.left[j]
    /\ \A j \in DOMAIN old.left \ DOMAIN y.left : j = i /\ Tail(old.left[i]) = <<>>
    /\ DOMAIN y.left # {} => y.current = old.current
    /\ DOMAIN y.left = {} => y = NoSync

LEMMA Advances ==
    ASSUME NEW old \in Syncs, NEW i \in NextRows(old.left), NEW y, y = Advance(old, i)
    PROVE  Advanced(old, i, y)
<1>1. PICK p \in Plans : p = old.left
  BY DEF Syncs
<1>2. i \in DOMAIN p
  BY <1>1 DEF NextRows
<1>3. PICK D \in SUBSET Ids : p \in [D -> Lists]
  BY DEF Plans
<1>4. DOMAIN p = D /\ i \in Ids /\ \A j \in D : p[j] \in Lists
  BY <1>2, <1>3
<1>5. PICK rest : rest = Tail(p[i])
  OBVIOUS
<1>6. p[i] \in Seq(Merges) /\ p[i] # <<>> /\ rest \in Seq(Merges)
  BY <1>2, <1>4, <1>5 DEF Lists
<1>7. PICK others \in SUBSET Ids : others = D \ {i}
  OBVIOUS
<1>8. y = IF rest # <<>> THEN [old EXCEPT !.left[i] = rest, !.row = i]
          ELSE IF others # {} THEN [old EXCEPT !.left = [j \in others |-> old.left[j]], !.row = None]
          ELSE NoSync
  BY <1>1, <1>4, <1>5, <1>7 DEF Advance
<1>9. CASE rest # <<>>
  <2>1. PICK f : f = [p EXCEPT ![i] = rest]
    OBVIOUS
  <2>2. f \in [D -> Lists] /\ \A j \in D : f[j] = IF j = i THEN rest ELSE p[j]
    BY <1>2, <1>3, <1>4, <1>6, <1>9, <2>1 DEF Lists
  <2>3. y = [old EXCEPT !.left = f, !.row = i]
    BY <1>1, <1>8, <1>9, <2>1
  <2>4. y \in Syncs /\ y.left = f /\ y.current = old.current /\ DOMAIN y.left = D
    BY <1>4, <2>2, <2>3, PlanMade DEF Syncs
  <2> QED BY <1>1, <1>2, <1>4, <1>5, <2>2, <2>4 DEF Advanced
<1>10. CASE rest = <<>> /\ others # {}
  <2>1. PICK f : f = [j \in others |-> p[j]]
    OBVIOUS
  <2>2. f \in [others -> Lists] /\ \A j \in others : f[j] = p[j]
    BY <1>4, <1>7, <2>1
  <2>3. y = [old EXCEPT !.left = f, !.row = None]
    BY <1>1, <1>8, <1>10, <2>1
  <2>4. y \in Syncs /\ y.left = f /\ y.current = old.current /\ DOMAIN y.left = others
    BY <2>2, <2>3, PlanMade DEF Syncs
  <2> QED BY <1>1, <1>4, <1>5, <1>7, <1>10, <2>2, <2>4 DEF Advanced
<1>11. CASE rest = <<>> /\ others = {}
  <2>1. y = NoSync
    BY <1>8, <1>11
  <2> QED BY <1>1, <1>4, <1>5, <1>7, <1>11, <2>1, IdleSync DEF Advanced
<1> QED BY <1>9, <1>10, <1>11

LEMMA StatementRun ==
    ASSUME GraphInv, NEW r \in Requests, RunStatement(r)
    PROVE  GraphInv'
<1>1. GraphTyped /\ OneState /\ Progress /\ Finished
  BY DEF GraphInv
<1>2. PICK old \in Syncs : old = sync[r]
  BY <1>1 DEF GraphTyped
<1>3. PICK i \in NextRows(old.left) :
        /\ RunMerge(Head(old.left[i]))
        /\ sync' = [sync EXCEPT ![r] = Advance(old, i)]
        /\ fresh' = (fresh \/ (Advance(old, i) = NoSync /\ old.current))
  BY <1>2 DEF RunStatement
<1>4. PICK y : y = Advance(old, i)
  OBVIOUS
<1>5. PICK st : st = Head(old.left[i])
  OBVIOUS
<1>6. Advanced(old, i, y)
  BY <1>4, Advances
<1>7. UNCHANGED rowVars
  BY DEF RunStatement
<1>8. Synced' = Synced /\ \A j : StatementsOf(j)' = StatementsOf(j)
  BY <1>7, RowsSame
<1>9. y \in Syncs /\ sync' = [sync EXCEPT ![r] = y]
  BY <1>3, <1>4, <1>6 DEF Advanced
<1>10. sync'[r] = y /\ \A q \in Requests : q # r => sync'[q] = sync[q]
  BY <1>1, <1>9 DEF GraphTyped
<1>11. fresh' = (fresh \/ (DOMAIN y.left = {} /\ old.current))
  <2>1. y = NoSync <=> DOMAIN y.left = {}
    BY <1>6, IdleSync DEF Advanced
  <2> QED BY <1>3, <1>4, <2>1
<1>12. i \in DOMAIN old.left /\ Running(r)
  BY <1>2 DEF NextRows, Running
<1>13. old.left \in Plans /\ st \in Merges /\ old.left[i] \in Seq(Merges) /\ old.left[i] # <<>>
  <2>1. PICK p \in Plans : p = old.left
    BY DEF Syncs
  <2>2. PICK s \in Seq(Merges) : s = p[i] /\ s # <<>>
    BY <1>12, <2>1, PlanShape
  <2>3. Head(s) \in Merges
    BY <2>2
  <2> QED BY <1>5, <2>1, <2>2, <2>3
<1>14. GraphTyped'
  <2>1. (sync \in [Requests -> Syncs])'
    BY <1>1, <1>9 DEF GraphTyped
  <2>2. nodes' \in [Ids -> Statuses \cup {None}]
    <3>1. CASE st \in NodeMerges
      <4>1. st.op = "node" /\ st.id \in Ids /\ st.status \in Statuses
        BY <3>1 DEF NodeMerges
      <4> QED BY <1>1, <1>3, <1>5, <4>1 DEF RunMerge, GraphTyped
    <3>2. CASE st \in EdgeMerges
      <4>1. st.op # "node"
        BY <3>2 DEF EdgeMerges
      <4> QED BY <1>1, <1>3, <1>5, <4>1 DEF RunMerge, GraphTyped
    <3> QED BY <1>13, <3>1, <3>2 DEF Merges
  <2>3. fresh' \in BOOLEAN
    BY <1>3
  <2> QED BY <1>1, <1>7, <2>1, <2>2, <2>3 DEF GraphTyped, rowVars
<1>15. ASSUME NEW q \in Requests, ~ Running(q)' PROVE sync'[q].current
  <2>1. CASE q = r
    BY <1>6, <1>10, <1>15, <2>1, IdleSync DEF Advanced, Running
  <2>2. CASE q # r
    BY <1>1, <1>10, <1>15, <2>2 DEF OneState, Running
  <2> QED BY <2>1, <2>2
<1>16. CASE ~ old.current
  <2>1. ~ fresh /\ \A q \in Requests : ~ (Running(q) /\ sync[q].current)
    BY <1>1, <1>2, <1>16 DEF OneState
  <2>2. ~ fresh'
    BY <1>11, <1>16, <2>1
  <2>3. ASSUME NEW q \in Requests PROVE ~ (Running(q)' /\ sync'[q].current)
    <3>1. CASE q = r
      BY <1>6, <1>10, <1>16, <3>1 DEF Advanced, Running
    <3>2. CASE q # r
      BY <1>10, <2>1, <3>2 DEF Running
    <3> QED BY <3>1, <3>2
  <2>4. OneState' /\ Progress' /\ Finished'
    BY <1>15, <2>2, <2>3 DEF OneState, Progress, Finished
  <2> QED BY <1>14, <2>4 DEF GraphInv
<1>17. CASE old.current
  <2>1. \A q \in Requests : sync[q].current
    BY <1>1, <1>2, <1>12, <1>17 DEF OneState
  <2>2. \A q \in Requests : sync'[q].current
    BY <1>6, <1>10, <1>17, <2>1, IdleSync DEF Advanced
  <2>3. OneState'
    BY <2>2 DEF OneState
  <2>4. /\ Holds(st)' /\ nodes'[i] # None
        /\ \A j \in Ids : nodes[j] # None => nodes'[j] # None
        /\ \A j \in Synced : \A x \in Members(StatementsOf(j)) : Holds(x) => Holds(x)'
    BY <1>2, <1>3, <1>5, <1>7, <1>12, <1>17, MergeRun
  <2>5. \A x : x \in Members(old.left[i]) <=> x = st \/ x \in Members(Tail(old.left[i]))
    BY <1>5, <1>13, TailMembers
  <2>6. OnCourse(old)
    BY <1>1, <1>2, <1>12, <1>17 DEF Progress
  <2>7. \A j \in Synced : j \in Ids
    BY <1>1, StatementsShape
  <2>8. ASSUME NEW z, OnCourse(z), NEW j \in DOMAIN z.left PROVE Remains(j, z.left[j])'
    <3>1. j \in Synced /\ Remains(j, z.left[j])
      BY <2>8 DEF OnCourse
    <3> QED BY <1>8, <2>4, <2>7, <3>1 DEF Remains, EdgesOf
  <2>9. OnCourse(y)'
    <3>1. DOMAIN y.left \subseteq Synced'
      BY <1>6, <1>8, <2>6 DEF Advanced, OnCourse
    <3>2. ASSUME NEW j \in DOMAIN y.left PROVE Remains(j, y.left[j])'
      <4>1. j \in DOMAIN old.left
        BY <1>6 DEF Advanced
      <4>2. CASE j # i
        <5>1. y.left[j] = old.left[j]
          BY <1>6, <4>2 DEF Advanced
        <5>2. Remains(j, old.left[j])'
          BY <2>6, <2>8, <4>1
        <5> QED BY <5>1, <5>2 DEF Remains
      <4>3. CASE j = i
        <5>1. y.left[i] = Tail(old.left[i])
          BY <1>6, <4>3 DEF Advanced
        <5>2. Remains(i, old.left[i]) /\ i \in Synced
          BY <1>12, <2>6 DEF OnCourse
        <5>3. Members(Tail(old.left[i])) \subseteq EdgesOf(i) \cap Members(StatementsOf(i))
          <6>1. CASE old.left[i] = StatementsOf(i)
            <7>1. PICK s \in Seq(Merges) : s = StatementsOf(i) /\ s # <<>>
              BY <1>13, <6>1
            <7>2. \A k \in 2..Len(s) : s[k] \in EdgesOf(i)
              BY <1>1, <5>2, <7>1, StatementsShape
            <7>3. ASSUME NEW x \in Members(Tail(s)) PROVE x \in EdgesOf(i)
              <8>1. PICK k \in 1..Len(Tail(s)) : x = Tail(s)[k]
                BY <7>1 DEF Members
              <8>2. k + 1 \in 2..Len(s) /\ x = s[k + 1]
                BY <7>1, <8>1
              <8> QED BY <7>2, <8>2
            <7> QED BY <2>5, <6>1, <7>1, <7>3
          <6>2. CASE Members(old.left[i]) \subseteq EdgesOf(i) \cap Members(StatementsOf(i))
            BY <2>5, <6>2
          <6> QED BY <5>2, <6>1, <6>2 DEF Remains
        <5> QED BY <1>8, <2>4, <4>3, <5>1, <5>3 DEF Remains, EdgesOf
      <4> QED BY <4>2, <4>3
    <3>3. ASSUME NEW j \in Synced, NEW x \in Members(StatementsOf(j))
          PROVE  Holds(x)' \/ (j \in DOMAIN y.left /\ x \in Members(y.left[j]))
      <4>1. CASE Holds(x)
        BY <2>4, <4>1
      <4>2. CASE j \in DOMAIN old.left /\ x \in Members(old.left[j])
        <5>1. CASE x = st
          BY <2>4, <5>1
        <5>2. CASE x # st
          <6>1. j = i => x \in Members(Tail(old.left[i]))
            BY <2>5, <4>2, <5>2
          <6>2. Tail(old.left[i]) = <<>> => j # i
            <7> SUFFICES ASSUME Tail(old.left[i]) = <<>>, j = i PROVE FALSE
              OBVIOUS
            <7>1. x \in Members(<<>>)
              BY <6>1
            <7> QED BY <7>1, NothingIn
          <6>3. j \in DOMAIN y.left
            BY <1>6, <4>2, <6>2 DEF Advanced
          <6>4. y.left[j] = IF j = i THEN Tail(old.left[i]) ELSE old.left[j]
            BY <1>6, <6>3 DEF Advanced
          <6>5. x \in Members(y.left[j])
            <7>1. CASE j = i
              BY <6>1, <6>4, <7>1
            <7>2. CASE j # i
              BY <4>2, <6>4, <7>2
            <7> QED BY <7>1, <7>2
          <6> QED BY <6>3, <6>5
        <5> QED BY <5>1, <5>2
      <4> QED BY <2>6, <4>1, <4>2 DEF OnCourse
    <3> QED BY <1>8, <3>1, <3>2, <3>3 DEF OnCourse
  <2>10. ASSUME NEW z, OnCourse(z) PROVE OnCourse(z)'
    BY <1>8, <2>4, <2>8, <2>10 DEF OnCourse
  <2>11. Progress'
    <3>1. ASSUME NEW q \in Requests, Running(q)', sync'[q].current
          PROVE  \E z : z = sync'[q] /\ OnCourse(z)'
      <4>1. CASE q = r
        BY <1>10, <2>9, <4>1
      <4>2. CASE q # r
        <5>1. sync'[q] = sync[q] /\ Running(q) /\ sync[q].current
          BY <1>10, <3>1, <4>2 DEF Running
        <5>2. PICK z : z = sync[q]
          OBVIOUS
        <5>3. OnCourse(z)
          BY <1>1, <5>1, <5>2 DEF Progress
        <5> QED BY <2>10, <5>1, <5>2, <5>3
      <4> QED BY <4>1, <4>2
    <3> QED BY <3>1, CourseKept
  <2>12. Finished'
    <3> SUFFICES ASSUME fresh', NEW j \in Synced, NEW x \in Members(StatementsOf(j)) PROVE Holds(x)'
      BY <1>8 DEF Finished
    <3>1. CASE fresh
      BY <1>1, <2>4, <3>1 DEF Finished
    <3>2. CASE DOMAIN y.left = {}
      BY <1>8, <2>9, <3>2 DEF OnCourse
    <3> QED BY <1>11, <3>1, <3>2
  <2> QED BY <1>14, <2>3, <2>11, <2>12 DEF GraphInv
<1> QED BY <1>16, <1>17

LEMMA GraphStep ==
    ASSUME GraphInv, [GraphNext]_graphVars
    PROVE  GraphInv'
<1>1. CASE ChangeRow
  BY <1>1, RowChanged
<1>2. ASSUME NEW r \in Requests, StartSync(r) PROVE GraphInv'
  BY <1>2, SyncStarted
<1>3. ASSUME NEW r \in Requests, RunStatement(r) PROVE GraphInv'
  BY <1>3, StatementRun
<1>4. ASSUME NEW r \in Requests, LoseSync(r) PROVE GraphInv'
  BY <1>4, SyncLost
<1>5. CASE UNCHANGED graphVars
  <2>1. UNCHANGED rowVars /\ UNCHANGED <<nodes, edges>> /\ sync' = sync /\ fresh' = fresh
    BY <1>5 DEF graphVars
  <2>2. (\A st : Holds(st)' = Holds(st)) /\ \A z : OnCourse(z)' = OnCourse(z)
    BY <2>1, GraphSame
  <2>3. Synced' = Synced /\ \A i : StatementsOf(i)' = StatementsOf(i)
    BY <2>1, RowsSame
  <2>4. GraphTyped' /\ OneState'
    BY <2>1 DEF GraphInv, GraphTyped, OneState, Running, rowVars
  <2>5. Finished'
    BY <2>1, <2>2, <2>3 DEF GraphInv, Finished
  <2>6. Progress'
    <3>1. ASSUME NEW q \in Requests, Running(q)', sync'[q].current
          PROVE  \E z : z = sync'[q] /\ OnCourse(z)'
      BY <2>1, <2>2, <3>1 DEF GraphInv, Progress, Running
    <3> QED BY <3>1, CourseKept
  <2> QED BY <2>4, <2>5, <2>6 DEF GraphInv
<1> QED BY <1>1, <1>2, <1>3, <1>4, <1>5 DEF GraphNext

\* What has been merged is what who asks for the neighbours of a project is shown.
LEMMA ShownWhenFinished ==
    ASSUME GraphInv
    PROVE  SyncedProjectIsComplete
<1> SUFFICES ASSUME fresh, NEW p \in ActiveSites, NEW n \in Known(p) PROVE n \in Neighbors(p, {p})
  BY DEF SyncedProjectIsComplete
<1>1. GraphTyped /\ \A i \in Synced : \A st \in Members(StatementsOf(i)) : Holds(st)
  BY DEF GraphInv, Finished
<1>2. ASSUME NEW i \in Synced PROVE nodes[i] = StatusOf(i) /\ StatusOf(i) # None
  <2>1. PICK s : s = StatementsOf(i)
    OBVIOUS
  <2>2. s \in Seq(Merges) /\ s # <<>> /\ Head(s) = MergeNode(i, StatusOf(i)) /\ StatusOf(i) # None
    BY <1>1, <2>1, StatementsShape DEF Lists
  <2>3. MergeNode(i, StatusOf(i)) \in Members(s)
    BY <2>2, TailMembers
  <2> QED BY <1>1, <2>1, <2>2, <2>3 DEF Holds, MergeNode
<1>3. p \in Synced /\ p \in Sites
  BY DEF Synced, ActiveSites
<1>4. nodes[p] # None /\ Visible(p, {p})
  BY <1>2, <1>3 DEF Visible
<1>5. ASSUME NEW i \in Synced, i \notin Sites, NEW t, n = [relationship |-> t, node |-> i, status |-> StatusOf(i)],
             [relationship |-> t, node |-> i] \in Around(p)
      PROVE  n \in Neighbors(p, {p})
  BY <1>2, <1>4, <1>5 DEF Neighbors, Visible
<1>6. \A w \in Workers(p) : w \in Staff /\ w \in Synced /\ staff[w].site = p /\ p # None
  BY <1>3, GraphAssumption DEF Workers, ActiveStaff, Synced, Ids
<1>7. CASE \E w \in Workers(p) : n = [relationship |-> "WORKS_ON", node |-> w, status |-> "active"]
  <2>1. PICK w \in Workers(p) : n = [relationship |-> "WORKS_ON", node |-> w, status |-> "active"]
    BY <1>7
  <2>2. MergeEdge(w, "WORKS_ON", p) \in Members(StatementsOf(w))
    BY <1>1, <1>6, StatementsShape
  <2>3. [from |-> w, type |-> "WORKS_ON", to |-> p] \in edges
    BY <1>1, <1>3, <1>6, <2>2 DEF Holds, MergeEdge
  <2>4. [relationship |-> "WORKS_ON", node |-> w] \in Around(p)
    BY <2>3 DEF Around
  <2>5. w \notin Sites /\ StatusOf(w) = "active"
    BY <1>6, Kinds DEF StatusOf
  <2> QED BY <1>5, <1>6, <2>1, <2>4, <2>5
<1>8. CASE \E s \in ActiveFirms : /\ n = [relationship |-> "SUBCONTRACTS", node |-> s, status |-> "active"]
                                  /\ \E w \in Workers(p) : staff[w].firm = s
  <2>1. PICK s \in ActiveFirms : /\ n = [relationship |-> "SUBCONTRACTS", node |-> s, status |-> "active"]
                                 /\ \E w \in Workers(p) : staff[w].firm = s
    BY <1>8
  <2>2. PICK w \in Workers(p) : staff[w].firm = s
    BY <2>1
  <2>3. s \in Synced /\ s \in Firms /\ s # None
    BY GraphAssumption DEF Synced, ActiveFirms, Ids
  <2>4. MergeEdge(s, "SUBCONTRACTS", p) \in Members(StatementsOf(w))
    BY <1>1, <1>6, <2>2, <2>3, StatementsShape
  <2>5. [from |-> s, type |-> "SUBCONTRACTS", to |-> p] \in edges
    BY <1>1, <1>3, <1>6, <2>3, <2>4 DEF Holds, MergeEdge
  <2>6. [relationship |-> "SUBCONTRACTS", node |-> s] \in Around(p)
    BY <2>5 DEF Around
  <2>7. s \notin Sites /\ StatusOf(s) = "active"
    BY <2>3, Kinds DEF StatusOf
  <2> QED BY <1>5, <2>1, <2>3, <2>6, <2>7
<1>9. CASE \E h \in Reported : /\ n = [relationship |-> "HAS_HAZARD", node |-> h, status |-> danger[h].status]
                               /\ danger[h].site = p
  <2>1. PICK h \in Reported : /\ n = [relationship |-> "HAS_HAZARD", node |-> h, status |-> danger[h].status]
                              /\ danger[h].site = p
    BY <1>9
  <2>2. h \in Synced /\ h \in Dangers
    BY DEF Synced, Reported
  <2>3. MergeEdge(p, "HAS_HAZARD", h) \in Members(StatementsOf(h))
    BY <1>1, <2>1, <2>2, StatementsShape
  <2>4. [from |-> p, type |-> "HAS_HAZARD", to |-> h] \in edges
    BY <1>1, <1>3, <2>2, <2>3 DEF Holds, MergeEdge
  <2>5. [relationship |-> "HAS_HAZARD", node |-> h] \in Around(p)
    BY <2>4 DEF Around
  <2>6. h \notin Sites /\ StatusOf(h) = danger[h].status
    BY <2>2, Kinds DEF StatusOf
  <2> QED BY <1>5, <2>1, <2>2, <2>5, <2>6
<1> QED BY <1>7, <1>8, <1>9 DEF Known

\* Whatever failed, ran twice or ended half-way: once a sync that read the rows as they
\* are has completed, the neighbours of an active project are everything MySQL knows.
THEOREM GraphShowsAll == GraphSpec => []SyncedProjectIsComplete
<1>1. GraphInit => GraphInv
  BY GraphStarts
<1>2. GraphInv /\ [GraphNext]_graphVars => GraphInv'
  BY GraphStep
<1>3. GraphInv => SyncedProjectIsComplete
  BY ShownWhenFinished
<1> QED BY <1>1, <1>2, <1>3, PTL DEF GraphSpec
=============================================================================
