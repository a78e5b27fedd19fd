--------------------------- MODULE ProfileFlow_proofs ---------------------------
(***************************************************************************)
(* FreshUnlessRaced for any number of projects, workers, subcontractors    *)
(* and requests.  The invariant that carries it follows a subject that was *)
(* never raced: who reads it saw what the tables still say, nobody reads   *)
(* what is being recalculated, and what a recalculation has invalidated    *)
(* stays out of the cache until its COMMIT.  RowsSoundUnlessRaced follows  *)
(* the same subject through what a recalculation has read and will write,  *)
(* and rests on what the calculators compute from any facts.               *)
(***************************************************************************)
EXTENDS ProfileProperties, FiniteSetTheorems, SequenceTheorems, TLAPS

ReadShape(m) ==
    /\ m = [op |-> "read", subject |-> m.subject, at |-> m.at, sees |-> m.sees]
    /\ m.subject \in Subjects
RecalculateShape(m) ==
    /\ m = [op |-> "recalculate", at |-> m.at, filter |-> m.filter, todo |-> m.todo,
            writes |-> m.writes, drop |-> m.drop]
    /\ m.filter \in Projects \cup {None} /\ m.todo \subseteq DOMAIN Before
    /\ m.drop \subseteq {k[1] : k \in DOMAIN m.writes}

Shapes ==
    /\ rows = [k \in Keys |-> rows[k]]
    /\ cache = [s \in Subjects |-> cache[s]]
    /\ sessions = [r \in Requests |-> sessions[r]]
    /\ \A r \in Requests : \/ sessions[r] = Idle
                           \/ ReadShape(sessions[r])
                           \/ RecalculateShape(sessions[r])

ReadersCurrent ==
    \A r \in Requests : sessions[r].op = "read" =>
        sessions[r].subject \in raced \/ sessions[r].sees \subseteq Answers(rows, sessions[r].subject)

RacesNoted ==
    \A r, q \in Requests : sessions[r].op = "read" /\ Recalculating(q) =>
        sessions[r].subject \in raced \/ sessions[r].subject \notin Uses(q)

StayInvalid ==
    \A q \in Requests : Recalculating(q) =>
        \A s \in Uses(q) : s \in raced \/ s \in sessions[q].drop \/ cache[s] = Missing

FreshInv == Shapes /\ ReadersCurrent /\ RacesNoted /\ StayInvalid /\ FreshUnlessRaced
-----------------------------------------------------------------------------
\* What the tables answer about a subject depends on its own rows only.
LEMMA SameAnswers ==
    ASSUME NEW t, NEW u, NEW s, \A k \in Keys : k[1] = s => t[k] = u[k]
    PROVE  Answers(t, s) = Answers(u, s)
<1>1. ASSUME NEW scope \in Scopes
      PROVE  Visible(t, s, scope) = Visible(u, s, scope)
  <2> DEFINE shown == {k \in Keys : k[1] = s /\ k[2] \in scope}
  <2>1. \A k \in shown : Range(t[k]) = Range(u[k])
    BY DEF Range
  <2>2. {Range(t[k]) : k \in shown} = {Range(u[k]) : k \in shown}
    BY <2>1
  <2> HIDE DEF shown
  <2>3. UNION {Range(t[k]) : k \in shown} = UNION {Range(u[k]) : k \in shown}
    BY <2>2
  <2> QED
    BY <2>3 DEF Visible, shown
<1> QED
  BY <1>1 DEF Answers

\* A type works with subjects, and every key it writes belongs to its subject.
LEMMA SubjectsAreSubjects ==
    ASSUME NEW kind \in DOMAIN Before, NEW filter \in Projects \cup {None}
    PROVE  SubjectsFor(kind, filter) \subseteq Subjects
BY ProfileAssumption DEF SubjectsFor, Subjects, Before

LEMMA KeyOfSubject ==
    ASSUME NEW s, NEW filter
    PROVE  KeyOf(s, filter)[1] = s
BY DEF KeyOf

LEMMA FreshInit == ProfileInit => FreshInv
<1> SUFFICES ASSUME ProfileInit PROVE FreshInv
  OBVIOUS
<1>1. \A r \in Requests : sessions[r] = Idle
  BY DEF ProfileInit
<1>2. \A s \in Subjects : cache[s] = Missing
  BY DEF ProfileInit
<1>3. Shapes
  BY <1>1 DEF ProfileInit, Shapes
<1>4. ReadersCurrent /\ RacesNoted /\ StayInvalid
  BY <1>1 DEF ReadersCurrent, RacesNoted, StayInvalid, Recalculating, Idle
<1>5. FreshUnlessRaced
  BY <1>2 DEF FreshUnlessRaced, Fresh
<1> QED
  BY <1>3, <1>4, <1>5 DEF FreshInv
-----------------------------------------------------------------------------
(* Steps of readers and of the environment *)

LEMMA BeginReadKeeps ==
    ASSUME FreshInv, NEW r \in Requests, NEW s \in Subjects, NEW scope \in Scopes,
           BeginRead(r, s, scope)
    PROVE  FreshInv'
<1> DEFINE opened == [op |-> "read", subject |-> s, at |-> "lookup",
                      sees |-> Visible(rows, s, scope)]
<1> USE DEF FreshInv, Shapes
<1>1. /\ sessions' = [sessions EXCEPT ![r] = opened]
      /\ UNCHANGED <<rows, cache>>
      /\ raced \subseteq raced'
      /\ \A q \in Requests : Recalculating(q) /\ s \in Uses(q) => s \in raced'
  BY DEF BeginRead
<1>2. \A q \in Requests \ {r} : /\ sessions'[q] = sessions[q]
                               /\ Uses(q)' = Uses(q) /\ Recalculating(q)' = Recalculating(q)
  BY <1>1 DEF Uses, Recalculating
<1>3. sessions'[r] = opened /\ ~ Recalculating(r)' /\ ReadShape(opened)
  BY <1>1 DEF Recalculating, ReadShape
<1>4. Visible(rows, s, scope) \subseteq Answers(rows, s)
  BY DEF Answers
<1>5. Answers(rows, s)' = Answers(rows, s) /\ \A x : Answers(rows, x)' = Answers(rows, x)
  BY <1>1 DEF Answers, Visible
<1>6. Shapes'
  BY <1>1, <1>2, <1>3
<1>7. ReadersCurrent'
  BY <1>1, <1>2, <1>3, <1>4, <1>5 DEF ReadersCurrent
<1>8. RacesNoted'
  BY <1>1, <1>2, <1>3 DEF RacesNoted
<1>9. StayInvalid'
  BY <1>1, <1>2, <1>3 DEF StayInvalid
<1>10. FreshUnlessRaced'
  BY <1>1, <1>5 DEF FreshUnlessRaced, Fresh
<1> QED
  BY <1>6, <1>7, <1>8, <1>9, <1>10

LEMMA LookupKeeps ==
    ASSUME FreshInv, NEW r \in Requests, Lookup(r)
    PROVE  FreshInv'
<1> USE DEF FreshInv, Shapes
<1> DEFINE m == sessions[r]
<1>1. ReadShape(m) /\ UNCHANGED <<rows, cache, raced>>
  BY DEF Lookup, RecalculateShape, Idle
<1>2. \A q \in Requests \ {r} : /\ sessions'[q] = sessions[q]
                               /\ Uses(q)' = Uses(q) /\ Recalculating(q)' = Recalculating(q)
  BY DEF Lookup, Uses, Recalculating
<1>3. \/ sessions'[r] = Idle
      \/ sessions'[r] = [op |-> "read", subject |-> m.subject, at |-> "fill", sees |-> m.sees]
  BY <1>1 DEF Lookup, ReadShape
<1>4. ~ Recalculating(r)'
  BY <1>3 DEF Recalculating, Idle
<1>5. \A x : Answers(rows, x)' = Answers(rows, x)
  BY <1>1 DEF Answers, Visible
<1>6. Shapes'
  <2>1. sessions' = [q \in Requests |-> sessions'[q]]
    BY DEF Lookup
  <2>2. sessions'[r] = Idle \/ ReadShape(sessions'[r])
    BY <1>1, <1>3 DEF ReadShape
  <2> QED
    BY <1>1, <1>2, <2>1, <2>2
<1>7. ReadersCurrent'
  BY <1>1, <1>2, <1>3, <1>5 DEF ReadersCurrent, Idle, ReadShape
<1>8. RacesNoted'
  BY <1>1, <1>2, <1>3, <1>4 DEF RacesNoted, Idle, ReadShape
<1>9. StayInvalid'
  BY <1>1, <1>2, <1>4 DEF StayInvalid
<1>10. FreshUnlessRaced'
  BY <1>1, <1>5 DEF FreshUnlessRaced, Fresh
<1> QED
  BY <1>6, <1>7, <1>8, <1>9, <1>10

\* Filling is harmless for a subject that was not raced: the answer is current,
\* and nobody is recalculating the subject.
LEMMA FillKeeps ==
    ASSUME FreshInv, NEW r \in Requests, Fill(r)
    PROVE  FreshInv'
<1> USE DEF FreshInv, Shapes
<1> DEFINE s == sessions[r].subject
<1>1. ReadShape(sessions[r]) /\ sessions[r].op = "read" /\ UNCHANGED <<rows, raced>>
  BY DEF Fill, RecalculateShape, Idle
<1>2. PICK answer \in sessions[r].sees : cache' = [cache EXCEPT ![s] = answer]
  BY DEF Fill
<1>3. \A q \in Requests \ {r} : /\ sessions'[q] = sessions[q]
                               /\ Uses(q)' = Uses(q) /\ Recalculating(q)' = Recalculating(q)
  BY DEF Fill, Uses, Recalculating
<1>4. sessions'[r] = Idle /\ ~ Recalculating(r)' /\ sessions'[r].op # "read"
  BY DEF Fill, Recalculating, Idle
<1>5. \A x : Answers(rows, x)' = Answers(rows, x)
  BY <1>1 DEF Answers, Visible
<1>6. Shapes'
  <2>1. sessions' = [q \in Requests |-> sessions'[q]] /\ cache' = [x \in Subjects |-> cache'[x]]
    BY <1>2 DEF Fill
  <2> QED
    BY <1>1, <1>3, <1>4, <2>1
<1>7. ReadersCurrent'
  BY <1>1, <1>3, <1>4, <1>5 DEF ReadersCurrent
<1>8. RacesNoted'
  BY <1>1, <1>3, <1>4 DEF RacesNoted
<1>9. StayInvalid'
  BY <1>1, <1>2, <1>3, <1>4 DEF StayInvalid, RacesNoted
<1>10. FreshUnlessRaced'
  <2> SUFFICES ASSUME NEW x \in Subjects, x \notin raced, cache'[x] # Missing
               PROVE  cache'[x] \in Answers(rows, x)
    BY <1>1, <1>5 DEF FreshUnlessRaced, Fresh
  <2>1. CASE x = s
    BY <1>1, <1>2, <2>1 DEF ReadersCurrent, ReadShape
  <2>2. CASE x # s
    BY <1>2, <2>2 DEF FreshUnlessRaced, Fresh
  <2> QED
    BY <2>1, <2>2
<1> QED
  BY <1>6, <1>7, <1>8, <1>9, <1>10

LEMMA ExpireKeeps ==
    ASSUME FreshInv, NEW s \in Subjects, Expire(s)
    PROVE  FreshInv'
<1> USE DEF FreshInv, Shapes
<1>1. UNCHANGED <<rows, sessions, raced>> /\ cache' = [cache EXCEPT ![s] = Missing]
  BY DEF Expire
<1>2. \A x : Answers(rows, x)' = Answers(rows, x)
  BY <1>1 DEF Answers, Visible
<1>3. \A q \in Requests : Uses(q)' = Uses(q) /\ Recalculating(q)' = Recalculating(q)
  BY <1>1 DEF Uses, Recalculating
<1>4. Shapes' /\ ReadersCurrent' /\ RacesNoted' /\ StayInvalid'
  BY <1>1, <1>2, <1>3 DEF ReadersCurrent, RacesNoted, StayInvalid
<1>5. FreshUnlessRaced'
  BY <1>1, <1>2 DEF FreshUnlessRaced, Fresh
<1> QED
  BY <1>4, <1>5

\* Nothing the invariant speaks of changes.
LEMMA SameKeeps ==
    ASSUME FreshInv, UNCHANGED <<rows, cache, sessions, raced>>
    PROVE  FreshInv'
<1> USE DEF FreshInv, Shapes
<1>1. \A x : Answers(rows, x)' = Answers(rows, x)
  BY DEF Answers, Visible
<1>2. \A q \in Requests : Uses(q)' = Uses(q) /\ Recalculating(q)' = Recalculating(q)
  BY DEF Uses, Recalculating
<1>3. Shapes' /\ ReadersCurrent' /\ RacesNoted' /\ StayInvalid'
  BY <1>1, <1>2 DEF ReadersCurrent, RacesNoted, StayInvalid
<1>4. FreshUnlessRaced'
  BY <1>1 DEF FreshUnlessRaced, Fresh
<1> QED
  BY <1>3, <1>4

LEMMA FailKeeps ==
    ASSUME FreshInv, NEW r \in Requests, Fail(r)
    PROVE  FreshInv'
<1> USE DEF FreshInv, Shapes
<1>1. UNCHANGED <<rows, cache, raced>>
  BY DEF Fail
<1>2. \A q \in Requests \ {r} : /\ sessions'[q] = sessions[q]
                               /\ Uses(q)' = Uses(q) /\ Recalculating(q)' = Recalculating(q)
  BY DEF Fail, Uses, Recalculating
<1>3. sessions'[r] = Idle /\ ~ Recalculating(r)' /\ sessions'[r].op # "read"
  BY DEF Fail, Recalculating, Idle
<1>4. \A x : Answers(rows, x)' = Answers(rows, x)
  BY <1>1 DEF Answers, Visible
<1>5. Shapes'
  <2>1. sessions' = [q \in Requests |-> sessions'[q]]
    BY DEF Fail
  <2> QED
    BY <1>1, <1>2, <1>3, <2>1
<1>6. ReadersCurrent' /\ RacesNoted' /\ StayInvalid'
  BY <1>1, <1>2, <1>3, <1>4 DEF ReadersCurrent, RacesNoted, StayInvalid
<1>7. FreshUnlessRaced'
  BY <1>1, <1>4 DEF FreshUnlessRaced, Fresh
<1> QED
  BY <1>5, <1>6, <1>7
-----------------------------------------------------------------------------
(* Steps of recalculations *)

\* Opening a type marks as raced whatever another request is working with, so
\* the subjects left unmarked are read by nobody.
LEMMA StartKeeps ==
    ASSUME FreshInv, NEW r \in Requests, ~ (sessions[r].op = "read"),
           NEW todo \in SUBSET DOMAIN Before, NEW filter \in Projects \cup {None},
           NEW kind \in todo, StartType(r, kind, todo, filter)
    PROVE  FreshInv'
<1> USE DEF FreshInv, Shapes
<1> DEFINE subjects == SubjectsFor(kind, filter)
           writes == [k \in {KeyOf(s, filter) : s \in subjects} |->
                         [was |-> IF rows[k] = <<>> THEN None ELSE rows[k][1],
                          new |-> NewProfile(k[1], filter)]]
           opened == Recalculation("loop", filter, todo \ {kind}, writes, subjects)
<1>1. /\ sessions' = [sessions EXCEPT ![r] = opened]
      /\ raced' = raced \cup (subjects \cap UNION {Uses(q) : q \in Requests \ {r}})
      /\ UNCHANGED <<rows, cache>>
  BY DEF StartType
<1>2. {k[1] : k \in DOMAIN writes} = subjects
  <2>1. DOMAIN writes = {KeyOf(s, filter) : s \in subjects}
    OBVIOUS
  <2> HIDE DEF writes, subjects
  <2>2. \A x : x \in {k[1] : k \in DOMAIN writes} <=> \E s \in subjects : x = KeyOf(s, filter)[1]
    BY <2>1
  <2>3. \A s \in subjects : KeyOf(s, filter)[1] = s
    BY KeyOfSubject
  <2> QED
    BY <2>2, <2>3
<1> HIDE DEF writes, subjects
<1>3. /\ sessions'[r] = opened /\ Recalculating(r)' /\ sessions'[r].op # "read"
      /\ Uses(r)' = subjects /\ sessions'[r].drop = subjects
  BY <1>1, <1>2 DEF Recalculating, Uses, Recalculation
<1>4. \A q \in Requests \ {r} : /\ sessions'[q] = sessions[q]
                               /\ Uses(q)' = Uses(q) /\ Recalculating(q)' = Recalculating(q)
  BY <1>1 DEF Uses, Recalculating
<1>5. \A x : Answers(rows, x)' = Answers(rows, x)
  BY <1>1 DEF Answers, Visible
<1>6. Shapes'
  <2>1. sessions' = [q \in Requests |-> sessions'[q]]
    BY <1>1
  <2>2. RecalculateShape(opened)
    BY <1>2 DEF RecalculateShape, Recalculation
  <2> QED
    BY <1>1, <1>3, <1>4, <2>1, <2>2
<1>7. ReadersCurrent'
  BY <1>1, <1>3, <1>4, <1>5 DEF ReadersCurrent
<1>8. RacesNoted'
  <2> SUFFICES ASSUME NEW q \in Requests, NEW c \in Requests,
                      sessions'[q].op = "read", Recalculating(c)',
                      sessions'[q].subject \in Uses(c)'
               PROVE  sessions'[q].subject \in raced'
    BY DEF RacesNoted
  <2>1. q # r /\ sessions[q].op = "read" /\ sessions'[q] = sessions[q]
    BY <1>3, <1>4
  <2>2. CASE c = r
    <3>1. Uses(q) = {sessions[q].subject}
      BY <2>1 DEF Uses
    <3> QED
      BY <1>1, <1>3, <2>1, <2>2, <3>1
  <2>3. CASE c # r
    BY <1>1, <1>4, <2>1, <2>3 DEF RacesNoted
  <2> QED
    BY <2>2, <2>3
<1>9. StayInvalid'
  BY <1>1, <1>3, <1>4 DEF StayInvalid
<1>10. FreshUnlessRaced'
  BY <1>1, <1>5 DEF FreshUnlessRaced, Fresh
<1> QED
  BY <1>6, <1>7, <1>8, <1>9, <1>10

LEMMA BeginRecalculationKeeps ==
    ASSUME FreshInv, NEW r \in Requests, NEW kinds \in Wanted, NEW filter \in Filters,
           BeginRecalculation(r, kinds, filter)
    PROVE  FreshInv'
<1>1. kinds \in SUBSET DOMAIN Before /\ filter \in Projects \cup {None}
  BY ProfileAssumption DEF Before
<1>2. sessions[r].op # "read"
  BY DEF BeginRecalculation, Idle
<1> QED
  BY <1>1, <1>2, StartKeeps DEF BeginRecalculation

LEMMA NextTypeKeeps ==
    ASSUME FreshInv, NEW r \in Requests, NextType(r)
    PROVE  FreshInv'
<1>1. RecalculateShape(sessions[r]) /\ sessions[r].op # "read"
  BY DEF FreshInv, Shapes, NextType, Recalculating, ReadShape, Idle
<1>2. /\ sessions[r].todo \in SUBSET DOMAIN Before
      /\ sessions[r].filter \in Projects \cup {None}
  BY <1>1 DEF RecalculateShape
<1> QED
  BY <1>1, <1>2, StartKeeps DEF NextType

LEMMA InvalidateKeeps ==
    ASSUME FreshInv, NEW r \in Requests, NEW s \in Subjects, Invalidate(r, s)
    PROVE  FreshInv'
<1> USE DEF FreshInv, Shapes
<1> DEFINE m == sessions[r]
<1>1. /\ RecalculateShape(m) /\ Recalculating(r) /\ UNCHANGED <<rows, raced>>
      /\ cache' = [cache EXCEPT ![s] = Missing]
  BY DEF Invalidate, Recalculating, ReadShape, Idle
<1>2. sessions'[r] = [op |-> "recalculate", at |-> "loop", filter |-> m.filter, todo |-> m.todo,
                      writes |-> m.writes, drop |-> m.drop \ {s}]
  BY DEF Invalidate, Recalculation
<1>3. Recalculating(r)' /\ Uses(r)' = Uses(r) /\ sessions'[r].op # "read"
      /\ sessions'[r].drop = m.drop \ {s}
  BY <1>1, <1>2 DEF Recalculating, Uses, RecalculateShape
<1>4. \A q \in Requests \ {r} : /\ sessions'[q] = sessions[q]
                               /\ Uses(q)' = Uses(q) /\ Recalculating(q)' = Recalculating(q)
  BY DEF Invalidate, Uses, Recalculating
<1>5. \A x : Answers(rows, x)' = Answers(rows, x)
  BY <1>1 DEF Answers, Visible
<1>6. Shapes'
  <2>1. sessions' = [q \in Requests |-> sessions'[q]] /\ cache' = [x \in Subjects |-> cache'[x]]
    BY DEF Invalidate
  <2>2. RecalculateShape(sessions'[r])
    BY <1>1, <1>2 DEF RecalculateShape
  <2> QED
    BY <1>1, <1>4, <2>1, <2>2
<1>7. ReadersCurrent' /\ RacesNoted'
  BY <1>1, <1>3, <1>4, <1>5 DEF ReadersCurrent, RacesNoted
<1>8. StayInvalid'
  <2> SUFFICES ASSUME NEW q \in Requests, Recalculating(q)', NEW x \in Uses(q)',
                      x \notin raced, x \notin sessions'[q].drop
               PROVE  cache'[x] = Missing
    BY <1>1 DEF StayInvalid
  <2>1. Recalculating(q) /\ x \in Uses(q)
    BY <1>1, <1>3, <1>4
  <2>2. CASE x = s
    BY <1>1, <2>2
  <2>3. CASE x # s
    <3>1. x \notin sessions[q].drop
      BY <1>3, <1>4, <2>3
    <3> QED
      BY <1>1, <2>1, <2>3, <3>1 DEF StayInvalid
  <2> QED
    BY <2>2, <2>3
<1>9. FreshUnlessRaced'
  BY <1>1, <1>5 DEF FreshUnlessRaced, Fresh
<1> QED
  BY <1>6, <1>7, <1>8, <1>9

\* The COMMIT changes the rows of the session's subjects only.  An unmarked one
\* is out of the cache by then, and nobody reads it.
LEMMA CommitTypeKeeps ==
    ASSUME FreshInv, NEW r \in Requests, CommitType(r)
    PROVE  FreshInv'
<1> USE DEF FreshInv, Shapes
<1> DEFINE m == sessions[r]
<1>1. /\ RecalculateShape(m) /\ Recalculating(r) /\ m.drop = {} /\ UNCHANGED <<cache, raced>>
      /\ rows' = [k \in Keys |-> IF k \in DOMAIN m.writes
                                 THEN Written(rows[k], m.writes[k]) ELSE rows[k]]
  BY DEF CommitType, Recalculating, ReadShape, Idle
<1>2. Uses(r) = {k[1] : k \in DOMAIN m.writes}
  BY <1>1 DEF Uses, Recalculating
<1>3. \A x : x \notin Uses(r) => Answers(rows', x) = Answers(rows, x)
  <2> TAKE x
  <2> HAVE x \notin Uses(r)
  <2>1. \A k \in Keys : k[1] = x => rows'[k] = rows[k]
    BY <1>1, <1>2
  <2> QED
    BY <2>1, SameAnswers
<1>4. \A x : Answers(rows, x)' = Answers(rows', x)
  BY DEF Answers, Visible
<1>5. \A q \in Requests \ {r} : /\ sessions'[q] = sessions[q]
                               /\ Uses(q)' = Uses(q) /\ Recalculating(q)' = Recalculating(q)
  BY DEF CommitType, Uses, Recalculating
<1>6. \/ sessions'[r] = Idle
      \/ sessions'[r] = [op |-> "recalculate", at |-> "between", filter |-> m.filter,
                         todo |-> m.todo, writes |-> <<>>, drop |-> {}]
  BY DEF CommitType, Recalculation
<1>7. sessions'[r].op # "read" /\ Uses(r)' = {}
  BY <1>6 DEF Uses, Idle
<1>8. Shapes'
  <2>1. sessions' = [q \in Requests |-> sessions'[q]] /\ rows' = [k \in Keys |-> rows'[k]]
    BY <1>1 DEF CommitType
  <2>2. sessions'[r] = Idle \/ RecalculateShape(sessions'[r])
    BY <1>1, <1>6 DEF RecalculateShape
  <2> QED
    BY <1>1, <1>5, <2>1, <2>2
<1>9. ReadersCurrent'
  <2> SUFFICES ASSUME NEW q \in Requests, sessions'[q].op = "read",
                      sessions'[q].subject \notin raced
               PROVE  sessions'[q].sees \subseteq Answers(rows', sessions'[q].subject)
    BY <1>1, <1>4 DEF ReadersCurrent
  <2>1. q # r /\ sessions'[q] = sessions[q]
    BY <1>5, <1>7
  <2>2. sessions[q].subject \notin Uses(r)
    BY <1>1, <2>1 DEF RacesNoted
  <2> QED
    BY <1>3, <2>1, <2>2 DEF ReadersCurrent
<1>10. RacesNoted' /\ StayInvalid'
  BY <1>1, <1>5, <1>7 DEF RacesNoted, StayInvalid
<1>11. FreshUnlessRaced'
  <2> SUFFICES ASSUME NEW x \in Subjects, x \notin raced, cache[x] # Missing
               PROVE  cache[x] \in Answers(rows', x)
    BY <1>1, <1>4 DEF FreshUnlessRaced, Fresh
  <2>1. x \notin Uses(r)
    BY <1>1 DEF StayInvalid
  <2> QED
    BY <1>3, <2>1 DEF FreshUnlessRaced, Fresh
<1> QED
  BY <1>8, <1>9, <1>10, <1>11
-----------------------------------------------------------------------------
LEMMA FreshStep == FreshInv /\ [ProfileNext]_profileVars => FreshInv'
<1> SUFFICES ASSUME FreshInv, [ProfileNext]_profileVars PROVE FreshInv'
  OBVIOUS
<1>1. ASSUME NEW r \in Requests, NEW s \in Popular, NEW scope \in Scopes, BeginRead(r, s, scope)
      PROVE  FreshInv'
  BY <1>1, BeginReadKeeps, ProfileAssumption
<1>2. ASSUME NEW r \in Requests, NEW kinds \in Wanted, NEW filter \in Filters,
             BeginRecalculation(r, kinds, filter)
      PROVE  FreshInv'
  BY <1>2, BeginRecalculationKeeps
<1>3. ASSUME NEW r \in Requests, Serve(r)
      PROVE  FreshInv'
  BY <1>3, LookupKeeps, FillKeeps, NextTypeKeeps, InvalidateKeeps, CommitTypeKeeps, FailKeeps
     DEF Serve
<1>4. ASSUME NEW s \in Subjects, Expire(s)
      PROVE  FreshInv'
  BY <1>4, ExpireKeeps
<1>5. ASSUME NEW s \in Subjects, ChangeFacts(s)
      PROVE  FreshInv'
  BY <1>5, SameKeeps DEF ChangeFacts
<1>6. CASE UNCHANGED profileVars
  BY <1>6, SameKeeps DEF profileVars
<1> QED
  BY <1>1, <1>2, <1>3, <1>4, <1>5, <1>6 DEF ProfileNext

\* A cache entry differs from the tables only if somebody read the subject while
\* it was being recalculated: whatever fails in between, deleting the key before
\* the COMMIT leaves no stale entry behind.
THEOREM FreshCache == ProfileSpec => []FreshUnlessRaced
<1>1. FreshInv => FreshUnlessRaced
  BY DEF FreshInv
<1> QED
  BY FreshInit, FreshStep, <1>1, PTL DEF ProfileSpec
-----------------------------------------------------------------------------
(* Where cached answers come from *)

PastInv ==
    /\ past = [s \in Subjects |-> past[s]]
    /\ \A s \in Subjects : Answers(rows, s) \subseteq past[s]
    /\ \A r \in Requests :
          sessions[r].op = "read" => sessions[r].sees \subseteq past[sessions[r].subject]
    /\ NothingInvented

LEMMA PastInit == ProfileInit => PastInv
BY DEF ProfileInit, PastInv, NothingInvented, Idle

LEMMA PastStep == FreshInv /\ PastInv /\ [ProfileNext]_profileVars => PastInv'
<1> SUFFICES ASSUME FreshInv, PastInv, [ProfileNext]_profileVars PROVE PastInv'
  OBVIOUS
<1> USE DEF PastInv, FreshInv, Shapes
<1>1. UNCHANGED rows => \A s : Answers(rows, s)' = Answers(rows, s)
  BY DEF Answers, Visible
<1>2. ASSUME NEW r \in Requests, NEW s \in Popular, NEW scope \in Scopes, BeginRead(r, s, scope)
      PROVE  PastInv'
  <2>1. s \in Subjects /\ Visible(rows, s, scope) \subseteq past[s]
    BY ProfileAssumption DEF Answers
  <2> QED
    BY <1>1, <1>2, <2>1 DEF BeginRead, NothingInvented
<1>3. ASSUME NEW r \in Requests, Lookup(r)
      PROVE  PastInv'
  <2>1. ReadShape(sessions[r])
    BY <1>3 DEF Lookup, RecalculateShape, Idle
  <2>2. \/ sessions'[r] = Idle
        \/ sessions'[r] = [op |-> "read", subject |-> sessions[r].subject, at |-> "fill",
                           sees |-> sessions[r].sees]
    BY <1>3, <2>1 DEF Lookup, ReadShape
  <2>3. sessions'[r].op = "read" => /\ sessions'[r].sees = sessions[r].sees
                                    /\ sessions'[r].subject = sessions[r].subject
    BY <2>2 DEF Idle
  <2>4. sessions[r].op = "read"
    BY <1>3 DEF Lookup
  <2> QED
    BY <1>1, <1>3, <2>3, <2>4 DEF Lookup, NothingInvented
<1>4. ASSUME NEW r \in Requests, Fill(r)
      PROVE  PastInv'
  <2>1. ReadShape(sessions[r])
    BY <1>4 DEF Fill, RecalculateShape, Idle
  <2>2. PICK answer \in sessions[r].sees :
             cache' = [cache EXCEPT ![sessions[r].subject] = answer]
    BY <1>4 DEF Fill
  <2>3. NothingInvented'
    BY <1>4, <2>1, <2>2 DEF Fill, NothingInvented, ReadShape
  <2> QED
    BY <1>1, <1>4, <2>3 DEF Fill, Idle
<1>5. ASSUME NEW r \in Requests, NEW kind, NEW todo, NEW filter, StartType(r, kind, todo, filter)
      PROVE  PastInv'
  BY <1>1, <1>5 DEF StartType, Recalculation, NothingInvented
<1>6. ASSUME NEW r \in Requests, NEW s \in Subjects, Invalidate(r, s)
      PROVE  PastInv'
  BY <1>1, <1>6 DEF Invalidate, Recalculation, NothingInvented
<1>7. ASSUME NEW r \in Requests, CommitType(r)
      PROVE  PastInv'
  <2>1. \A s : Answers(rows, s)' = Answers(rows', s)
    BY DEF Answers, Visible
  <2>2. \A s \in Subjects : past'[s] = past[s] \cup Answers(rows', s)
    BY <1>7 DEF CommitType
  <2>3. sessions'[r].op # "read" /\ \A q \in Requests \ {r} : sessions'[q] = sessions[q]
    BY <1>7 DEF CommitType, Recalculation, Idle
  <2>4. \A q \in Requests : sessions[q].op = "read" => sessions[q].subject \in Subjects
    BY DEF ReadShape, RecalculateShape, Idle
  <2>5. \A q \in Requests :
           sessions'[q].op = "read" => sessions'[q].sees \subseteq past'[sessions'[q].subject]
    BY <2>2, <2>3, <2>4
  <2> QED
    BY <1>7, <2>1, <2>2, <2>5 DEF CommitType, NothingInvented
<1>8. ASSUME NEW r \in Requests, Fail(r)
      PROVE  PastInv'
  BY <1>1, <1>8 DEF Fail, Idle, NothingInvented
<1>9. ASSUME NEW s \in Subjects, Expire(s)
      PROVE  PastInv'
  BY <1>1, <1>9 DEF Expire, NothingInvented
<1>10. CASE UNCHANGED <<rows, cache, sessions, past>>
  BY <1>1, <1>10 DEF NothingInvented
<1>11. ASSUME NEW r \in Requests, Serve(r)
       PROVE  PastInv'
  BY <1>3, <1>4, <1>5, <1>6, <1>7, <1>8, <1>11 DEF Serve, NextType
<1>12. ASSUME NEW r \in Requests, NEW kinds, NEW filter, BeginRecalculation(r, kinds, filter)
       PROVE  PastInv'
  BY <1>5, <1>12 DEF BeginRecalculation
<1> QED
  BY <1>2, <1>9, <1>10, <1>11, <1>12 DEF ProfileNext, ChangeFacts, profileVars

\* Every cached answer was committed before it was cached, however requests
\* overlap and fail.
THEOREM CachedWasCommitted == ProfileSpec => []NothingInvented
<1>1. PastInv => NothingInvented
  BY DEF PastInv
<1> QED
  BY FreshInit, FreshStep, PastInit, PastStep, <1>1, PTL DEF ProfileSpec

-----------------------------------------------------------------------------
(* Every profile that is computed has the level of its score *)

Sound(row) == row.level = LevelFor(row.score)

LEMMA RaisedSound ==
    ASSUME NEW score \in Int, NEW must
    PROVE  Raised(score, must) \in Row /\ Sound(Raised(score, must))
<1>1. LevelFor(score) \in {"low", "medium", "high", "critical"}
  BY DEF LevelFor
<1>2. CASE must /\ LevelFor(score) \in {"low", "medium"}
  <2>1. score <= 6000
    BY <1>2 DEF LevelFor
  <2>2. Raised(score, must) = [score |-> 6100, level |-> "high"]
    BY <1>2, <2>1 DEF Raised, Most
  <2> QED
    BY <2>2 DEF Row, Sound, LevelFor
<1>3. CASE ~ (must /\ LevelFor(score) \in {"low", "medium"})
  <2>1. Raised(score, must) = [score |-> score, level |-> LevelFor(score)]
    BY <1>3 DEF Raised
  <2> QED
    BY <1>1, <2>1 DEF Row, Sound
<1> QED
  BY <1>2, <1>3

LEMMA FinalScoreType ==
    ASSUME NEW base \in Int, NEW factor \in Int, NEW bonus \in Int
    PROVE  FinalScore(base, factor, bonus) \in Int
<1>1. base * factor + 50 \in Int
  OBVIOUS
<1>2. (base * factor + 50) \div 100 \in Int
  BY <1>1
<1>3. 100 * bonus \in Int
  OBVIOUS
<1> QED
  BY <1>2, <1>3 DEF FinalScore, Least, Most

LEMMA ProjectSound ==
    ASSUME NEW f, ProjectFact(f)
    PROVE  ProjectProfile(f) \in Row /\ Sound(ProjectProfile(f))
<1>1. ProjectBase(f) \in Int
  <2>1. PICK x \in Int, y \in Int, z \in Int : Coefficients(f.type) = <<x, y, z>>
    BY DEF Coefficients
  <2>2. f.overdue * 8 * x \in Int /\ f.equipment * 10 * y \in Int /\ f.schedule * z \in Int
    BY DEF ProjectFact
  <2> QED
    BY <2>1, <2>2 DEF ProjectBase, Least
<1>2. DynamicFactor(f) \in Int /\ ProjectBonus(f) \in Int
  BY DEF DynamicFactor, ProjectBonus, Least, When
<1>3. FinalScore(ProjectBase(f), DynamicFactor(f), ProjectBonus(f)) \in Int
  BY <1>1, <1>2, FinalScoreType
<1> QED
  BY <1>3, RaisedSound DEF ProjectProfile

LEMMA WorkerSound ==
    ASSUME NEW f
    PROVE  WorkerProfile(f) \in Row /\ Sound(WorkerProfile(f))
<1>1. WorkerBase(f) \in Int /\ WorkerBonus(f) \in Int
  BY DEF WorkerBase, WorkerBonus, When
<1>2. FinalScore(WorkerBase(f), 100, WorkerBonus(f)) \in Int
  BY <1>1, FinalScoreType
<1>3. [score |-> 0, level |-> "low"] \in Row /\ Sound([score |-> 0, level |-> "low"])
  BY DEF Row, Sound, LevelFor
<1> QED
  BY <1>2, <1>3, RaisedSound DEF WorkerProfile

LEMMA SubSound ==
    ASSUME NEW f, NEW overdue \in Nat, NEW major \in Nat, NEW ratio \in Int
    PROVE  SubProfile(f, overdue, major, ratio) \in Row /\ Sound(SubProfile(f, overdue, major, ratio))
<1>1. SubBase(overdue, ratio) \in Int
  <2>1. (ratio * 4 + 5) \div 10 \in Int
    OBVIOUS
  <2> QED
    BY <2>1 DEF SubBase, Least
<1>2. SubBonus(f, major) \in Int
  BY DEF SubBonus, When
<1>3. FinalScore(SubBase(overdue, ratio), 100, SubBonus(f, major)) \in Int
  BY <1>1, <1>2, FinalScoreType
<1> QED
  BY <1>3, RaisedSound DEF SubProfile

\* Hazards and rows are counted over finitely many projects and workers.
LEMMA PiecesFinite ==
    ASSUME NEW S, IsFiniteSet(S), NEW piece, \A x \in S : IsFiniteSet(piece[x])
    PROVE  Cardinality(UNION {piece[x] : x \in S}) \in Nat
<1> DEFINE pieces == {piece[x] : x \in S}
           f == [x \in S |-> piece[x]]
<1>1. f \in Surjection(S, pieces)
  BY DEF Surjection
<1>2. IsFiniteSet(pieces)
  <2> HIDE DEF pieces, f
  <2> QED
    BY <1>1, FS_Surjection
<1>3. \A t \in pieces : IsFiniteSet(t)
  OBVIOUS
<1> HIDE DEF pieces
<1>4. IsFiniteSet(UNION pieces)
  BY <1>2, <1>3, FS_UNION
<1> QED
  BY <1>4, FS_CardinalityType DEF pieces

LEMMA HazardCountType ==
    ASSUME NEW counts \in [Projects -> Nat], NEW projects, projects \subseteq Projects
    PROVE  HazardCount(counts, projects) \in Nat
<1> DEFINE piece == [p \in projects |-> {p} \X (1..counts[p])]
<1>1. IsFiniteSet(projects)
  BY FactsAssumption, FS_Subset
<1>2. ASSUME NEW p \in projects PROVE IsFiniteSet(piece[p])
  <2>0. PICK n \in Int : n = counts[p]
    BY <1>2
  <2>s. IsFiniteSet({p})
    BY FS_Singleton
  <2>i. 1 \in Int
    OBVIOUS
  <2>1. IsFiniteSet({p}) /\ IsFiniteSet(1..n)
    BY <2>s, <2>i, FS_Interval
  <2>2. IsFiniteSet({p} \X (1..n))
    BY <2>1, FS_Product
  <2> QED
    BY <2>0, <2>2
<1>3. {piece[p] : p \in projects} = {{p} \X (1..counts[p]) : p \in projects}
  OBVIOUS
<1> HIDE DEF piece
<1>4. Cardinality(UNION {piece[p] : p \in projects}) \in Nat
  BY <1>1, <1>2, PiecesFinite
<1> QED
  BY <1>3, <1>4 DEF HazardCount

LEMMA HighRiskRowsType ==
    ASSUME rows \in [Keys -> Seq(Row)], NEW ws, ws \subseteq Workers
    PROVE  HighRiskRows(rows, ws) \in Nat
<1> DEFINE High(k) == {i \in DOMAIN rows[k] : rows[k][i].level \in {"high", "critical"}}
           keys == {key \in Keys : key[1] \in ws}
           piece == [k \in keys |-> {k} \X High(k)]
           f == [w \in ws |-> <<w, ProjectOf[w]>>]
<1>1. IsFiniteSet(keys)
  <2>1. IsFiniteSet(ws)
    BY FactsAssumption, FS_Subset
  <2>2. \A key \in keys : key[1] \in ws /\ key = <<key[1], ProjectOf[key[1]]>>
    BY ProfileAssumption DEF Keys
  <2>3. \A w \in ws : f[w] \in keys
    BY DEF Keys
  <2>4. f \in Surjection(ws, keys)
    <3> HIDE DEF keys
    <3> QED
      BY <2>2, <2>3 DEF Surjection
  <2> HIDE DEF keys, f
  <2> QED
    BY <2>1, <2>4, FS_Surjection
<1>2. ASSUME NEW k \in keys PROVE IsFiniteSet(piece[k])
  <2>1. DOMAIN rows[k] = 1..Len(rows[k]) /\ Len(rows[k]) \in Nat
    OBVIOUS
  <2>2. IsFiniteSet(DOMAIN rows[k])
    BY <2>1, FS_Interval
  <2>3. IsFiniteSet(High(k))
    BY <2>2, FS_Subset
  <2> HIDE DEF High
  <2>4. IsFiniteSet({k} \X High(k))
    BY <2>3, FS_Singleton, FS_Product
  <2> QED
    BY <2>4
<1>3. {piece[k] : k \in keys} = {{k} \X High(k) : k \in keys}
  <2> HIDE DEF keys, High
  <2> QED
    OBVIOUS
<1> HIDE DEF piece, keys
<1>4. Cardinality(UNION {piece[k] : k \in keys}) \in Nat
  BY <1>1, <1>2, PiecesFinite
<1>5. HighRiskRows(rows, ws) = Cardinality(UNION {{k} \X High(k) : k \in keys})
  BY DEF HighRiskRows, keys
<1> QED
  BY <1>3, <1>4, <1>5

LEMMA RatioType ==
    ASSUME NEW high \in Nat, NEW n \in Nat
    PROVE  Ratio(high, n) \in Int
<1>1. CASE n = 0
  BY <1>1 DEF Ratio
<1>2. CASE n > 0
  <2> DEFINE x == 20000 * high + n
             y == 2 * n
  <2>1. x \in Int /\ y \in Int /\ y > 0
    BY <1>2
  <2> HIDE DEF x, y
  <2>2. x \div y \in Int
    BY <2>1
  <2> QED
    BY <1>2, <2>2 DEF Ratio, x, y
<1> QED
  BY <1>1, <1>2

FactsTyped == facts = [s \in Subjects |-> facts[s]] /\ \A s \in Subjects : facts[s] \in FactsOf[s]

LEMMA NewProfileSound ==
    ASSUME FactsTyped, rows \in [Keys -> Seq(Row)], NEW s \in Subjects,
           NEW filter \in Projects \cup {None}
    PROVE  NewProfile(s, filter) \in Row /\ Sound(NewProfile(s, filter))
<1>1. CASE s \in Projects
  <2>1. ProjectFact(facts[s])
    BY <1>1, FactsAssumption DEF FactsTyped
  <2>2. NewProfile(s, filter) = ProjectProfile(facts[s])
    BY <1>1, ProfileAssumption DEF NewProfile
  <2> QED
    BY <2>1, <2>2, ProjectSound
<1>2. CASE s \in Workers
  <2>1. s \notin Projects
    BY <1>2, ProfileAssumption
  <2>2. NewProfile(s, filter) = WorkerProfile(facts[s])
    BY <1>2, <2>1, ProfileAssumption DEF NewProfile
  <2> QED
    BY <2>2, WorkerSound
<1>3. CASE s \in Subs
  <2> DEFINE crew == {w \in Workers : SubOf[w] = s /\ (filter = None \/ ProjectOf[w] = filter)}
             projects == IF filter = None THEN Projects ELSE {filter}
             overdue == HazardCount(facts[s].overdue, projects)
             major == HazardCount(facts[s].major, projects)
             ratio == Ratio(HighRiskRows(rows, crew), Cardinality(crew))
  <2>1. s \notin Projects /\ s \notin Workers
    BY <1>3, ProfileAssumption
  <2>2. NewProfile(s, filter) = SubProfile(facts[s], overdue, major, ratio)
    BY <1>3, <2>1 DEF NewProfile
  <2>3. SubFact(facts[s])
    BY <1>3, FactsAssumption DEF FactsTyped
  <2>4. crew \subseteq Workers /\ projects \subseteq Projects
    OBVIOUS
  <2> HIDE DEF crew, projects
  <2>5. overdue \in Nat /\ major \in Nat
    BY <2>3, <2>4, HazardCountType DEF SubFact
  <2>6. HighRiskRows(rows, crew) \in Nat
    BY <2>4, HighRiskRowsType
  <2>7. Cardinality(crew) \in Nat
    BY <2>4, FactsAssumption, FS_Subset, FS_CardinalityType
  <2>8. ratio \in Int
    BY <2>6, <2>7, RatioType
  <2> HIDE DEF overdue, major, ratio
  <2> QED
    BY <2>2, <2>5, <2>8, SubSound
<1> QED
  BY <1>1, <1>2, <1>3 DEF Subjects

-----------------------------------------------------------------------------
(* RowsSoundUnlessRaced *)

Was(k) == IF rows[k] = <<>> THEN None ELSE rows[k][1]

\* What a recalculation will write has the level of its score, and on a subject
\* that was never raced it was computed from the row that is still there.
WritesSound ==
    \A q \in Requests : Recalculating(q) =>
        \A k \in DOMAIN sessions[q].writes :
            /\ k \in Keys
            /\ sessions[q].writes[k].new \in Row /\ Sound(sessions[q].writes[k].new)
            /\ sessions[q].writes[k].was \in Row \cup {None}
            /\ k[1] \in raced \/ sessions[q].writes[k].was = Was(k)

\* Two recalculations share only subjects that are noted as raced.
OverlapsNoted ==
    \A r, q \in Requests : r # q /\ Recalculating(r) /\ Recalculating(q) =>
        Uses(r) \cap Uses(q) \subseteq raced

SoundInv ==
    /\ FactsTyped
    /\ rows \in [Keys -> Seq(Row)]
    /\ sessions = [r \in Requests |-> sessions[r]]
    /\ WritesSound
    /\ OverlapsNoted
    /\ RowsSoundUnlessRaced

LEMMA RowColumns ==
    \A row \in Row : /\ row = [score |-> row.score, level |-> row.level]
                     /\ row.score \in Int
                     /\ row.level \in {"low", "medium", "high", "critical"}
BY DEF Row

LEMMA OneRow ==
    ASSUME NEW S, NEW t \in Seq(S), Len(t) <= 1, t # <<>>
    PROVE  Len(t) = 1 /\ t[1] \in S /\ t = << t[1] >>
<1>0. Len(t) \in Nat /\ (Len(t) = 0 => t = <<>>)
  OBVIOUS
<1>n. Len(t) # 0
  BY <1>0
<1>l. Len(t) = 1
  BY <1>0, <1>n
<1>1. Len(t) = 1 /\ t[1] \in S
  BY <1>l
<1> QED
  BY <1>1

LEMMA WrittenType ==
    ASSUME NEW table \in Seq(Row), NEW w, w.new \in Row, w.was \in Row \cup {None}
    PROVE  /\ Written(table, w) \in Seq(Row)
           /\ Len(Written(table, w)) = IF w.was = None THEN Len(table) + 1 ELSE Len(table)
<1>1. CASE w.was = None
  BY <1>1 DEF Written
<1>2. CASE w.was # None
  <2> DEFINE row == [score |-> IF w.new.score = w.was.score THEN table[1].score ELSE w.new.score,
                     level |-> IF w.new.level = w.was.level THEN table[1].level ELSE w.new.level]
  <2>1. Written(table, w) = [table EXCEPT ![1] = row]
    BY <1>2 DEF Written
  <2>2. ASSUME 1 \in DOMAIN table PROVE row \in Row
    <3>1. table[1] \in Row
      BY <2>2
    <3>2. /\ table[1].score \in Int /\ w.new.score \in Int
          /\ table[1].level \in {"low", "medium", "high", "critical"}
          /\ w.new.level \in {"low", "medium", "high", "critical"}
      BY <3>1, RowColumns
    <3> QED
      BY <3>2 DEF Row
  <2> HIDE DEF row
  <2>3. [table EXCEPT ![1] = row] \in Seq(Row)
    <3>1. PICK n \in Nat : table \in [1..n -> Row]
      BY SeqDef
    <3>2. [table EXCEPT ![1] = row] \in [1..n -> Row]
      BY <2>2, <3>1
    <3> QED
      BY <3>2, SeqDef
  <2>4. DOMAIN [table EXCEPT ![1] = row] = 1..Len(table) /\ Len(table) \in Nat
    OBVIOUS
  <2>5. Len([table EXCEPT ![1] = row]) = Len(table)
    BY <2>3, <2>4
  <2> QED
    BY <1>2, <2>1, <2>3, <2>5
<1> QED
  BY <1>1, <1>2

\* Whoever writes what it computed from the row that is there leaves one sound row.
LEMMA WrittenAlone ==
    ASSUME NEW k \in Keys, rows[k] \in Seq(Row), Len(rows[k]) <= 1,
           NEW w, w.new \in Row, Sound(w.new), w.was = Was(k)
    PROVE  Written(rows[k], w) = << w.new >>
<1>1. w.new = [score |-> w.new.score, level |-> w.new.level]
  BY RowColumns
<1>2. CASE rows[k] = <<>>
  BY <1>2 DEF Was, Written
<1>3. CASE rows[k] # <<>>
  <2>1. Len(rows[k]) = 1 /\ rows[k][1] \in Row /\ rows[k] = << rows[k][1] >>
    BY <1>3, OneRow
  <2>2. w.was = rows[k][1] /\ w.was # None
    BY <1>3, <2>1, ProfileAssumption DEF Was
  <2>3. Written(rows[k], w) = [rows[k] EXCEPT ![1] = [score |-> w.new.score, level |-> w.new.level]]
    BY <2>2 DEF Written
  <2> QED
    BY <1>1, <2>1, <2>3
<1> QED
  BY <1>2, <1>3

LEMMA SoundInit == ProfileInit => SoundInv
<1> SUFFICES ASSUME ProfileInit PROVE SoundInv
  OBVIOUS
<1>1. FactsTyped
  BY DEF ProfileInit, FactsTyped
<1>2. rows \in [Keys -> Seq(Row)] /\ \A k \in Keys : rows[k] = <<>>
  BY DEF ProfileInit
<1>3. \A r \in Requests : ~ Recalculating(r)
  BY DEF ProfileInit, Recalculating, Idle
<1>4. RowsSoundUnlessRaced
  BY <1>2 DEF RowsSoundUnlessRaced, Range
<1> QED
  BY <1>1, <1>2, <1>3, <1>4 DEF SoundInv, WritesSound, OverlapsNoted, ProfileInit

\* A step that leaves the rows alone and opens no recalculation.
LEMMA OthersKeepSound ==
    ASSUME SoundInv, FactsTyped', UNCHANGED rows, raced \subseteq raced',
           sessions' = [r \in Requests |-> sessions'[r]],
           \A q \in Requests : Recalculating(q)' =>
               Recalculating(q) /\ sessions'[q].writes = sessions[q].writes
    PROVE  SoundInv'
<1>1. \A k : Was(k)' = Was(k)
  BY DEF Was
<1>2. WritesSound'
  BY <1>1 DEF SoundInv, WritesSound
<1>3. \A q \in Requests : Recalculating(q)' => Uses(q)' = Uses(q)
  BY DEF Uses, Recalculating
<1>4. OverlapsNoted'
  BY <1>3 DEF SoundInv, OverlapsNoted
<1>5. RowsSoundUnlessRaced'
  BY DEF SoundInv, RowsSoundUnlessRaced
<1> QED
  BY <1>2, <1>4, <1>5 DEF SoundInv

LEMMA StartKeepsSound ==
    ASSUME FreshInv, SoundInv, NEW r \in Requests,
           NEW todo \in SUBSET DOMAIN Before, NEW filter \in Projects \cup {None},
           NEW kind \in todo, StartType(r, kind, todo, filter)
    PROVE  SoundInv'
<1> DEFINE subjects == SubjectsFor(kind, filter)
           writes == [k \in {KeyOf(s, filter) : s \in subjects} |->
                         [was |-> IF rows[k] = <<>> THEN None ELSE rows[k][1],
                          new |-> NewProfile(k[1], filter)]]
           opened == Recalculation("loop", filter, todo \ {kind}, writes, subjects)
<1>1. /\ sessions' = [sessions EXCEPT ![r] = opened]
      /\ raced' = raced \cup (subjects \cap UNION {Uses(q) : q \in Requests \ {r}})
      /\ UNCHANGED <<facts, rows>>
  BY DEF StartType
<1>2. subjects \subseteq Subjects
  BY SubjectsAreSubjects
<1> HIDE DEF subjects
<1>3. ASSUME NEW k \in DOMAIN writes
      PROVE  /\ k \in Keys /\ k[1] \in subjects
             /\ writes[k].new \in Row /\ Sound(writes[k].new)
             /\ writes[k].was \in Row \cup {None} /\ writes[k].was = Was(k)
  <2>1. PICK s \in subjects : k = KeyOf(s, filter)
    OBVIOUS
  <2>2. k[1] = s /\ s \in Subjects
    BY <1>2, <2>1, KeyOfSubject
  <2>3. k \in Keys
    BY <2>1, <2>2 DEF KeyOf, Keys, Subjects
  <2>4. writes[k].new = NewProfile(s, filter) /\ writes[k].was = Was(k)
    BY <1>3, <2>2 DEF Was
  <2> HIDE DEF writes
  <2>5. NewProfile(s, filter) \in Row /\ Sound(NewProfile(s, filter))
    BY <2>2, NewProfileSound DEF SoundInv
  <2>6. Was(k) \in Row \cup {None}
    BY <2>3 DEF Was, SoundInv
  <2> QED
    BY <2>1, <2>2, <2>3, <2>4, <2>5, <2>6
<1> HIDE DEF writes
<1>4. sessions'[r] = opened /\ sessions'[r].writes = writes
  BY <1>1 DEF SoundInv, Recalculation
<1>5. \A q \in Requests \ {r} : /\ sessions'[q] = sessions[q]
                               /\ Uses(q)' = Uses(q) /\ Recalculating(q)' = Recalculating(q)
  BY <1>1 DEF Uses, Recalculating
<1>6. \A k : Was(k)' = Was(k)
  BY <1>1 DEF Was
<1>7. WritesSound'
  <2> SUFFICES ASSUME NEW q \in Requests, Recalculating(q)', NEW k \in DOMAIN sessions'[q].writes
               PROVE  /\ k \in Keys
                      /\ sessions'[q].writes[k].new \in Row /\ Sound(sessions'[q].writes[k].new)
                      /\ sessions'[q].writes[k].was \in Row \cup {None}
                      /\ k[1] \in raced' \/ sessions'[q].writes[k].was = Was(k)
    BY <1>6 DEF WritesSound, Sound
  <2>1. CASE q = r
    BY <1>3, <1>4, <2>1
  <2>2. CASE q # r
    BY <1>1, <1>5, <2>2 DEF SoundInv, WritesSound
  <2> QED
    BY <2>1, <2>2
<1>8. Uses(r)' \subseteq subjects
  <2>1. sessions'[r].op = "recalculate"
    BY <1>4 DEF Recalculation
  <2>2. Uses(r)' = {k[1] : k \in DOMAIN writes}
    BY <1>4, <2>1 DEF Uses
  <2> QED
    BY <1>3, <2>2
<1>9. OverlapsNoted'
  <2> SUFFICES ASSUME NEW p \in Requests, NEW q \in Requests, p # q,
                      Recalculating(p)', Recalculating(q)', NEW x \in Uses(p)', x \in Uses(q)'
               PROVE  x \in raced'
    BY DEF OverlapsNoted
  <2>1. CASE p = r
    <3>1. x \in subjects /\ x \in Uses(q)
      BY <1>5, <1>8, <2>1
    <3> QED
      BY <1>1, <2>1, <3>1
  <2>2. CASE q = r
    <3>1. x \in subjects /\ x \in Uses(p)
      BY <1>5, <1>8, <2>2
    <3> QED
      BY <1>1, <2>2, <3>1
  <2>3. CASE p # r /\ q # r
    <3>1. Recalculating(p) /\ Recalculating(q) /\ x \in Uses(p) \cap Uses(q)
      BY <1>5, <2>3
    <3>2. x \in raced
      BY <3>1 DEF SoundInv, OverlapsNoted
    <3> QED
      BY <1>1, <3>2
  <2> QED
    BY <2>1, <2>2, <2>3
<1>10. RowsSoundUnlessRaced'
  BY <1>1 DEF SoundInv, RowsSoundUnlessRaced
<1>11. FactsTyped' /\ sessions' = [q \in Requests |-> sessions'[q]]
  BY <1>1 DEF SoundInv, FactsTyped
<1> QED
  BY <1>1, <1>7, <1>9, <1>10, <1>11 DEF SoundInv

LEMMA CommitKeepsSound ==
    ASSUME FreshInv, SoundInv, NEW r \in Requests, CommitType(r)
    PROVE  SoundInv'
<1> DEFINE w == sessions[r].writes
<1>1. /\ Recalculating(r) /\ Insertable(w) /\ UNCHANGED <<facts, raced>>
      /\ rows' = [k \in Keys |-> IF k \in DOMAIN w THEN Written(rows[k], w[k]) ELSE rows[k]]
  BY DEF CommitType
<1>2. \A k \in DOMAIN w :
        /\ k \in Keys /\ k[1] \in Uses(r)
        /\ w[k].new \in Row /\ Sound(w[k].new)
        /\ w[k].was \in Row \cup {None}
        /\ k[1] \in raced \/ w[k].was = Was(k)
  BY <1>1 DEF SoundInv, WritesSound, Uses, Recalculating
<1>3. \A q \in Requests \ {r} : /\ sessions'[q] = sessions[q]
                               /\ Uses(q)' = Uses(q) /\ Recalculating(q)' = Recalculating(q)
  BY DEF CommitType, Uses, Recalculating
<1>4. /\ sessions' = [q \in Requests |-> sessions'[q]]
      /\ Recalculating(r)' => (sessions'[r].writes = <<>> /\ Uses(r)' = {})
  <2>1. \/ sessions'[r] = Idle
        \/ sessions'[r] = [op |-> "recalculate", at |-> "between", filter |-> sessions[r].filter,
                           todo |-> sessions[r].todo, writes |-> <<>>, drop |-> {}]
    BY DEF CommitType, Recalculation, SoundInv
  <2>2. Recalculating(r)' => sessions'[r].op = "recalculate" /\ sessions'[r].writes = <<>>
    BY <2>1 DEF Recalculating, Idle
  <2>3. Recalculating(r)' => Uses(r)' = {}
    BY <2>2 DEF Uses
  <2> QED
    BY <2>2, <2>3 DEF CommitType, SoundInv
<1> HIDE DEF w
<1>5. rows' \in [Keys -> Seq(Row)]
  <2>1. ASSUME NEW k \in Keys PROVE rows'[k] \in Seq(Row)
    <3>1. rows[k] \in Seq(Row)
      BY DEF SoundInv
    <3>2. CASE k \in DOMAIN w
      <4>1. rows'[k] = Written(rows[k], w[k]) /\ w[k].new \in Row /\ w[k].was \in Row \cup {None}
        BY <1>1, <1>2, <3>2
      <4> QED
        BY <3>1, <4>1, WrittenType
    <3>3. CASE k \notin DOMAIN w
      BY <1>1, <3>1, <3>3
    <3> QED
      BY <3>2, <3>3
  <2> QED
    BY <1>1, <2>1
<1>6. WritesSound'
  <2> SUFFICES ASSUME NEW q \in Requests, Recalculating(q)', NEW k \in DOMAIN sessions'[q].writes
               PROVE  /\ k \in Keys
                      /\ sessions'[q].writes[k].new \in Row /\ Sound(sessions'[q].writes[k].new)
                      /\ sessions'[q].writes[k].was \in Row \cup {None}
                      /\ k[1] \in raced \/ sessions'[q].writes[k].was = Was(k)'
    BY <1>1 DEF WritesSound, Sound
  <2>1. q # r /\ sessions'[q] = sessions[q] /\ Recalculating(q)
    BY <1>3, <1>4
  <2>2. k[1] \in Uses(q)
    BY <2>1 DEF Uses, Recalculating
  <2>3. ASSUME k \in DOMAIN w PROVE k[1] \in raced
    <3>1. k[1] \in Uses(r) \cap Uses(q)
      BY <1>2, <2>2, <2>3
    <3> QED
      BY <1>1, <2>1, <3>1 DEF SoundInv, OverlapsNoted
  <2>4. k \in Keys /\ k \notin DOMAIN w => Was(k)' = Was(k)
    BY <1>1 DEF Was
  <2> QED
    BY <2>1, <2>3, <2>4 DEF SoundInv, WritesSound
<1>7. OverlapsNoted'
  <2> SUFFICES ASSUME NEW p \in Requests, NEW q \in Requests, p # q,
                      Recalculating(p)', Recalculating(q)', NEW x \in Uses(p)', x \in Uses(q)'
               PROVE  x \in raced
    BY <1>1 DEF OverlapsNoted
  <2>1. p # r /\ q # r
    BY <1>4
  <2> QED
    BY <1>3, <2>1 DEF SoundInv, OverlapsNoted
<1>8. ASSUME NEW k \in Keys
      PROVE  /\ Len(rows'[k]) <= 1 \/ (k[2] = None /\ k[1] \in raced)
             /\ k[1] \notin raced => \A row \in Range(rows'[k]) : Sound(row)
  <2>1. /\ rows[k] \in Seq(Row)
        /\ Len(rows[k]) <= 1 \/ (k[2] = None /\ k[1] \in raced)
        /\ k[1] \notin raced => \A row \in Range(rows[k]) : Sound(row)
    BY DEF SoundInv, RowsSoundUnlessRaced, Sound
  <2>2. CASE k \notin DOMAIN w
    BY <1>1, <2>1, <2>2
  <2>3. CASE k \in DOMAIN w /\ k[1] \notin raced
    <3>1. rows'[k] = Written(rows[k], w[k]) /\ Len(rows[k]) <= 1
      BY <1>1, <2>1, <2>3
    <3>2. w[k].new \in Row /\ Sound(w[k].new) /\ w[k].was = Was(k)
      BY <1>2, <2>3
    <3>3. rows'[k] = << w[k].new >>
      BY <2>1, <3>1, <3>2, WrittenAlone
    <3> QED
      BY <3>2, <3>3 DEF Range
  <2>4. CASE k \in DOMAIN w /\ k[1] \in raced
    <3>1. rows'[k] = Written(rows[k], w[k])
      BY <1>1, <2>4
    <3>2. Len(rows'[k]) = IF w[k].was = None THEN Len(rows[k]) + 1 ELSE Len(rows[k])
      <4>1. w[k].new \in Row /\ w[k].was \in Row \cup {None}
        BY <1>2, <2>4
      <4> QED
        BY <2>1, <3>1, <4>1, WrittenType
    <3>3. w[k].was = None /\ k[2] # None => rows[k] = <<>>
      BY <1>1, <2>4 DEF Insertable
    <3>4. Len(rows'[k]) <= 1 \/ k[2] = None
      BY <2>1, <3>2, <3>3
    <3> QED
      BY <2>4, <3>4
  <2> QED
    BY <2>2, <2>3, <2>4
<1>9. RowsSoundUnlessRaced'
  BY <1>1, <1>8 DEF RowsSoundUnlessRaced, Sound
<1>10. FactsTyped'
  BY <1>1 DEF SoundInv, FactsTyped
<1> QED
  BY <1>4, <1>5, <1>6, <1>7, <1>9, <1>10 DEF SoundInv

LEMMA SoundStep == FreshInv /\ SoundInv /\ [ProfileNext]_profileVars => SoundInv'
<1> SUFFICES ASSUME FreshInv, SoundInv, [ProfileNext]_profileVars PROVE SoundInv'
  OBVIOUS
<1>0. UNCHANGED facts => FactsTyped'
  BY DEF SoundInv, FactsTyped
<1>1. ASSUME NEW r \in Requests, NEW s \in Popular, NEW scope \in Scopes, BeginRead(r, s, scope)
      PROVE  SoundInv'
  BY <1>0, <1>1, OthersKeepSound DEF BeginRead, Recalculating, SoundInv
<1>2. ASSUME NEW r \in Requests, NEW kinds \in Wanted, NEW filter \in Filters,
             BeginRecalculation(r, kinds, filter)
      PROVE  SoundInv'
  <2>1. kinds \in SUBSET DOMAIN Before /\ filter \in Projects \cup {None}
    BY ProfileAssumption DEF Before
  <2> QED
    BY <1>2, <2>1, StartKeepsSound DEF BeginRecalculation
<1>3. ASSUME NEW r \in Requests, Lookup(r) \/ Fill(r) \/ Fail(r)
      PROVE  SoundInv'
  <2>1. /\ UNCHANGED <<facts, rows, raced>> /\ sessions' = [q \in Requests |-> sessions'[q]]
        /\ \A q \in Requests : Recalculating(q)' => sessions'[q] = sessions[q]
    <3>1. CASE Lookup(r)
      <4>1. /\ sessions'[r] = Idle \/ sessions'[r].op = "read"
            /\ \A q \in Requests \ {r} : sessions'[q] = sessions[q]
        BY <3>1 DEF Lookup, SoundInv, FreshInv, Shapes, ReadShape, RecalculateShape, Idle
      <4> QED
        BY <3>1, <4>1 DEF Lookup, Recalculating, Idle, SoundInv
    <3>2. CASE Fill(r) \/ Fail(r)
      BY <3>2 DEF Fill, Fail, Recalculating, Idle, SoundInv
    <3> QED
      BY <1>3, <3>1, <3>2
  <2> QED
    BY <1>0, <2>1, OthersKeepSound DEF Recalculating
<1>4. ASSUME NEW r \in Requests, NextType(r) PROVE SoundInv'
  <2>1. RecalculateShape(sessions[r])
    BY <1>4 DEF FreshInv, Shapes, NextType, Recalculating, ReadShape, Idle
  <2>2. sessions[r].todo \in SUBSET DOMAIN Before /\ sessions[r].filter \in Projects \cup {None}
    BY <2>1 DEF RecalculateShape
  <2> QED
    BY <1>4, <2>2, StartKeepsSound DEF NextType
<1>5. ASSUME NEW r \in Requests, NEW s \in Subjects, Invalidate(r, s) PROVE SoundInv'
  <2>1. /\ UNCHANGED <<facts, rows, raced>> /\ sessions' = [q \in Requests |-> sessions'[q]]
        /\ sessions'[r].writes = sessions[r].writes /\ Recalculating(r)
        /\ \A q \in Requests \ {r} : sessions'[q] = sessions[q]
    BY <1>5 DEF Invalidate, Recalculation, SoundInv
  <2> QED
    BY <1>0, <2>1, OthersKeepSound DEF Recalculating
<1>6. ASSUME NEW s \in Subjects, Expire(s) \/ ChangeFacts(s) PROVE SoundInv'
  <2>1. FactsTyped'
    BY <1>0, <1>6 DEF Expire, ChangeFacts, SoundInv, FactsTyped
  <2>2. UNCHANGED <<rows, sessions, raced>>
    BY <1>6 DEF Expire, ChangeFacts
  <2> QED
    BY <2>1, <2>2, OthersKeepSound DEF Recalculating, SoundInv
<1>7. CASE UNCHANGED profileVars
  BY <1>0, <1>7, OthersKeepSound DEF profileVars, Recalculating, SoundInv
<1> QED
  BY <1>1, <1>2, <1>3, <1>4, <1>5, <1>6, <1>7, CommitKeepsSound DEF ProfileNext, Serve

\* One row per subject, project and day, with the level of its score, however
\* many recalculations run: what is not so was raced, and doubles have no project.
THEOREM SoundRows == ProfileSpec => []RowsSoundUnlessRaced
<1>1. SoundInv => RowsSoundUnlessRaced
  BY DEF SoundInv
<1> QED
  BY FreshInit, FreshStep, SoundInit, SoundStep, <1>1, PTL DEF ProfileSpec
=============================================================================
