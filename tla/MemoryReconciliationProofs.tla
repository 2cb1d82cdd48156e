---------------------- MODULE MemoryReconciliationProofs ----------------------
(***************************************************************************)
(* ReconInv is inductive for any plans, candidates, Contexts, decisions,   *)
(* requests and failures, however the requests overlap; SoloInv is, given  *)
(* ReconInv, for requests that do not overlap and plans kept apart.        *)
(***************************************************************************)
EXTENDS MemoryReconciliation, WellFoundedInduction, TLAPS

-----------------------------------------------------------------------------
(* The policy                                                              *)

LEMMA Least ==
    ASSUME NEW T \in SUBSET Nat, T # {}
    PROVE  \E x \in T : \A y \in T : x <= y
<1>1. PICK x \in T : \A y \in T : ~(<<y, x>> \in OpToRel(<, Nat))
  BY NatLessThanWellFounded, WFMin, Zenon
<1>2. \A y \in T : ~(y < x)
  BY <1>1 DEF OpToRel
<1> QED
  BY <1>2

LEMMA LevelType ==
    \A D : \A f \in [D -> 0 .. 70] \cup [D -> 0 .. 100] : \A i \in D : f[i] \in Nat
OBVIOUS

LEMMA Greatest ==
    ASSUME NEW D, D # {}, NEW M \in Nat, NEW f \in [D -> 0 .. M]
    PROVE  \E i \in D : \A j \in D : f[j] <= f[i]
<1> DEFINE T == {M - f[i] : i \in D}
<1>1. \A i \in D : f[i] \in Int /\ 0 <= f[i] /\ f[i] <= M
  OBVIOUS
<1>2. T \in SUBSET Nat
  BY <1>1
<1>3. T # {}
  OBVIOUS
<1>4. PICK x \in T : \A y \in T : x <= y
  BY <1>2, <1>3, Least
<1>5. PICK i \in D : x = M - f[i]
  OBVIOUS
<1>6. \A j \in D : M - f[i] <= M - f[j]
  BY <1>4, <1>5
<1> QED
  BY <1>1, <1>6

LEMMA PriorityType ==
    ASSUME NEW rel \in Relations
    PROVE  Priority(rel) \in 0 .. 70
BY DEF Relations, Priority

\* Among finitely many decisions there is a first one that none is stronger than.
LEMMA PrimaryExists ==
    ASSUME NEW ds \in Seq(Decisions), ds # <<>>
    PROVE  \E i \in DOMAIN ds : /\ \A j \in DOMAIN ds : ~Weaker(ds[i], ds[j])
                                /\ \A j \in 1 .. i - 1 : Weaker(ds[j], ds[i])
<1>1. /\ DOMAIN ds = 1 .. Len(ds) /\ Len(ds) \in Nat /\ 1 \in DOMAIN ds
      /\ \A i \in DOMAIN ds : ds[i] \in Decisions
  OBVIOUS
<1>2. PICK P \in [DOMAIN ds -> 0 .. 70] : \A i \in DOMAIN ds : P[i] = Priority(ds[i].relation)
  <2>1. \A i \in DOMAIN ds : Priority(ds[i].relation) \in 0 .. 70
    BY <1>1, PriorityType DEF Decisions
  <2>2. [i \in DOMAIN ds |-> Priority(ds[i].relation)] \in [DOMAIN ds -> 0 .. 70]
    BY <2>1
  <2> QED
    BY <2>2
<1>3. PICK C \in [DOMAIN ds -> 0 .. 100] : \A i \in DOMAIN ds : C[i] = ds[i].confidence
  <2>1. [i \in DOMAIN ds |-> ds[i].confidence] \in [DOMAIN ds -> 0 .. 100]
    BY <1>1 DEF Decisions, MaxConfidence
  <2> QED
    BY <2>1
<1>4. \A i, j \in DOMAIN ds : Weaker(ds[i], ds[j]) <=> P[i] < P[j] \/ (P[i] = P[j] /\ C[i] < C[j])
  BY <1>2, <1>3 DEF Weaker
<1>5. \A i \in DOMAIN ds : P[i] \in Nat /\ C[i] \in Nat
  BY LevelType, Zenon
<1>6. PICK i1 \in DOMAIN ds : \A j \in DOMAIN ds : P[j] <= P[i1]
  BY <1>1, Greatest
<1>7. PICK i2 \in DOMAIN ds : /\ P[i2] = P[i1]
                              /\ \A j \in DOMAIN ds : P[j] = P[i1] => C[j] <= C[i2]
  <2> DEFINE J == {i \in DOMAIN ds : P[i] = P[i1]}
             f == [i \in J |-> C[i]]
  <2>1. J # {} /\ f \in [J -> 0 .. 100]
    OBVIOUS
  <2>2. \E i \in J : \A j \in J : f[j] <= f[i]
    BY <2>1, Greatest
  <2> QED
    BY <2>2
<1> DEFINE T == {i \in DOMAIN ds : \A j \in DOMAIN ds : ~Weaker(ds[i], ds[j])}
<1>8. T \in SUBSET Nat
  BY <1>1
<1>9. i2 \in T
  BY <1>4, <1>5, <1>6, <1>7
<1>10. PICK i \in T : \A j \in T : i <= j
  BY <1>8, <1>9, Least
<1>11. ASSUME NEW j \in 1 .. i - 1
       PROVE  Weaker(ds[j], ds[i])
  <2>1. j \in DOMAIN ds /\ j \notin T
    BY <1>1, <1>10
  <2>2. PICK m \in DOMAIN ds : Weaker(ds[j], ds[m])
    BY <2>1
  <2>3. i \in DOMAIN ds /\ ~Weaker(ds[i], ds[m])
    BY <1>10
  <2>4. P[j] < P[m] \/ (P[j] = P[m] /\ C[j] < C[m])
    BY <1>4, <2>1, <2>2
  <2>5. ~(P[i] < P[m] \/ (P[i] = P[m] /\ C[i] < C[m]))
    BY <1>4, <2>3
  <2>6. P[j] < P[i] \/ (P[j] = P[i] /\ C[j] < C[i])
    <3>1. /\ P[i] \in Nat /\ P[j] \in Nat /\ P[m] \in Nat
          /\ C[i] \in Nat /\ C[j] \in Nat /\ C[m] \in Nat
      BY <1>5, <2>1, <2>3
    <3> QED
      BY <2>4, <2>5, <3>1
  <2> QED
    BY <1>4, <2>1, <2>3, <2>6
<1> QED
  BY <1>10, <1>11

LEMMA DecisionType ==
    \A ds \in Seq(Decisions) : \A i \in DOMAIN ds : ds[i].context \in Contexts
<1>1. \A ds \in Seq(Decisions) : \A i \in DOMAIN ds : ds[i] \in Decisions
  OBVIOUS
<1>2. \A d \in Decisions : d.context \in Contexts
  BY DEF Decisions
<1> QED
  BY <1>1, <1>2

LEMMA PrimaryType ==
    ASSUME NEW ds \in Seq(Decisions)
    PROVE  /\ PrimaryRelation(ds) \in Relations
           /\ ds # <<>> => \E i \in DOMAIN ds : ds[i].relation = PrimaryRelation(ds)
           /\ PrimaryRelation(ds) # "UNRELATED" => ds # <<>>
<1>1. CASE ds = <<>>
  BY <1>1 DEF PrimaryRelation, Relations
<1>2. CASE ds # <<>>
  <2>1. PICK i \in DOMAIN ds : SelectPrimary(ds) = ds[i]
    BY <1>2, PrimaryExists DEF SelectPrimary
  <2>2. ds[i] \in Decisions /\ PrimaryRelation(ds) = ds[i].relation
    BY <1>2, <2>1 DEF PrimaryRelation
  <2> QED
    BY <1>2, <2>1, <2>2 DEF Decisions
<1> QED
  BY <1>1, <1>2

\* The target of a plan is one of the Contexts it was compared with.
LEMMA TargetType ==
    ASSUME NEW p, PlanOf(p) \in Seq(Decisions), PlanOf(p) # <<>>
    PROVE  /\ \E i \in DOMAIN PlanOf(p) : Target(p) = PlanOf(p)[i].context
           /\ Target(p) \in Contexts
<1> DEFINE ds == PlanOf(p)
           rel == RelationOf(p)
           T == {i \in DOMAIN ds : ds[i].relation = rel}
<1>1. /\ DOMAIN ds \in SUBSET Nat /\ DOMAIN ds = 1 .. Len(ds) /\ Len(ds) \in Nat
      /\ \A i \in DOMAIN ds : ds[i] \in Decisions
  OBVIOUS
<1>2. T \in SUBSET Nat /\ T # {}
  BY <1>1, PrimaryType DEF RelationOf
<1>3. PICK i \in T : \A j \in T : i <= j
  BY <1>2, Least
<1>4. \A j \in 1 .. i - 1 : ds[j].relation # rel
  BY <1>1, <1>3
<1>5. \E k \in DOMAIN ds : ds[k].relation = rel /\ \A j \in 1 .. k - 1 : ds[j].relation # rel
  BY <1>3, <1>4
<1>6. PICK k \in DOMAIN ds : Target(p) = ds[k].context
  BY <1>5 DEF Target
<1> QED
  BY <1>1, <1>6 DEF Decisions

\* Which relations an action belongs to.
LEMMA ActionFacts ==
    ASSUME NEW rel \in Relations
    PROVE  /\ "MARK_SUPERSEDED" \in ActionsFor(rel) => rel = "SUPERSEDES"
           /\ "CREATE_RELATION" \in ActionsFor(rel) => rel # "UNRELATED"
           /\ "MERGE_EVIDENCE" \in ActionsFor(rel) => rel # "UNRELATED"
           /\ "CREATE_CONFLICT_SET" \in ActionsFor(rel) => rel = "CONTRADICTS"
           /\ rel = "SUPERSEDES" => "CREATE_CONTEXT" \in ActionsFor(rel)
BY DEF Relations, ActionsFor

-----------------------------------------------------------------------------
(* Keys and rows                                                           *)

LEMMA PlanKeys ==
    ASSUME NEW p \in Plans
    PROVE  /\ ResultRow(p) \in RowKeys /\ ResultRow(p)[1] = "result" /\ ResultRow(p)[2] = p
           /\ PlanRow(p) \in RowKeys /\ PlanRow(p)[1] = "plan" /\ PlanRow(p)[2] = p
BY DEF RowKeys, ResultRow, PlanRow

LEMMA ContextKeys ==
    ASSUME NEW c \in Contexts
    PROVE  /\ ConflictRow(c) \in RowKeys /\ ConflictRow(c)[1] = "conflict"
           /\ TemporalRow(c) \in RowKeys /\ TemporalRow(c)[1] = "temporal"
           /\ IndexRow(c) \in RowKeys /\ IndexRow(c)[1] = "index" /\ IndexRow(c)[2] = c
BY DEF RowKeys, ConflictRow, TemporalRow, IndexRow

LEMMA RelationKeys ==
    ASSUME NEW s \in Contexts, NEW t \in Contexts, NEW rel \in Relations
    PROVE  RelationRow(s, t, rel) \in RowKeys /\ RelationRow(s, t, rel)[1] = "relation"
BY DEF RowKeys, RelationRow

LEMMA KindsOfKeys ==
    ASSUME NEW k \in RowKeys
    PROVE  /\ k[1] \in {"result", "plan", "relation", "conflict", "temporal", "index"}
           /\ k[1] = "plan" => \E p \in Plans : k = PlanRow(p)
           /\ k[1] = "result" => \E p \in Plans : k = ResultRow(p)
           /\ k[1] = "index" => k[2] \in Contexts
BY DEF RowKeys, ResultRow, PlanRow, RelationRow, ConflictRow, TemporalRow, IndexRow

LEMMA RowTypes ==
    ASSUME NEW k
    PROVE  /\ k[1] = "result" => RowsOf(k) = ResultRows
           /\ k[1] = "plan" => RowsOf(k) = Seq(Decisions)
           /\ k[1] = "relation" => RowsOf(k) = RelationRows
           /\ k[1] = "conflict" => RowsOf(k) = ConflictRows
           /\ k[1] = "temporal" => RowsOf(k) = TemporalRows
           /\ k[1] = "index" => RowsOf(k) = IndexRows
BY DEF RowsOf

LEMMA RowsAreRows ==
    ASSUME NEW k \in RowKeys
    PROVE  NoRow \notin RowsOf(k)
BY KindsOfKeys, RowTypes, ReconciliationAssumption

\* What a plan says depends on its row only.
LEMMA PlanStable ==
    ASSUME NEW p, PlanOf(p)' = PlanOf(p)
    PROVE  /\ RelationOf(p)' = RelationOf(p) /\ Target(p)' = Target(p)
           /\ \A x : Has(p, x)' <=> Has(p, x)
           /\ ConflictIds(p)' = ConflictIds(p) /\ SupersedesOf(p)' = SupersedesOf(p)
<1>1. RelationOf(p)' = RelationOf(p)
  BY DEF RelationOf
<1>2. Target(p)' = Target(p)
  BY <1>1 DEF Target
<1> QED
  BY <1>1, <1>2 DEF Has, ConflictIds, SupersedesOf

\* What is known of a plan that may be applied.
LEMMA PlanFacts ==
    ASSUME ReconInv, NEW p \in Plans, MayAct(p)
    PROVE  /\ PlanOf(p) \in Seq(Decisions) /\ PlanOf(p) # NoRow
           /\ RelationOf(p) \in Relations /\ candidate[p] \in Contexts
           /\ PlanOf(p) # <<>> => Target(p) \in Contexts /\ note[Target(p)] # NoNote
           /\ RelationOf(p) # "UNRELATED" => PlanOf(p) # <<>>
           /\ ConflictIds(p) \subseteq approved /\ ConflictIds(p) \subseteq Plans
           /\ RelationOf(p) = "SUPERSEDES" => p \in approved
           /\ SupersedesOf(p) \in Contexts \cup {NoNote}
<1>1. PlanRow(p) \in RowKeys /\ PlanRow(p)[1] = "plan" /\ PlanOf(p) = db[PlanRow(p)]
  BY PlanKeys DEF PlanOf, PlanRow
<1>2. PlanOf(p) \in Seq(Decisions) /\ PlanOf(p) # NoRow
  BY <1>1, RowTypes DEF ReconInv, TypeOK, MayAct
<1>3. RelationOf(p) \in Relations /\ (RelationOf(p) # "UNRELATED" => PlanOf(p) # <<>>)
  BY <1>2, PrimaryType DEF RelationOf
<1>4. \A i \in DOMAIN PlanOf(p) : note[PlanOf(p)[i].context] # NoNote
  BY <1>1, <1>2 DEF ReconInv, RowsOK, RowOK
<1>5. PlanOf(p) # <<>> => Target(p) \in Contexts /\ note[Target(p)] # NoNote
  BY <1>2, <1>4, TargetType
<1>6. ConflictIds(p) \subseteq approved /\ ConflictIds(p) \subseteq Plans
      /\ (RelationOf(p) = "SUPERSEDES" => p \in approved)
  BY DEF ConflictIds, MayAct, RequiresReview
<1>7. SupersedesOf(p) \in Contexts \cup {NoNote}
  BY <1>3, <1>5 DEF SupersedesOf
<1> QED
  BY <1>2, <1>3, <1>5, <1>6, <1>7 DEF ReconInv, TypeOK

-----------------------------------------------------------------------------
(* What no step takes back                                                 *)

\* Stored plans, approvals and notes stay, so what a plan may do, and what is
\* said in notes and rows, stays right.
LEMMA Monotone ==
    ASSUME ReconInv, candidate' = candidate, approved \subseteq approved',
           \A p \in Plans : PlanOf(p) # NoRow => PlanOf(p)' = PlanOf(p),
           \A c \in Contexts : note[c] # NoNote => note'[c] # NoNote
    PROVE  /\ \A p \in Plans : MayAct(p) => MayAct(p)'
           /\ \A n : NoteOK(n) => NoteOK(n)'
           /\ \A k \in RowKeys : \A v \in RowsOf(k) : RowOK(k, v) => RowOK(k, v)'
<1>1. ASSUME NEW p \in Plans, MayAct(p)
      PROVE  MayAct(p)'
  BY <1>1, PlanStable DEF MayAct
<1>2. \A n : NoteOK(n) => NoteOK(n)'
  BY DEF NoteOK
<1>3. ASSUME NEW k \in RowKeys, NEW v \in RowsOf(k), RowOK(k, v)
      PROVE  RowOK(k, v)'
  <2>1. k[1] = "result" => MayAct(k[2])'
    <3>1. SUFFICES ASSUME k[1] = "result"
                   PROVE  MayAct(k[2])'
      OBVIOUS
    <3>2. PICK p \in Plans : k = ResultRow(p)
      BY <3>1, KindsOfKeys
    <3>3. k[2] = p /\ MayAct(p)
      BY <3>1, <3>2, <1>3, PlanKeys DEF RowOK
    <3> QED
      BY <3>3, <1>1
  <2>2. k[1] = "plan" => \A i \in DOMAIN v : note'[v[i].context] # NoNote
    <3>1. SUFFICES ASSUME k[1] = "plan", NEW i \in DOMAIN v
                   PROVE  note'[v[i].context] # NoNote
      OBVIOUS
    <3>2. v \in Seq(Decisions) /\ note[v[i].context] # NoNote
      BY <3>1, <1>3, RowTypes DEF RowOK
    <3>3. v[i].context \in Contexts
      BY <3>2, DecisionType
    <3> QED
      BY <3>2, <3>3
  <2>3. k[1] = "temporal" => v.conflicts \subseteq approved'
    BY <1>3 DEF RowOK
  <2>4. k[1] = "index" => note'[k[2]] # NoNote
    BY <1>3, KindsOfKeys DEF RowOK
  <2> QED
    BY <2>1, <2>2, <2>3, <2>4 DEF RowOK
<1> QED
  BY <1>1, <1>2, <1>3

\* So does what a request knows, while another one makes a step.
LEMMA OtherRequest ==
    ASSUME ReconInv, candidate' = candidate, approved \subseteq approved',
           \A p \in Plans : PlanOf(p) # NoRow => PlanOf(p)' = PlanOf(p),
           \A c \in Contexts : note[c] # NoNote => note'[c] # NoNote,
           NEW b \in Requests, req'[b] = req[b], sess'[b] = sess[b]
    PROVE  (RequestShape(b) /\ Progress(b))'
<1> DEFINE p == req[b].plan
<1>1. RequestShape(b) /\ Progress(b) /\ req[b] \in Reqs
  BY DEF ReconInv, RequestsOK, TypeOK
<1>2. /\ \A q \in Plans : MayAct(q) => MayAct(q)'
      /\ \A n : NoteOK(n) => NoteOK(n)'
  BY Monotone
<1>3. CASE p = NoPlan
  <2>1. req[b].pc \notin Applying
    BY <1>1, <1>3 DEF RequestShape
  <2>2. RequestShape(b)'
    BY <1>1, <1>3, <2>1 DEF RequestShape, Active, Applying
  <2> QED
    BY <1>3, <2>2 DEF Progress
<1>4. CASE p # NoPlan
  <2>1. p \in Plans /\ MayAct(p) /\ MayAct(p)' /\ PlanOf(p)' = PlanOf(p)
    BY <1>1, <1>2, <1>4 DEF Reqs, RequestShape, MayAct
  <2>2. /\ RelationOf(p)' = RelationOf(p) /\ Target(p)' = Target(p)
        /\ \A x : Has(p, x)' <=> Has(p, x)
    BY <2>1, PlanStable
  <2>3. RequestShape(b)'
    BY <1>1, <1>2, <2>1, <2>2 DEF RequestShape, Active
  <2>4. candidate[p] \in Contexts
    BY <2>1 DEF ReconInv, TypeOK
  <2>5. Progress(b)'
    BY <1>1, <2>1, <2>2, <2>4 DEF Progress, After
  <2> QED
    BY <2>3, <2>5
<1> QED
  BY <1>3, <1>4

\* A statement adds one row to the session of its request.
LEMMA PutFacts ==
    ASSUME ReconInv, NEW a \in Requests, NEW k, NEW v, Put(a, k, v)
    PROVE  /\ DOMAIN sess' = Requests /\ DOMAIN sess'[a] = DOMAIN sess[a] \cup {k}
           /\ sess'[a][k] = v /\ \A x \in DOMAIN sess[a] : x # k => sess'[a][x] = sess[a][x]
           /\ \A b \in Requests : b # a => sess'[b] = sess[b] /\ k \notin DOMAIN sess[b]
<1> DEFINE f == Over([x \in {k} |-> v], sess[a])
<1>1. DOMAIN sess = Requests /\ sess' = [sess EXCEPT ![a] = f]
  BY DEF ReconInv, TypeOK, Put
<1>2. /\ DOMAIN f = DOMAIN sess[a] \cup {k} /\ f[k] = v
      /\ \A x \in DOMAIN sess[a] : x # k => f[x] = sess[a][x]
  BY DEF Over
<1> HIDE DEF f
<1>3. \A b \in Requests : b # a => k \notin DOMAIN sess[b]
  BY DEF Put, Free
<1> QED
  BY <1>1, <1>2, <1>3

\* A step of one request: it may write a note or add a row to its session.
LEMMA RequestStep ==
    ASSUME ReconInv, NEW a \in Requests, NEW r \in Reqs, req' = [req EXCEPT ![a] = r],
           UNCHANGED <<db, candidate>>,
           approved \subseteq approved', approved' \subseteq Plans, errors' \in 0 .. MaxErrors,
           \/ note' = note
           \/ \E c \in Contexts : \E n \in Notes :
                /\ note' = [note EXCEPT ![c] = n] /\ NoteOK(n)
                /\ c \notin Existing => \E q \in Plans : candidate[q] = c /\ MayAct(q),
           \/ sess' = sess
           \/ sess' = [sess EXCEPT ![a] = Empty]
           \/ \E k \in RowKeys : \E v \in RowsOf(k) :
                Put(a, k, v) /\ RowOK(k, v) /\ (k[1] = "plan" => db[k] = NoRow),
           (RequestShape(a) /\ Progress(a))'
    PROVE  ReconInv'
<1> USE DEF ReconInv
<1>1. /\ note' \in [Contexts -> Notes \cup {NoNote}]
      /\ \A c \in Contexts : note[c] # NoNote => note'[c] # NoNote
      /\ \A c \in Contexts : note'[c] = note[c] \/ (/\ NoteOK(note'[c])
           /\ c \notin Existing => \E q \in Plans : candidate[q] = c /\ MayAct(q))
  BY ReconciliationAssumption DEF TypeOK
<1>2. \A p : PlanOf(p)' = PlanOf(p)
  BY DEF PlanOf
<1>3. /\ \A p \in Plans : MayAct(p) => MayAct(p)'
      /\ \A n : NoteOK(n) => NoteOK(n)'
      /\ \A k \in RowKeys : \A v \in RowsOf(k) : RowOK(k, v) => RowOK(k, v)'
  BY <1>1, <1>2, Monotone
<1>4. NotesOK'
  BY <1>1, <1>3 DEF NotesOK
<1> DEFINE SessionsOK ==
      /\ DOMAIN sess' = Requests
      /\ \A b \in Requests : b # a => sess'[b] = sess[b]
      /\ DOMAIN sess'[a] \subseteq RowKeys
      /\ \A k \in DOMAIN sess'[a] : /\ sess'[a][k] \in RowsOf(k) /\ RowOK(k, sess'[a][k])
                                    /\ k[1] = "plan" => db[k] = NoRow
                                    /\ \A b \in Requests : b # a => k \notin DOMAIN sess[b]
<1>5. SessionsOK
  <2>0. /\ DOMAIN sess = Requests /\ DOMAIN sess[a] \subseteq RowKeys
        /\ \A k \in DOMAIN sess[a] : /\ sess[a][k] \in RowsOf(k) /\ RowOK(k, sess[a][k])
                                     /\ \A b \in Requests : b # a => k \notin DOMAIN sess[b]
    BY DEF TypeOK, RowsOK, LocksHeld
  <2>1. \A k \in DOMAIN sess[a] : k[1] = "plan" => db[k] = NoRow
    BY <2>0, KindsOfKeys DEF LocksHeld
  <2>2. CASE sess' = sess
    BY <2>0, <2>1, <2>2
  <2>3. CASE sess' = [sess EXCEPT ![a] = Empty]
    BY <2>0, <2>3 DEF Empty
  <2>4. ASSUME NEW k \in RowKeys, NEW v \in RowsOf(k),
               Put(a, k, v), RowOK(k, v), k[1] = "plan" => db[k] = NoRow
        PROVE  SessionsOK
    <3>1. /\ DOMAIN sess' = Requests /\ DOMAIN sess'[a] = DOMAIN sess[a] \cup {k}
          /\ sess'[a][k] = v /\ \A x \in DOMAIN sess[a] : x # k => sess'[a][x] = sess[a][x]
          /\ \A b \in Requests : b # a => sess'[b] = sess[b] /\ k \notin DOMAIN sess[b]
      BY <2>4, PutFacts
    <3> QED
      BY <2>0, <2>1, <2>4, <3>1
  <2> QED
    BY <2>2, <2>3, <2>4
<1>6. TypeOK'
  BY <1>1, <1>5 DEF TypeOK
<1>7. RowsOK'
  <2>1. \A k \in RowKeys : db[k] # NoRow => db[k] \in RowsOf(k) /\ RowOK(k, db[k])
    BY DEF RowsOK, TypeOK
  <2>2. \A b \in Requests : \A k \in DOMAIN sess'[b] :
          k \in RowKeys /\ sess'[b][k] \in RowsOf(k) /\ RowOK(k, sess'[b][k])
    BY <1>5 DEF RowsOK, TypeOK
  <2>3. \A k \in RowKeys : \A v \in RowsOf(k) : RowOK(k, v) => RowOK(k, v)'
    BY <1>3
  <2> QED
    BY <2>1, <2>2, <2>3 DEF RowsOK
<1>8. LocksHeld'
  BY <1>5, PlanKeys DEF LocksHeld
<1>9. RequestsOK'
  <2>1. \A b \in Requests : b # a => req'[b] = req[b]
    BY DEF TypeOK
  <2> QED
    BY <1>1, <1>2, <1>5, <2>1, OtherRequest DEF RequestsOK
<1>10. AppliedBacked'
  <2>1. SUFFICES ASSUME NEW p \in Plans, Applied(p)'
                 PROVE  ResultBacked(p)'
    BY DEF AppliedBacked
  <2>2. Applied(p) /\ ResultBacked(p)
    BY <2>1 DEF Applied, Row, ResultRow, AppliedBacked
  <2>3. /\ RelationOf(p)' = RelationOf(p) /\ Target(p)' = Target(p)
        /\ \A x : Has(p, x)' <=> Has(p, x)
    BY <1>2, PlanStable
  <2>4. candidate[p] \in Contexts
    BY DEF TypeOK
  <2> QED
    BY <2>2, <2>3, <2>4, <1>1, <1>2
       DEF ResultBacked, Row, TemporalRow, RelationRow, ConflictRow
<1> QED
  BY <1>4, <1>6, <1>7, <1>8, <1>9, <1>10

-----------------------------------------------------------------------------
(* Steps of an apply                                                       *)

\* What an apply knows of its plan.
LEMMA ApplyFacts ==
    ASSUME ReconInv, NEW a \in Requests, req[a].pc \in Applying
    PROVE  /\ req[a] \in Reqs /\ RequestShape(a) /\ Progress(a)
           /\ req[a].plan \in Plans /\ MayAct(req[a].plan) /\ req[a].plan # NoPlan
           /\ \A p \in Plans : ResultRow(p) \notin DOMAIN sess[a]
BY ReconciliationAssumption DEF ReconInv, TypeOK, RequestsOK, RequestShape, Reqs, Applying

\* The relation and the conflict of the plan are in the session.
Written(r) == r.pc \in Recorded \/ (r.pc \in {"mark", "markIndex"} /\ r.after = "temporal")

\* A step of an apply: r is the request after it.  What it writes to the vault
\* and to its session, and what it knows and has done then.
NoteStep ==
    \/ note' = note
    \/ \E x \in Contexts : \E n \in Notes :
         /\ note' = [note EXCEPT ![x] = n] /\ NoteOK(n)
         /\ x \notin Existing => \E q \in Plans : candidate[q] = x /\ MayAct(q)

SessStep(a, r) ==
    \/ sess' = sess
    \/ \E k \in RowKeys : \E v \in RowsOf(k) :
         /\ Put(a, k, v) /\ RowOK(k, v) /\ k[1] # "plan"
         /\ k[1] = "result" => k = ResultRow(r.plan) /\ r.pc = "commit" /\ v.status = r.outcome

Shaped(r) ==
    /\ r.pc \in Applying \cup {"commit"}
    /\ r.pc \notin {"save", "commit"} => r.outcome = "APPLIED"
    /\ r.pc \in {"mark", "markIndex"} =>
         RelationOf(r.plan) = "SUPERSEDES" /\ r.after \in {"merge", "temporal"}
    /\ r.pc \in {"mergeWrite", "mergeIndex"} => Has(r.plan, "MERGE_EVIDENCE") /\ NoteOK(r.snap)
    /\ r.pc = "replacement" => RelationOf(r.plan) = "SUPERSEDES" /\ r.after = "temporal"
    /\ r.pc = "temporalTarget" => /\ PlanOf(r.plan) # <<>> /\ r.base \in TemporalRows
                                  /\ r.base.conflicts \subseteq approved
    /\ r.pc = "createIndex" => Has(r.plan, "CREATE_CONTEXT")

Advanced(a, r, p, c) ==
    r.outcome = "APPLIED" =>
      /\ r.pc # "create" /\ Has(p, "CREATE_CONTEXT") => note'[c] # NoNote
      /\ (Written(r) \/ r.pc = "conflict") /\ Has(p, "CREATE_RELATION") =>
           RelationRow(c, Target(p), RelationOf(p)) \in DOMAIN sess'[a]
      /\ Written(r) /\ Has(p, "CREATE_CONFLICT_SET") => ConflictRow(c) \in DOMAIN sess'[a]
      /\ r.pc \in {"temporalTarget", "save", "commit"} /\ Has(p, "CREATE_CONTEXT") =>
           TemporalRow(c) \in DOMAIN sess'[a]
      /\ r.pc \in {"save", "commit"} /\ PlanOf(p) # <<>> =>
           TemporalRow(Target(p)) \in DOMAIN sess'[a]

LEMMA ApplyStep ==
    ASSUME ReconInv, NEW a \in Requests, req[a].pc \in Applying,
           NEW r \in Reqs, req' = [req EXCEPT ![a] = r], r.plan = req[a].plan,
           UNCHANGED <<db, candidate, approved>>, errors' \in 0 .. MaxErrors,
           NoteStep, SessStep(a, r), Shaped(r), Advanced(a, r, r.plan, candidate[r.plan])
    PROVE  ReconInv'
<1> DEFINE p == r.plan
           c == candidate[p]
<1>1. /\ p \in Plans /\ MayAct(p) /\ p # NoPlan
      /\ \A q \in Plans : ResultRow(q) \notin DOMAIN sess[a]
  BY ApplyFacts
<1>2. PlanOf(p)' = PlanOf(p)
  BY DEF PlanOf
<1>3. /\ RelationOf(p)' = RelationOf(p) /\ Target(p)' = Target(p)
      /\ \A x : Has(p, x)' <=> Has(p, x)
  BY <1>2, PlanStable
<1>4. MayAct(p)' /\ \A n : NoteOK(n)' <=> NoteOK(n)
  BY <1>1, <1>2, <1>3 DEF MayAct, NoteOK
<1>5. req'[a] = r
  BY DEF ReconInv, TypeOK
<1> USE DEF SessStep
<1>6. \A q \in Plans : ResultRow(q) \in DOMAIN sess'[a] =>
        r.pc = "commit" /\ p = q /\ sess'[a][ResultRow(q)].status = r.outcome
  <2>1. CASE sess' = sess
    BY <1>1, <2>1
  <2>2. ASSUME NEW k \in RowKeys, NEW v \in RowsOf(k), Put(a, k, v),
               k[1] = "result" => k = ResultRow(p) /\ r.pc = "commit" /\ v.status = r.outcome,
               NEW q \in Plans, ResultRow(q) \in DOMAIN sess'[a]
        PROVE  r.pc = "commit" /\ p = q /\ sess'[a][ResultRow(q)].status = r.outcome
    <3>1. DOMAIN sess'[a] = DOMAIN sess[a] \cup {k} /\ sess'[a][k] = v
      BY <2>2, PutFacts
    <3>2. k = ResultRow(q) /\ k[1] = "result" /\ k[2] = q
      BY <1>1, <2>2, <3>1, PlanKeys
    <3>3. k = ResultRow(p) /\ k[2] = p
      BY <1>1, <2>2, <3>2, PlanKeys
    <3> QED
      BY <2>2, <3>1, <3>2, <3>3
  <2> QED
    BY <2>1, <2>2
<1>7. r.pc \notin {"idle", "done", "review", "resolve", "scan", "scanPlan"}
  BY DEF Shaped, Applying
<1>8. RequestShape(a)'
  BY <1>1, <1>2, <1>3, <1>4, <1>5, <1>6, <1>7 DEF RequestShape, Active, Shaped
<1>9. Progress(a)'
  BY <1>1, <1>2, <1>3, <1>5 DEF Progress, After, Written, Advanced
<1>10. approved' \subseteq Plans
  BY DEF ReconInv, TypeOK
<1>11. \/ sess' = sess
       \/ \E k \in RowKeys : \E v \in RowsOf(k) :
            Put(a, k, v) /\ RowOK(k, v) /\ (k[1] = "plan" => db[k] = NoRow)
  OBVIOUS
<1>12. NoteStep
  OBVIOUS
<1> QED
  BY <1>8, <1>9, <1>10, <1>11, <1>12, RequestStep DEF NoteStep

\* An apply that has failed promises nothing.
LEMMA FailStep ==
    ASSUME ReconInv, NEW a \in Requests, req[a].pc \in Applying, Fail(a),
           UNCHANGED <<note, db, sess, candidate, approved>>, errors' \in 0 .. MaxErrors
    PROVE  ReconInv'
<1> DEFINE out == IF req[a].changed THEN "PARTIAL" ELSE "FAILED"
           r == [req[a] EXCEPT !.pc = "save", !.outcome = out]
           p == r.plan
           c == candidate[p]
<1>1. req[a] \in Reqs /\ req \in [Requests -> Reqs]
  BY DEF ReconInv, TypeOK
<1>2. req' = [req EXCEPT ![a] = r]
  BY DEF Fail
<1>0. out \in {"PARTIAL", "FAILED"} /\ "save" \in Pcs
  BY DEF Pcs
<1> HIDE DEF out
<1>3. /\ r \in Reqs /\ r.plan = req[a].plan /\ r.pc = "save" /\ r.outcome # "APPLIED"
  <2>1. r.plan = req[a].plan /\ r.pc = "save" /\ r.outcome = out
    BY <1>1 DEF Reqs
  <2>2. r \in Reqs
    BY <1>0, <1>1 DEF Reqs
  <2> QED
    BY <1>0, <2>1, <2>2
<1> HIDE DEF r
<1>4. r.pc \in Applying
  BY <1>3 DEF Applying
<1>a. NoteStep
  BY <1>2, <1>3, <1>4 DEF NoteStep
<1>b. SessStep(a, r)
  BY <1>2, <1>3, <1>4 DEF SessStep
<1>c. Shaped(r)
  BY <1>2, <1>3, <1>4 DEF Shaped
<1>d. Advanced(a, r, p, c)
  BY <1>2, <1>3, <1>4 DEF Advanced
<1> QED
  BY <1>2, <1>3, <1>4, <1>a, <1>b, <1>c, <1>d, ApplyStep

LEMMA GatewayErrorStep ==
    ASSUME ReconInv, NEW a \in Requests, GatewayError(a)
    PROVE  ReconInv'
<1>1. req[a].pc \in Applying
  BY DEF GatewayError, Applying
<1>2. errors' \in 0 .. MaxErrors
  BY ReconciliationAssumption DEF GatewayError, ReconInv, TypeOK
<1> QED
  BY <1>1, <1>2, FailStep DEF GatewayError

LEMMA CreateFileStep ==
    ASSUME ReconInv, NEW a \in Requests, CreateFile(a)
    PROVE  ReconInv'
<1> DEFINE p == req[a].plan
           c == candidate[p]
           of == SupersedesOf(p)
           n == NoteOf({p}, of, ConflictIds(p))
           r1 == [req[a] EXCEPT !.pc = "merge"]
           r2 == [req[a] EXCEPT !.pc = "merge", !.changed = TRUE]
           r3 == [req[a] EXCEPT !.pc = "createIndex"]
<1>1. /\ req[a].pc = "create" /\ req[a].pc \in Applying /\ errors' \in 0 .. MaxErrors
      /\ UNCHANGED <<db, sess, candidate, approved>> /\ req \in [Requests -> Reqs]
  BY DEF CreateFile, Applying, ReconInv, TypeOK
<1>2. /\ req[a] \in Reqs /\ p \in Plans /\ MayAct(p) /\ RequestShape(a)
  BY <1>1, ApplyFacts
<1>3. /\ c \in Contexts /\ of \in Contexts \cup {NoNote}
      /\ ConflictIds(p) \subseteq approved /\ ConflictIds(p) \subseteq Plans
  BY <1>2, PlanFacts
<1>4. req[a].outcome = "APPLIED"
  BY <1>1, <1>2 DEF RequestShape
<1>5. CASE ~Has(p, "CREATE_CONTEXT") /\ Goto(a, "merge") /\ UNCHANGED note
  <2>1. /\ r1 \in Reqs /\ r1.plan = p /\ r1.pc = "merge" /\ r1.outcome = "APPLIED"
        /\ req' = [req EXCEPT ![a] = r1]
    BY <1>1, <1>2, <1>4, <1>5 DEF Goto, Reqs, Pcs
  <2> HIDE DEF r1
  <2>2. ~Written(r1) /\ r1.pc \in Applying
    BY <2>1 DEF Written, Recorded, Applying
  <2>a. NoteStep
    BY <1>1, <1>5, <2>1, <2>2 DEF NoteStep
  <2>b. SessStep(a, r1)
    BY <1>1, <1>5, <2>1, <2>2 DEF SessStep
  <2>c. Shaped(r1)
    BY <1>1, <1>5, <2>1, <2>2 DEF Shaped
  <2>d. Advanced(a, r1, p, c)
    BY <1>1, <1>5, <2>1, <2>2 DEF Advanced
  <2> QED
    BY <1>1, <1>5, <2>1, <2>2, <2>a, <2>b, <2>c, <2>d, ApplyStep
<1>6. CASE /\ c \in Existing /\ UNCHANGED note
           /\ req' = [req EXCEPT ![a].pc = "merge", ![a].changed = TRUE]
  <2>1. /\ r2 \in Reqs /\ r2.plan = p /\ r2.pc = "merge" /\ r2.outcome = "APPLIED"
        /\ req' = [req EXCEPT ![a] = r2]
    BY <1>1, <1>2, <1>4, <1>6 DEF Reqs, Pcs
  <2> HIDE DEF r2
  <2>2. ~Written(r2) /\ r2.pc \in Applying
    BY <2>1 DEF Written, Recorded, Applying
  <2>3. note' = note /\ note[c] # NoNote
    BY <1>3, <1>6 DEF ReconInv, NotesOK
  <2>a. NoteStep
    BY <1>1, <2>1, <2>2, <2>3 DEF NoteStep
  <2>b. SessStep(a, r2)
    BY <1>1, <2>1, <2>2, <2>3 DEF SessStep
  <2>c. Shaped(r2)
    BY <1>1, <2>1, <2>2, <2>3 DEF Shaped
  <2>d. Advanced(a, r2, p, c)
    BY <1>1, <2>1, <2>2, <2>3 DEF Advanced
  <2> QED
    BY <1>1, <2>1, <2>2, <2>3, <2>a, <2>b, <2>c, <2>d, ApplyStep
<1>7. CASE Has(p, "CREATE_CONTEXT") /\ note' = [note EXCEPT ![c] = n] /\ Goto(a, "createIndex")
  <2>1. /\ r3 \in Reqs /\ r3.plan = p /\ r3.pc = "createIndex" /\ r3.outcome = "APPLIED"
        /\ req' = [req EXCEPT ![a] = r3]
    BY <1>1, <1>2, <1>4, <1>7 DEF Goto, Reqs, Pcs
  <2>2. n \in Notes /\ n.conflicts = ConflictIds(p) /\ n.supersededBy = NoNote
    BY <1>2, <1>3 DEF NoteOf, Notes
  <2>3. NoteOK(n)
    BY <1>3, <2>2 DEF NoteOK
  <2>4. note'[c] = n /\ n # NoNote
    BY <1>3, <1>7, <2>2, ReconciliationAssumption DEF ReconInv, TypeOK
  <2> HIDE DEF r3, n
  <2>5. ~Written(r3) /\ r3.pc \in Applying
    BY <2>1 DEF Written, Recorded, Applying
  <2>a. NoteStep
    BY <1>1, <1>2, <1>3, <1>7, <2>1, <2>2, <2>3, <2>4, <2>5 DEF NoteStep
  <2>b. SessStep(a, r3)
    BY <1>1, <1>2, <1>3, <1>7, <2>1, <2>2, <2>3, <2>4, <2>5 DEF SessStep
  <2>c. Shaped(r3)
    BY <1>1, <1>2, <1>3, <1>7, <2>1, <2>2, <2>3, <2>4, <2>5 DEF Shaped
  <2>d. Advanced(a, r3, p, c)
    BY <1>1, <1>2, <1>3, <1>7, <2>1, <2>2, <2>3, <2>4, <2>5 DEF Advanced
  <2> QED
    BY <1>1, <1>2, <1>3, <1>7, <2>1, <2>2, <2>3, <2>4, <2>5, <2>a, <2>b, <2>c, <2>d, ApplyStep
<1>8. CASE Fail(a) /\ UNCHANGED note
  BY <1>1, <1>8, FailStep
<1> QED
  BY <1>5, <1>6, <1>7, <1>8 DEF CreateFile

LEMMA IndexRowFacts ==
    ASSUME NEW c \in Contexts, NEW by \in Contexts \cup {NoNote}, note[c] # NoNote,
           NEW k, k = IndexRow(c), NEW v, v = [by |-> by]
    PROVE  /\ k \in RowKeys /\ v \in RowsOf(k) /\ RowOK(k, v)
           /\ k[1] # "plan" /\ k[1] # "result"
<1>1. k \in RowKeys /\ k[1] = "index" /\ k[2] = c /\ RowsOf(k) = IndexRows
  BY ContextKeys, RowTypes
<1> QED
  BY <1>1 DEF RowOK, IndexRows

LEMMA CreateIndexStep ==
    ASSUME ReconInv, NEW a \in Requests, CreateIndex(a)
    PROVE  ReconInv'
<1> DEFINE p == req[a].plan
           c == candidate[p]
           k == IndexRow(c)
           v == [by |-> NoNote]
           r1 == [req[a] EXCEPT !.pc = "mark", !.after = "merge"]
           r2 == [req[a] EXCEPT !.pc = "merge", !.changed = TRUE]
<1>1. /\ req[a].pc = "createIndex" /\ req[a].pc \in Applying /\ errors' \in 0 .. MaxErrors
      /\ UNCHANGED <<note, db, candidate, approved>> /\ req \in [Requests -> Reqs]
      /\ Put(a, k, v)
  BY DEF CreateIndex, Applying, ReconInv, TypeOK
<1>2. /\ req[a] \in Reqs /\ p \in Plans /\ p # NoPlan /\ MayAct(p) /\ RequestShape(a) /\ Progress(a)
  BY <1>1, ApplyFacts
<1>3. c \in Contexts
  BY <1>2, PlanFacts
<1>4. req[a].outcome = "APPLIED" /\ Has(p, "CREATE_CONTEXT")
  BY <1>1, <1>2 DEF RequestShape
<1>5. note[c] # NoNote
  BY <1>1, <1>2, <1>4 DEF Progress
<1>6. /\ k \in RowKeys /\ v \in RowsOf(k) /\ RowOK(k, v)
      /\ k[1] # "plan" /\ k[1] # "result"
  BY <1>3, <1>5, IndexRowFacts
<1> HIDE DEF k, v
<1>7. CASE SupersedesOf(p) # NoNote /\ req' = [req EXCEPT ![a].pc = "mark", ![a].after = "merge"]
  <2>1. /\ r1 \in Reqs /\ r1.plan = p /\ r1.pc = "mark" /\ r1.outcome = "APPLIED"
        /\ r1.after = "merge" /\ req' = [req EXCEPT ![a] = r1]
    BY <1>1, <1>2, <1>4, <1>7 DEF Reqs, Pcs
  <2> HIDE DEF r1
  <2>2. ~Written(r1) /\ r1.pc \in Applying
    BY <2>1 DEF Written, Recorded, Applying
  <2>3. RelationOf(p) = "SUPERSEDES"
    BY <1>7 DEF SupersedesOf
  <2>a. NoteStep
    BY <1>1, <1>5, <1>6, <2>1, <2>2, <2>3 DEF NoteStep
  <2>b. SessStep(a, r1)
    BY <1>1, <1>5, <1>6, <2>1, <2>2, <2>3 DEF SessStep
  <2>c. Shaped(r1)
    BY <1>1, <1>5, <1>6, <2>1, <2>2, <2>3 DEF Shaped
  <2>d. Advanced(a, r1, p, c)
    BY <1>1, <1>5, <1>6, <2>1, <2>2, <2>3 DEF Advanced
  <2> QED
    BY <1>1, <1>5, <1>6, <2>1, <2>2, <2>3, <2>a, <2>b, <2>c, <2>d, ApplyStep
<1>8. CASE req' = [req EXCEPT ![a].pc = "merge", ![a].changed = TRUE]
  <2>1. /\ r2 \in Reqs /\ r2.plan = p /\ r2.pc = "merge" /\ r2.outcome = "APPLIED"
        /\ req' = [req EXCEPT ![a] = r2]
    BY <1>1, <1>2, <1>4, <1>8 DEF Reqs, Pcs
  <2> HIDE DEF r2
  <2>2. ~Written(r2) /\ r2.pc \in Applying
    BY <2>1 DEF Written, Recorded, Applying
  <2>a. NoteStep
    BY <1>1, <1>5, <1>6, <2>1, <2>2 DEF NoteStep
  <2>b. SessStep(a, r2)
    BY <1>1, <1>5, <1>6, <2>1, <2>2 DEF SessStep
  <2>c. Shaped(r2)
    BY <1>1, <1>5, <1>6, <2>1, <2>2 DEF Shaped
  <2>d. Advanced(a, r2, p, c)
    BY <1>1, <1>5, <1>6, <2>1, <2>2 DEF Advanced
  <2> QED
    BY <1>1, <1>5, <1>6, <2>1, <2>2, <2>a, <2>b, <2>c, <2>d, ApplyStep
<1> QED
  BY <1>7, <1>8 DEF CreateIndex

\* What the marking of a target needs, and what it leaves.
LEMMA MarkFacts ==
    ASSUME ReconInv, NEW a \in Requests, req[a].pc \in {"mark", "markIndex"}
    PROVE  /\ req[a].pc \in Applying /\ req[a] \in Reqs /\ Progress(a)
           /\ req[a].plan \in Plans /\ MayAct(req[a].plan) /\ req[a].plan # NoPlan
           /\ req[a].outcome = "APPLIED" /\ req[a].plan \in approved
           /\ req[a].after \in {"merge", "temporal"} /\ RelationOf(req[a].plan) = "SUPERSEDES"
           /\ candidate[req[a].plan] \in Contexts /\ note[candidate[req[a].plan]] # NoNote
           /\ Target(req[a].plan) \in Contexts /\ note[Target(req[a].plan)] # NoNote
<1> DEFINE p == req[a].plan
<1>1. req[a].pc \in Applying
  BY DEF Applying
<1>2. /\ req[a] \in Reqs /\ p \in Plans /\ p # NoPlan /\ MayAct(p) /\ RequestShape(a) /\ Progress(a)
  BY <1>1, ApplyFacts
<1>3. /\ req[a].outcome = "APPLIED" /\ RelationOf(p) = "SUPERSEDES"
      /\ req[a].after \in {"merge", "temporal"}
  BY <1>2 DEF RequestShape
<1>4. /\ candidate[p] \in Contexts /\ PlanOf(p) # <<>> /\ Target(p) \in Contexts
      /\ note[Target(p)] # NoNote /\ p \in approved
  BY <1>2, <1>3, PlanFacts
<1>5. Has(p, "CREATE_CONTEXT")
  BY <1>3, ActionFacts DEF Has, Relations
<1>6. note[candidate[p]] # NoNote
  BY <1>2, <1>3, <1>5 DEF Progress
<1> QED
  BY <1>1, <1>2, <1>3, <1>4, <1>6

\* Back from the marking, to where it was called.
LEMMA MarkedStep ==
    ASSUME ReconInv, NEW a \in Requests, req[a].pc \in {"mark", "markIndex"},
           NEW r, r = [req[a] EXCEPT !.pc = req[a].after, !.changed = TRUE],
           req' = [req EXCEPT ![a] = r],
           UNCHANGED <<note, db, candidate, approved>>, errors' \in 0 .. MaxErrors,
           \/ sess' = sess
           \/ Put(a, IndexRow(Target(req[a].plan)), [by |-> candidate[req[a].plan]])
    PROVE  ReconInv'
<1> DEFINE p == req[a].plan
           c == candidate[p]
           k == IndexRow(Target(p))
           v == [by |-> c]
<1>1. /\ req[a].pc \in Applying /\ req[a] \in Reqs /\ Progress(a) /\ p \in Plans /\ p # NoPlan
      /\ req[a].outcome = "APPLIED" /\ req[a].after \in {"merge", "temporal"}
      /\ c \in Contexts /\ note[c] # NoNote /\ Target(p) \in Contexts /\ note[Target(p)] # NoNote
  BY MarkFacts
<1>2. req \in [Requests -> Reqs]
  BY DEF ReconInv, TypeOK
<1>3. /\ k \in RowKeys /\ v \in RowsOf(k) /\ RowOK(k, v)
      /\ k[1] # "plan" /\ k[1] # "result"
  BY <1>1, IndexRowFacts
<1>4. sess' = sess \/ Put(a, k, v)
  OBVIOUS
<1> HIDE DEF k, v
<1>5. DOMAIN sess[a] \subseteq DOMAIN sess'[a]
  BY <1>4, PutFacts
<1>6. /\ r \in Reqs /\ r.plan = p /\ r.pc = req[a].after /\ r.outcome = "APPLIED"
  BY <1>1, <1>2 DEF Reqs, Pcs
<1>7. /\ r.pc \in {"merge", "temporal"} /\ r.pc \in Applying
      /\ Written(r) => r.pc = "temporal" /\ req[a].after = "temporal"
  BY <1>1, <1>6 DEF Applying, Written, Recorded
<1>8. Written(r) =>
        /\ Has(p, "CREATE_RELATION") => RelationRow(c, Target(p), RelationOf(p)) \in DOMAIN sess[a]
        /\ Has(p, "CREATE_CONFLICT_SET") => ConflictRow(c) \in DOMAIN sess[a]
  BY <1>1, <1>7 DEF Progress, After
<1>a. NoteStep
  BY <1>1, <1>3, <1>4, <1>5, <1>6, <1>7, <1>8 DEF NoteStep
<1>b. SessStep(a, r)
  BY <1>1, <1>3, <1>4, <1>5, <1>6, <1>7, <1>8 DEF SessStep
<1>c. Shaped(r)
  BY <1>1, <1>3, <1>4, <1>5, <1>6, <1>7, <1>8 DEF Shaped
<1>d. Advanced(a, r, p, c)
  BY <1>1, <1>3, <1>4, <1>5, <1>6, <1>7, <1>8 DEF Advanced
<1> QED
  BY <1>1, <1>3, <1>4, <1>5, <1>6, <1>7, <1>8, <1>a, <1>b, <1>c, <1>d, ApplyStep

LEMMA MarkIndexStep ==
    ASSUME ReconInv, NEW a \in Requests, MarkIndex(a)
    PROVE  ReconInv'
<1>1. errors' \in 0 .. MaxErrors
  BY DEF MarkIndex, ReconInv, TypeOK
<1> QED
  BY <1>1, MarkedStep DEF MarkIndex

LEMMA MarkStep ==
    ASSUME ReconInv, NEW a \in Requests, Mark(a)
    PROVE  ReconInv'
<1> DEFINE p == req[a].plan
           c == candidate[p]
           t == Target(p)
           n == [note[t] EXCEPT !.supersededBy = c]
           r == [req[a] EXCEPT !.pc = "markIndex"]
<1>1. /\ req[a].pc = "mark" /\ errors' \in 0 .. MaxErrors
      /\ UNCHANGED <<db, sess, candidate, approved>> /\ req \in [Requests -> Reqs]
      /\ note \in [Contexts -> Notes \cup {NoNote}]
  BY DEF Mark, ReconInv, TypeOK
<1>2. /\ req[a].pc \in Applying /\ req[a] \in Reqs /\ Progress(a) /\ p \in Plans /\ p # NoPlan
      /\ req[a].outcome = "APPLIED" /\ req[a].after \in {"merge", "temporal"}
      /\ RelationOf(p) = "SUPERSEDES" /\ p \in approved
      /\ c \in Contexts /\ note[c] # NoNote /\ t \in Contexts /\ note[t] # NoNote
  BY <1>1, MarkFacts
<1>3. CASE Fail(a) /\ UNCHANGED note
  BY <1>1, <1>2, <1>3, FailStep
<1>4. CASE /\ req' = [req EXCEPT ![a].pc = req[a].after, ![a].changed = TRUE]
           /\ UNCHANGED note
  BY <1>1, <1>4, MarkedStep
<1>5. CASE note' = [note EXCEPT ![t].supersededBy = c] /\ Goto(a, "markIndex")
  <2>1. note[t] \in Notes /\ NoteOK(note[t])
    BY <1>1, <1>2 DEF ReconInv, NotesOK
  <2>2. /\ n \in Notes /\ n.conflicts = note[t].conflicts /\ n.supersededBy = c
        /\ note' = [note EXCEPT ![t] = n]
    BY <1>1, <1>2, <1>5, <2>1 DEF Notes
  <2> HIDE DEF n
  <2>3. NoteOK(n)
    BY <1>2, <2>1, <2>2 DEF NoteOK
  <2>4. t \notin Existing => \E q \in Plans : candidate[q] = t /\ MayAct(q)
    BY <1>2 DEF ReconInv, NotesOK
  <2>5. n # NoNote /\ note'[c] # NoNote
    BY <1>1, <1>2, <2>2, ReconciliationAssumption
  <2>6. /\ r \in Reqs /\ r.plan = p /\ r.pc = "markIndex" /\ r.outcome = "APPLIED"
        /\ r.after = req[a].after /\ req' = [req EXCEPT ![a] = r]
    BY <1>1, <1>2, <1>5 DEF Goto, Reqs, Pcs
  <2> HIDE DEF r
  <2>7. r.pc \in Applying /\ (Written(r) => req[a].after = "temporal")
    BY <2>6 DEF Applying, Written, Recorded
  <2>8. Written(r) =>
          /\ Has(p, "CREATE_RELATION") => RelationRow(c, t, RelationOf(p)) \in DOMAIN sess[a]
          /\ Has(p, "CREATE_CONFLICT_SET") => ConflictRow(c) \in DOMAIN sess[a]
    BY <1>1, <1>2, <2>7 DEF Progress, After
  <2>9. sess'[a] = sess[a]
    BY <1>1
  <2>a. NoteStep
    BY <1>1, <1>2, <2>2, <2>3, <2>4, <2>5, <2>6, <2>7, <2>8, <2>9 DEF NoteStep
  <2>b. SessStep(a, r)
    BY <1>1, <1>2, <2>2, <2>3, <2>4, <2>5, <2>6, <2>7, <2>8, <2>9 DEF SessStep
  <2>c. Shaped(r)
    BY <1>1, <1>2, <2>2, <2>3, <2>4, <2>5, <2>6, <2>7, <2>8, <2>9 DEF Shaped
  <2>d. Advanced(a, r, p, c)
    BY <1>1, <1>2, <2>2, <2>3, <2>4, <2>5, <2>6, <2>7, <2>8, <2>9 DEF Advanced
  <2> QED
    BY <1>1, <1>2, <2>2, <2>3, <2>4, <2>5, <2>6, <2>7, <2>8, <2>9, <2>a, <2>b, <2>c, <2>d, ApplyStep
<1> QED
  BY <1>3, <1>4, <1>5 DEF Mark

LEMMA StepFacts ==
    ASSUME ReconInv, NEW a \in Requests, req[a].pc \in Applying, NEW p, p = req[a].plan
    PROVE  /\ req[a] \in Reqs /\ RequestShape(a) /\ Progress(a) /\ req \in [Requests -> Reqs]
           /\ p \in Plans /\ MayAct(p) /\ p # NoPlan /\ candidate[p] \in Contexts
           /\ RelationOf(p) \in Relations /\ errors \in 0 .. MaxErrors
           /\ PlanOf(p) # <<>> => Target(p) \in Contexts /\ note[Target(p)] # NoNote
           /\ RelationOf(p) # "UNRELATED" => PlanOf(p) # <<>>
           /\ req[a].pc # "save" => req[a].outcome = "APPLIED"
<1>1. req[a] \in Reqs /\ RequestShape(a) /\ Progress(a) /\ p \in Plans /\ MayAct(p) /\ p # NoPlan
  BY ApplyFacts
<1>2. req[a].pc # "save" => req[a].outcome = "APPLIED"
  BY <1>1 DEF RequestShape, Applying
<1> QED
  BY <1>1, <1>2, PlanFacts DEF ReconInv, TypeOK

LEMMA MergeReadStep ==
    ASSUME ReconInv, NEW a \in Requests, MergeRead(a)
    PROVE  ReconInv'
<1> DEFINE p == req[a].plan
           c == candidate[p]
           r1 == [req[a] EXCEPT !.pc = "mergeWrite", !.snap = note[Target(p)]]
           r2 == [req[a] EXCEPT !.pc = "relation"]
<1>1. /\ req[a].pc = "merge" /\ req[a].pc \in Applying
      /\ UNCHANGED <<note, db, sess, candidate, approved, errors>>
  BY DEF MergeRead, Applying
<1>2. /\ req[a] \in Reqs /\ Progress(a) /\ req \in [Requests -> Reqs]
      /\ p \in Plans /\ p # NoPlan /\ c \in Contexts /\ errors' \in 0 .. MaxErrors
      /\ req[a].outcome = "APPLIED" /\ RelationOf(p) \in Relations
      /\ RelationOf(p) # "UNRELATED" => Target(p) \in Contexts /\ note[Target(p)] # NoNote
  BY <1>1, StepFacts
<1>3. Has(p, "CREATE_CONTEXT") => note'[c] # NoNote
  BY <1>1, <1>2 DEF Progress
<1>4. CASE Has(p, "MERGE_EVIDENCE") /\ req' = [req EXCEPT ![a] = r1]
  <2>1. Target(p) \in Contexts /\ note[Target(p)] # NoNote
    BY <1>2, <1>4, ActionFacts DEF Has
  <2>2. NoteOK(note[Target(p)]) /\ note[Target(p)] \in Notes
    BY <2>1 DEF ReconInv, NotesOK, TypeOK
  <2>3. /\ r1 \in Reqs /\ r1.plan = p /\ r1.pc = "mergeWrite" /\ r1.outcome = "APPLIED"
        /\ r1.snap = note[Target(p)]
    BY <1>2, <2>2 DEF Reqs, Pcs
  <2> HIDE DEF r1
  <2>4. ~Written(r1) /\ r1.pc \in Applying
    BY <2>3 DEF Written, Recorded, Applying
  <2>a. NoteStep
    BY <1>1, <1>2, <1>3, <1>4, <2>2, <2>3, <2>4 DEF NoteStep
  <2>b. SessStep(a, r1)
    BY <1>1, <1>2, <1>3, <1>4, <2>2, <2>3, <2>4 DEF SessStep
  <2>c. Shaped(r1)
    BY <1>1, <1>2, <1>3, <1>4, <2>2, <2>3, <2>4 DEF Shaped
  <2>d. Advanced(a, r1, p, c)
    BY <1>1, <1>2, <1>3, <1>4, <2>2, <2>3, <2>4 DEF Advanced
  <2> QED
    BY <1>1, <1>2, <1>3, <1>4, <2>2, <2>3, <2>4, <2>a, <2>b, <2>c, <2>d, ApplyStep
<1>5. CASE req' = [req EXCEPT ![a] = r2]
  <2>1. /\ r2 \in Reqs /\ r2.plan = p /\ r2.pc = "relation" /\ r2.outcome = "APPLIED"
    BY <1>2 DEF Reqs, Pcs
  <2> HIDE DEF r2
  <2>2. ~Written(r2) /\ r2.pc \in Applying
    BY <2>1 DEF Written, Recorded, Applying
  <2>a. NoteStep
    BY <1>1, <1>2, <1>3, <1>5, <2>1, <2>2 DEF NoteStep
  <2>b. SessStep(a, r2)
    BY <1>1, <1>2, <1>3, <1>5, <2>1, <2>2 DEF SessStep
  <2>c. Shaped(r2)
    BY <1>1, <1>2, <1>3, <1>5, <2>1, <2>2 DEF Shaped
  <2>d. Advanced(a, r2, p, c)
    BY <1>1, <1>2, <1>3, <1>5, <2>1, <2>2 DEF Advanced
  <2> QED
    BY <1>1, <1>2, <1>3, <1>5, <2>1, <2>2, <2>a, <2>b, <2>c, <2>d, ApplyStep
<1> QED
  BY <1>4, <1>5 DEF MergeRead, Goto

LEMMA MergeWriteStep ==
    ASSUME ReconInv, NEW a \in Requests, MergeWrite(a)
    PROVE  ReconInv'
<1> DEFINE p == req[a].plan
           c == candidate[p]
           t == Target(p)
           n == [req[a].snap EXCEPT !.refs = @ \cup {p}]
           r == [req[a] EXCEPT !.pc = "mergeIndex"]
<1>1. /\ req[a].pc = "mergeWrite" /\ req[a].pc \in Applying
      /\ UNCHANGED <<db, sess, candidate, approved, errors>>
      /\ note' = [note EXCEPT ![t] = n] /\ req' = [req EXCEPT ![a] = r]
  BY DEF MergeWrite, Goto, Applying
<1>2. /\ req[a] \in Reqs /\ Progress(a) /\ RequestShape(a) /\ req \in [Requests -> Reqs]
      /\ p \in Plans /\ p # NoPlan /\ c \in Contexts /\ errors' \in 0 .. MaxErrors
      /\ req[a].outcome = "APPLIED" /\ RelationOf(p) \in Relations
      /\ RelationOf(p) # "UNRELATED" => t \in Contexts /\ note[t] # NoNote
  BY <1>1, StepFacts
<1>3. Has(p, "MERGE_EVIDENCE") /\ NoteOK(req[a].snap)
  BY <1>1, <1>2 DEF RequestShape
<1>4. t \in Contexts /\ note[t] # NoNote
  BY <1>2, <1>3, ActionFacts DEF Has
<1>5. /\ r \in Reqs /\ r.plan = p /\ r.pc = "mergeIndex" /\ r.outcome = "APPLIED"
      /\ r.snap = req[a].snap
  BY <1>2 DEF Reqs, Pcs
<1> HIDE DEF r
<1>6. /\ n \in Notes /\ n.conflicts = req[a].snap.conflicts
      /\ n.supersededBy = req[a].snap.supersededBy
  BY <1>2, <1>3 DEF NoteOK, Notes
<1> HIDE DEF n
<1>7. NoteOK(n)
  BY <1>3, <1>6 DEF NoteOK
<1>8. t \notin Existing => \E q \in Plans : candidate[q] = t /\ MayAct(q)
  BY <1>4 DEF ReconInv, NotesOK
<1>9. Has(p, "CREATE_CONTEXT") => note'[c] # NoNote
  <2>1. note \in [Contexts -> Notes \cup {NoNote}] /\ n # NoNote
    BY <1>6, ReconciliationAssumption DEF ReconInv, TypeOK
  <2>2. Has(p, "CREATE_CONTEXT") => note[c] # NoNote
    BY <1>1, <1>2 DEF Progress
  <2> QED
    BY <1>1, <1>2, <1>4, <2>1, <2>2
<1>10. ~Written(r) /\ r.pc \in Applying
  BY <1>5 DEF Written, Recorded, Applying
<1>a. NoteStep
  BY <1>1, <1>2, <1>3, <1>4, <1>5, <1>6, <1>7, <1>8, <1>9, <1>10 DEF NoteStep
<1>b. SessStep(a, r)
  BY <1>1, <1>2, <1>3, <1>4, <1>5, <1>6, <1>7, <1>8, <1>9, <1>10 DEF SessStep
<1>c. Shaped(r)
  BY <1>1, <1>2, <1>3, <1>4, <1>5, <1>6, <1>7, <1>8, <1>9, <1>10 DEF Shaped
<1>d. Advanced(a, r, p, c)
  BY <1>1, <1>2, <1>3, <1>4, <1>5, <1>6, <1>7, <1>8, <1>9, <1>10 DEF Advanced
<1> QED
  BY <1>1, <1>2, <1>3, <1>4, <1>5, <1>6, <1>7, <1>8, <1>9, <1>10, <1>a, <1>b, <1>c, <1>d, ApplyStep

LEMMA MergeIndexStep ==
    ASSUME ReconInv, NEW a \in Requests, MergeIndex(a)
    PROVE  ReconInv'
<1> DEFINE p == req[a].plan
           c == candidate[p]
           by == req[a].snap.supersededBy
           k == IndexRow(Target(p))
           v == [by |-> by]
           r == [req[a] EXCEPT !.pc = "relation", !.changed = TRUE]
<1>1. /\ req[a].pc = "mergeIndex" /\ req[a].pc \in Applying
      /\ UNCHANGED <<note, db, candidate, approved, errors>>
      /\ Put(a, k, v) /\ req' = [req EXCEPT ![a] = r]
  BY DEF MergeIndex, Applying
<1>2. /\ req[a] \in Reqs /\ Progress(a) /\ RequestShape(a) /\ req \in [Requests -> Reqs]
      /\ p \in Plans /\ p # NoPlan /\ c \in Contexts /\ errors' \in 0 .. MaxErrors
      /\ req[a].outcome = "APPLIED" /\ RelationOf(p) \in Relations
      /\ RelationOf(p) # "UNRELATED" => Target(p) \in Contexts /\ note[Target(p)] # NoNote
  BY <1>1, StepFacts
<1>3. Has(p, "MERGE_EVIDENCE") /\ req[a].snap \in Notes
  BY <1>1, <1>2 DEF RequestShape, NoteOK
<1>4. Target(p) \in Contexts /\ note[Target(p)] # NoNote /\ by \in Contexts \cup {NoNote}
  BY <1>2, <1>3, ActionFacts DEF Has, Notes
<1>5. /\ k \in RowKeys /\ v \in RowsOf(k) /\ RowOK(k, v) /\ k[1] # "plan" /\ k[1] # "result"
  BY <1>4, IndexRowFacts
<1> HIDE DEF k, v
<1>6. r \in Reqs /\ r.plan = p /\ r.pc = "relation" /\ r.outcome = "APPLIED"
  BY <1>2 DEF Reqs, Pcs
<1> HIDE DEF r
<1>7. Has(p, "CREATE_CONTEXT") => note'[c] # NoNote
  BY <1>1, <1>2 DEF Progress
<1>8. ~Written(r) /\ r.pc \in Applying
  BY <1>6 DEF Written, Recorded, Applying
<1>a. NoteStep
  BY <1>1, <1>2, <1>5, <1>6, <1>7, <1>8 DEF NoteStep
<1>b. SessStep(a, r)
  BY <1>1, <1>2, <1>5, <1>6, <1>7, <1>8 DEF SessStep
<1>c. Shaped(r)
  BY <1>1, <1>2, <1>5, <1>6, <1>7, <1>8 DEF Shaped
<1>d. Advanced(a, r, p, c)
  BY <1>1, <1>2, <1>5, <1>6, <1>7, <1>8 DEF Advanced
<1> QED
  BY <1>1, <1>2, <1>5, <1>6, <1>7, <1>8, <1>a, <1>b, <1>c, <1>d, ApplyStep

LEMMA PersistRelationStep ==
    ASSUME ReconInv, NEW a \in Requests, PersistRelation(a)
    PROVE  ReconInv'
<1> DEFINE p == req[a].plan
           c == candidate[p]
           k == RelationRow(c, Target(p), RelationOf(p))
           v == IF View(a, k) = NoRow THEN [candidate |-> c] ELSE View(a, k)
           r1 == [req[a] EXCEPT !.pc = "conflict", !.changed = TRUE]
           r2 == [req[a] EXCEPT !.pc = "conflict"]
<1>1. /\ req[a].pc = "relation" /\ req[a].pc \in Applying
      /\ UNCHANGED <<note, db, candidate, approved, errors>>
  BY DEF PersistRelation, Applying
<1>2. /\ req[a] \in Reqs /\ Progress(a) /\ req \in [Requests -> Reqs]
      /\ p \in Plans /\ p # NoPlan /\ c \in Contexts /\ errors' \in 0 .. MaxErrors
      /\ req[a].outcome = "APPLIED" /\ RelationOf(p) \in Relations
      /\ RelationOf(p) # "UNRELATED" => Target(p) \in Contexts /\ note[Target(p)] # NoNote
  BY <1>1, StepFacts
<1>3. Has(p, "CREATE_CONTEXT") => note'[c] # NoNote
  BY <1>1, <1>2 DEF Progress
<1>4. CASE Has(p, "CREATE_RELATION") /\ Put(a, k, v) /\ req' = [req EXCEPT ![a] = r1]
  <2>1. Target(p) \in Contexts
    BY <1>2, <1>4, ActionFacts DEF Has
  <2>2. k \in RowKeys /\ k[1] = "relation" /\ RowsOf(k) = RelationRows
    BY <1>2, <2>1, RelationKeys, RowTypes
  <2>3. v \in RowsOf(k) /\ RowOK(k, v)
    BY <1>2, <2>2 DEF View, ReconInv, TypeOK, RelationRows, RowOK
  <2>4. /\ r1 \in Reqs /\ r1.plan = p /\ r1.pc = "conflict" /\ r1.outcome = "APPLIED"
    BY <1>2 DEF Reqs, Pcs
  <2>5. Put(a, k, v) /\ req' = [req EXCEPT ![a] = r1]
    BY <1>4
  <2> HIDE DEF r1, v
  <2>6. ~Written(r1) /\ r1.pc \in Applying
    BY <2>4 DEF Written, Recorded, Applying
  <2>7. k \in DOMAIN sess'[a]
    BY <2>5, PutFacts
  <2>a. NoteStep
    BY <1>1, <1>2, <1>3, <2>2, <2>3, <2>4, <2>5, <2>6, <2>7 DEF NoteStep
  <2>b. SessStep(a, r1)
    BY <1>1, <1>2, <1>3, <2>2, <2>3, <2>4, <2>5, <2>6, <2>7 DEF SessStep
  <2>c. Shaped(r1)
    BY <1>1, <1>2, <1>3, <2>2, <2>3, <2>4, <2>5, <2>6, <2>7 DEF Shaped
  <2>d. Advanced(a, r1, p, c)
    BY <1>1, <1>2, <1>3, <2>2, <2>3, <2>4, <2>5, <2>6, <2>7 DEF Advanced
  <2> QED
    BY <1>1, <1>2, <1>3, <2>2, <2>3, <2>4, <2>5, <2>6, <2>7, <2>a, <2>b, <2>c, <2>d, ApplyStep
<1>5. CASE ~Has(p, "CREATE_RELATION") /\ sess' = sess /\ req' = [req EXCEPT ![a] = r2]
  <2>1. /\ r2 \in Reqs /\ r2.plan = p /\ r2.pc = "conflict" /\ r2.outcome = "APPLIED"
    BY <1>2 DEF Reqs, Pcs
  <2> HIDE DEF r2, k, v
  <2>2. ~Written(r2) /\ r2.pc \in Applying
    BY <2>1 DEF Written, Recorded, Applying
  <2>a. NoteStep
    BY <1>1, <1>2, <1>3, <1>5, <2>1, <2>2 DEF NoteStep
  <2>b. SessStep(a, r2)
    BY <1>1, <1>2, <1>3, <1>5, <2>1, <2>2 DEF SessStep
  <2>c. Shaped(r2)
    BY <1>1, <1>2, <1>3, <1>5, <2>1, <2>2 DEF Shaped
  <2>d. Advanced(a, r2, p, c)
    BY <1>1, <1>2, <1>3, <1>5, <2>1, <2>2 DEF Advanced
  <2> QED
    BY <1>1, <1>2, <1>3, <1>5, <2>1, <2>2, <2>a, <2>b, <2>c, <2>d, ApplyStep
<1> QED
  BY <1>4, <1>5 DEF PersistRelation, Goto

LEMMA PersistConflictStep ==
    ASSUME ReconInv, NEW a \in Requests, PersistConflict(a)
    PROVE  ReconInv'
<1> DEFINE p == req[a].plan
           c == candidate[p]
           k == ConflictRow(c)
           id == IF View(a, k) = NoRow THEN p ELSE View(a, k).id
           v == [id |-> id, set |-> p, status |-> "OPEN"]
           r1 == [req[a] EXCEPT !.pc = "supersede", !.changed = TRUE]
           r2 == [req[a] EXCEPT !.pc = "supersede"]
<1>1. /\ req[a].pc = "conflict" /\ req[a].pc \in Applying
      /\ UNCHANGED <<note, db, candidate, approved, errors>>
  BY DEF PersistConflict, Applying
<1>2. /\ req[a] \in Reqs /\ Progress(a) /\ req \in [Requests -> Reqs]
      /\ p \in Plans /\ p # NoPlan /\ c \in Contexts /\ errors' \in 0 .. MaxErrors
      /\ req[a].outcome = "APPLIED"
  BY <1>1, StepFacts
<1>3. /\ Has(p, "CREATE_CONTEXT") => note'[c] # NoNote
      /\ Has(p, "CREATE_RELATION") =>
           RelationRow(c, Target(p), RelationOf(p)) \in DOMAIN sess[a]
  BY <1>1, <1>2 DEF Progress, After
<1>4. CASE Has(p, "CREATE_CONFLICT_SET") /\ Put(a, k, v) /\ req' = [req EXCEPT ![a] = r1]
  <2>1. k \in RowKeys /\ k[1] = "conflict" /\ RowsOf(k) = ConflictRows
    BY <1>2, ContextKeys, RowTypes
  <2>2. View(a, k) \in ConflictRows \cup {NoRow}
    BY <2>1 DEF View, ReconInv, TypeOK
  <2>3. id \in Plans
    BY <1>2, <2>2 DEF ConflictRows
  <2>4. Put(a, k, v) /\ req' = [req EXCEPT ![a] = r1]
    BY <1>4
  <2> HIDE DEF id
  <2>5. v \in RowsOf(k) /\ RowOK(k, v)
    BY <1>2, <2>1, <2>3 DEF ConflictRows, RowOK
  <2>6. /\ r1 \in Reqs /\ r1.plan = p /\ r1.pc = "supersede" /\ r1.outcome = "APPLIED"
    BY <1>2 DEF Reqs, Pcs
  <2> HIDE DEF r1, v
  <2>7. r1.pc \in Applying
    BY <2>6 DEF Applying
  <2>8. k \in DOMAIN sess'[a] /\ DOMAIN sess[a] \subseteq DOMAIN sess'[a]
    BY <2>4, PutFacts
  <2>a. NoteStep
    BY <1>1, <1>2, <1>3, <2>1, <2>4, <2>5, <2>6, <2>7, <2>8 DEF NoteStep
  <2>b. SessStep(a, r1)
    BY <1>1, <1>2, <1>3, <2>1, <2>4, <2>5, <2>6, <2>7, <2>8 DEF SessStep
  <2>c. Shaped(r1)
    BY <1>1, <1>2, <1>3, <2>1, <2>4, <2>5, <2>6, <2>7, <2>8 DEF Shaped
  <2>d. Advanced(a, r1, p, c)
    BY <1>1, <1>2, <1>3, <2>1, <2>4, <2>5, <2>6, <2>7, <2>8 DEF Advanced
  <2> QED
    BY <1>1, <1>2, <1>3, <2>1, <2>4, <2>5, <2>6, <2>7, <2>8, <2>a, <2>b, <2>c, <2>d, ApplyStep
<1>5. CASE ~Has(p, "CREATE_CONFLICT_SET") /\ sess' = sess /\ req' = [req EXCEPT ![a] = r2]
  <2>1. /\ r2 \in Reqs /\ r2.plan = p /\ r2.pc = "supersede" /\ r2.outcome = "APPLIED"
    BY <1>2 DEF Reqs, Pcs
  <2> HIDE DEF r2
  <2>2. r2.pc \in Applying
    BY <2>1 DEF Applying
  <2>a. NoteStep
    BY <1>1, <1>2, <1>3, <1>5, <2>1, <2>2 DEF NoteStep
  <2>b. SessStep(a, r2)
    BY <1>1, <1>2, <1>3, <1>5, <2>1, <2>2 DEF SessStep
  <2>c. Shaped(r2)
    BY <1>1, <1>2, <1>3, <1>5, <2>1, <2>2 DEF Shaped
  <2>d. Advanced(a, r2, p, c)
    BY <1>1, <1>2, <1>3, <1>5, <2>1, <2>2 DEF Advanced
  <2> QED
    BY <1>1, <1>2, <1>3, <1>5, <2>1, <2>2, <2>a, <2>b, <2>c, <2>d, ApplyStep
<1> QED
  BY <1>4, <1>5 DEF PersistConflict, Goto

\* What is in the session of an apply that has recorded relation and conflict.
LEMMA RecordedFacts ==
    ASSUME ReconInv, NEW a \in Requests, NEW p, p = req[a].plan, NEW c, c = candidate[p],
           req[a].pc \in {"supersede", "replacement", "temporal", "temporalTarget"}
    PROVE  /\ req[a].pc \in Applying
           /\ Has(p, "CREATE_CONTEXT") => note[c] # NoNote
           /\ Has(p, "CREATE_RELATION") => RelationRow(c, Target(p), RelationOf(p)) \in DOMAIN sess[a]
           /\ Has(p, "CREATE_CONFLICT_SET") => ConflictRow(c) \in DOMAIN sess[a]
<1>1. req[a].pc \in Applying
  BY DEF Applying
<1>2. Progress(a) /\ p # NoPlan /\ req[a].outcome = "APPLIED"
  BY <1>1, StepFacts
<1> QED
  BY <1>1, <1>2 DEF Progress, After, Recorded

LEMMA SupersedeStep ==
    ASSUME ReconInv, NEW a \in Requests, Supersede(a)
    PROVE  ReconInv'
<1> DEFINE p == req[a].plan
           c == candidate[p]
           t == Target(p)
           n == [note[c] EXCEPT !.supersedes = t]
           r1 == [req[a] EXCEPT !.pc = "temporal"]
           r2 == [req[a] EXCEPT !.pc = "replacement", !.after = "temporal"]
<1>1. /\ req[a].pc = "supersede" /\ req[a].pc \in Applying
      /\ UNCHANGED <<db, sess, candidate, approved, errors>>
  BY DEF Supersede, Applying
<1>2. /\ req[a] \in Reqs /\ req \in [Requests -> Reqs] /\ RelationOf(p) \in Relations
      /\ p \in Plans /\ p # NoPlan /\ c \in Contexts /\ errors' \in 0 .. MaxErrors
      /\ req[a].outcome = "APPLIED"
      /\ RelationOf(p) # "UNRELATED" => t \in Contexts /\ note[t] # NoNote
  BY <1>1, StepFacts
<1>3. /\ Has(p, "CREATE_CONTEXT") => note[c] # NoNote
      /\ Has(p, "CREATE_RELATION") => RelationRow(c, t, RelationOf(p)) \in DOMAIN sess'[a]
      /\ Has(p, "CREATE_CONFLICT_SET") => ConflictRow(c) \in DOMAIN sess'[a]
  BY <1>1, RecordedFacts
<1>4. CASE Fail(a) /\ UNCHANGED note
  BY <1>1, <1>2, <1>4, FailStep
<1>5. CASE Goto(a, "temporal") /\ UNCHANGED note
  <2>1. /\ r1 \in Reqs /\ r1.plan = p /\ r1.pc = "temporal" /\ r1.outcome = "APPLIED"
        /\ req' = [req EXCEPT ![a] = r1]
    BY <1>2, <1>5 DEF Reqs, Pcs, Goto
  <2> HIDE DEF r1
  <2>2. r1.pc \in Applying
    BY <2>1 DEF Applying
  <2>a. NoteStep
    BY <1>1, <1>2, <1>3, <1>5, <2>1, <2>2 DEF NoteStep
  <2>b. SessStep(a, r1)
    BY <1>1, <1>2, <1>3, <1>5, <2>1, <2>2 DEF SessStep
  <2>c. Shaped(r1)
    BY <1>1, <1>2, <1>3, <1>5, <2>1, <2>2 DEF Shaped
  <2>d. Advanced(a, r1, p, c)
    BY <1>1, <1>2, <1>3, <1>5, <2>1, <2>2 DEF Advanced
  <2> QED
    BY <1>1, <1>2, <1>3, <1>5, <2>1, <2>2, <2>a, <2>b, <2>c, <2>d, ApplyStep
<1>6. CASE /\ Has(p, "MARK_SUPERSEDED")
           /\ note' = [note EXCEPT ![c].supersedes = t]
           /\ req' = [req EXCEPT ![a].pc = "replacement", ![a].after = "temporal"]
  <2>1. RelationOf(p) = "SUPERSEDES"
    BY <1>2, <1>6, ActionFacts DEF Has
  <2>2. t \in Contexts /\ note[c] # NoNote
    BY <1>2, <1>3, <2>1, ActionFacts DEF Has
  <2>3. note \in [Contexts -> Notes \cup {NoNote}] /\ note[c] \in Notes /\ NoteOK(note[c])
    BY <1>2, <2>2 DEF ReconInv, TypeOK, NotesOK
  <2>4. /\ n \in Notes /\ n.conflicts = note[c].conflicts
        /\ n.supersededBy = note[c].supersededBy
    BY <2>2, <2>3 DEF Notes
  <2>5. /\ r2 \in Reqs /\ r2.plan = p /\ r2.pc = "replacement" /\ r2.outcome = "APPLIED"
        /\ r2.after = "temporal"
    BY <1>2 DEF Reqs, Pcs
  <2>6. note' = [note EXCEPT ![c] = n] /\ req' = [req EXCEPT ![a] = r2]
    BY <1>6
  <2> HIDE DEF r2, n
  <2>7. NoteOK(n) /\ n # NoNote
    BY <2>3, <2>4, ReconciliationAssumption DEF NoteOK
  <2>8. c \notin Existing => \E q \in Plans : candidate[q] = c /\ MayAct(q)
    BY <1>2, <2>2 DEF ReconInv, NotesOK
  <2>9. note'[c] # NoNote /\ r2.pc \in Applying
    BY <1>2, <2>3, <2>5, <2>6, <2>7 DEF Applying
  <2>a. NoteStep
    BY <1>1, <1>2, <1>3, <2>1, <2>4, <2>5, <2>6, <2>7, <2>8, <2>9 DEF NoteStep
  <2>b. SessStep(a, r2)
    BY <1>1, <1>2, <1>3, <2>1, <2>4, <2>5, <2>6, <2>7, <2>8, <2>9 DEF SessStep
  <2>c. Shaped(r2)
    BY <1>1, <1>2, <1>3, <2>1, <2>4, <2>5, <2>6, <2>7, <2>8, <2>9 DEF Shaped
  <2>d. Advanced(a, r2, p, c)
    BY <1>1, <1>2, <1>3, <2>1, <2>4, <2>5, <2>6, <2>7, <2>8, <2>9 DEF Advanced
  <2> QED
    BY <1>1, <1>2, <1>3, <2>1, <2>4, <2>5, <2>6, <2>7, <2>8, <2>9, <2>a, <2>b, <2>c, <2>d, ApplyStep
<1> QED
  BY <1>4, <1>5, <1>6 DEF Supersede

LEMMA ReplacementIndexStep ==
    ASSUME ReconInv, NEW a \in Requests, ReplacementIndex(a)
    PROVE  ReconInv'
<1> DEFINE p == req[a].plan
           c == candidate[p]
           by == note[c].supersededBy
           k == IndexRow(c)
           v == [by |-> by]
           r == [req[a] EXCEPT !.pc = "mark"]
<1>1. /\ req[a].pc = "replacement" /\ req[a].pc \in Applying
      /\ UNCHANGED <<note, db, candidate, approved, errors>>
      /\ Put(a, k, v) /\ req' = [req EXCEPT ![a] = r]
  BY DEF ReplacementIndex, Goto, Applying
<1>2. /\ req[a] \in Reqs /\ RequestShape(a) /\ req \in [Requests -> Reqs]
      /\ p \in Plans /\ p # NoPlan /\ c \in Contexts /\ errors' \in 0 .. MaxErrors
      /\ req[a].outcome = "APPLIED" /\ RelationOf(p) \in Relations
  BY <1>1, StepFacts
<1>3. RelationOf(p) = "SUPERSEDES" /\ req[a].after = "temporal"
  BY <1>1, <1>2 DEF RequestShape
<1>4. /\ Has(p, "CREATE_CONTEXT") => note[c] # NoNote
      /\ Has(p, "CREATE_RELATION") => RelationRow(c, Target(p), RelationOf(p)) \in DOMAIN sess[a]
      /\ Has(p, "CREATE_CONFLICT_SET") => ConflictRow(c) \in DOMAIN sess[a]
  BY <1>1, RecordedFacts
<1>5. note[c] # NoNote
  BY <1>2, <1>3, <1>4, ActionFacts DEF Has
<1>6. by \in Contexts \cup {NoNote}
  BY <1>2, <1>5 DEF ReconInv, TypeOK, Notes
<1>7. /\ k \in RowKeys /\ v \in RowsOf(k) /\ RowOK(k, v) /\ k[1] # "plan" /\ k[1] # "result"
  BY <1>2, <1>5, <1>6, IndexRowFacts
<1> HIDE DEF k, v
<1>8. r \in Reqs /\ r.plan = p /\ r.pc = "mark" /\ r.outcome = "APPLIED" /\ r.after = "temporal"
  BY <1>2, <1>3 DEF Reqs, Pcs
<1> HIDE DEF r
<1>9. r.pc \in Applying /\ DOMAIN sess[a] \subseteq DOMAIN sess'[a]
  BY <1>1, <1>8, PutFacts DEF Applying
<1>a. NoteStep
  BY <1>1, <1>2, <1>3, <1>4, <1>5, <1>7, <1>8, <1>9 DEF NoteStep
<1>b. SessStep(a, r)
  BY <1>1, <1>2, <1>3, <1>4, <1>5, <1>7, <1>8, <1>9 DEF SessStep
<1>c. Shaped(r)
  BY <1>1, <1>2, <1>3, <1>4, <1>5, <1>7, <1>8, <1>9 DEF Shaped
<1>d. Advanced(a, r, p, c)
  BY <1>1, <1>2, <1>3, <1>4, <1>5, <1>7, <1>8, <1>9 DEF Advanced
<1> QED
  BY <1>1, <1>2, <1>3, <1>4, <1>5, <1>7, <1>8, <1>9, <1>a, <1>b, <1>c, <1>d, ApplyStep

LEMMA TemporalRowFacts ==
    ASSUME NEW c \in Contexts, NEW v \in TemporalRows, v.conflicts \subseteq approved,
           NEW k, k = TemporalRow(c)
    PROVE  k \in RowKeys /\ v \in RowsOf(k) /\ RowOK(k, v) /\ k[1] # "plan" /\ k[1] # "result"
<1>1. k \in RowKeys /\ k[1] = "temporal" /\ RowsOf(k) = TemporalRows
  BY ContextKeys, RowTypes
<1> QED
  BY <1>1 DEF RowOK

LEMMA PersistTemporalStep ==
    ASSUME ReconInv, NEW a \in Requests, PersistTemporal(a)
    PROVE  ReconInv'
<1> DEFINE p == req[a].plan
           c == candidate[p]
           k == TemporalRow(c)
           v == Overlay(TRUE, {}, ConflictIds(p))
           old == View(a, TemporalRow(Target(p)))
           base == IF old = NoRow THEN Overlay(TRUE, {}, {}) ELSE old
           r1 == [req[a] EXCEPT !.pc = "save"]
           r2 == [req[a] EXCEPT !.pc = "temporalTarget", !.base = base]
<1>1. /\ req[a].pc = "temporal" /\ req[a].pc \in Applying
      /\ UNCHANGED <<note, db, candidate, approved, errors>>
      /\ (Has(p, "CREATE_CONTEXT") /\ Put(a, k, v)) \/ (~Has(p, "CREATE_CONTEXT") /\ sess' = sess)
  BY DEF PersistTemporal, Applying
<1>2. /\ req[a] \in Reqs /\ req \in [Requests -> Reqs] /\ MayAct(p)
      /\ p \in Plans /\ p # NoPlan /\ c \in Contexts /\ errors' \in 0 .. MaxErrors
      /\ req[a].outcome = "APPLIED"
      /\ PlanOf(p) # <<>> => Target(p) \in Contexts /\ note[Target(p)] # NoNote
  BY <1>1, StepFacts
<1>3. /\ Has(p, "CREATE_CONTEXT") => note[c] # NoNote
      /\ Has(p, "CREATE_RELATION") => RelationRow(c, Target(p), RelationOf(p)) \in DOMAIN sess[a]
      /\ Has(p, "CREATE_CONFLICT_SET") => ConflictRow(c) \in DOMAIN sess[a]
  BY <1>1, RecordedFacts
<1>4. ConflictIds(p) \subseteq approved /\ ConflictIds(p) \subseteq Plans
  BY <1>2, PlanFacts
<1>5. v \in TemporalRows /\ v.conflicts \subseteq approved
  BY <1>4 DEF Overlay, TemporalRows
<1> HIDE DEF v
<1>6. k \in RowKeys /\ v \in RowsOf(k) /\ RowOK(k, v) /\ k[1] # "plan" /\ k[1] # "result"
  BY <1>2, <1>5, TemporalRowFacts
<1>7. /\ DOMAIN sess[a] \subseteq DOMAIN sess'[a]
      /\ Has(p, "CREATE_CONTEXT") => k \in DOMAIN sess'[a]
  BY <1>1, PutFacts
<1>8. CASE PlanOf(p) = <<>> /\ req' = [req EXCEPT ![a] = r1]
  <2>1. /\ r1 \in Reqs /\ r1.plan = p /\ r1.pc = "save" /\ r1.outcome = "APPLIED"
    BY <1>2 DEF Reqs, Pcs
  <2> HIDE DEF r1
  <2>2. r1.pc \in Applying
    BY <2>1 DEF Applying
  <2>a. NoteStep
    BY <1>1, <1>2, <1>3, <1>6, <1>7, <1>8, <2>1, <2>2 DEF NoteStep
  <2>b. SessStep(a, r1)
    BY <1>1, <1>2, <1>3, <1>6, <1>7, <1>8, <2>1, <2>2 DEF SessStep
  <2>c. Shaped(r1)
    BY <1>1, <1>2, <1>3, <1>6, <1>7, <1>8, <2>1, <2>2 DEF Shaped
  <2>d. Advanced(a, r1, p, c)
    BY <1>1, <1>2, <1>3, <1>6, <1>7, <1>8, <2>1, <2>2 DEF Advanced
  <2> QED
    BY <1>1, <1>2, <1>3, <1>6, <1>7, <1>8, <2>1, <2>2, <2>a, <2>b, <2>c, <2>d, ApplyStep
<1>9. CASE PlanOf(p) # <<>> /\ req' = [req EXCEPT ![a] = r2]
  <2>1. TemporalRow(Target(p)) \in RowKeys /\ TemporalRow(Target(p))[1] = "temporal"
        /\ RowsOf(TemporalRow(Target(p))) = TemporalRows
    BY <1>2, <1>9, ContextKeys, RowTypes
  <2>2. old = NoRow \/ (old \in TemporalRows /\ old.conflicts \subseteq approved)
    BY <2>1 DEF View, ReconInv, TypeOK, RowsOK, RowOK
  <2>3. Overlay(TRUE, {}, {}) \in TemporalRows /\ Overlay(TRUE, {}, {}).conflicts = {}
    BY DEF Overlay, TemporalRows
  <2>4. base \in TemporalRows /\ base.conflicts \subseteq approved
    BY <2>2, <2>3
  <2> HIDE DEF base
  <2>5. /\ r2 \in Reqs /\ r2.plan = p /\ r2.pc = "temporalTarget" /\ r2.outcome = "APPLIED"
        /\ r2.base = base
    BY <1>2, <2>4 DEF Reqs, Pcs
  <2> HIDE DEF r2
  <2>6. r2.pc \in Applying
    BY <2>5 DEF Applying
  <2>a. NoteStep
    BY <1>1, <1>2, <1>3, <1>6, <1>7, <1>9, <2>4, <2>5, <2>6 DEF NoteStep
  <2>b. SessStep(a, r2)
    BY <1>1, <1>2, <1>3, <1>6, <1>7, <1>9, <2>4, <2>5, <2>6 DEF SessStep
  <2>c. Shaped(r2)
    BY <1>1, <1>2, <1>3, <1>6, <1>7, <1>9, <2>4, <2>5, <2>6 DEF Shaped
  <2>d. Advanced(a, r2, p, c)
    BY <1>1, <1>2, <1>3, <1>6, <1>7, <1>9, <2>4, <2>5, <2>6 DEF Advanced
  <2> QED
    BY <1>1, <1>2, <1>3, <1>6, <1>7, <1>9, <2>4, <2>5, <2>6, <2>a, <2>b, <2>c, <2>d, ApplyStep
<1> QED
  BY <1>8, <1>9 DEF PersistTemporal, Goto

LEMMA PersistTemporalTargetStep ==
    ASSUME ReconInv, NEW a \in Requests, PersistTemporalTarget(a)
    PROVE  ReconInv'
<1> DEFINE p == req[a].plan
           c == candidate[p]
           k == TemporalRow(Target(p))
           base == req[a].base
           v == CASE RelationOf(p) = "SUPERSEDES" ->
                       [base EXCEPT !.current = FALSE, !.supersededBy = @ \cup {candidate[p]}]
                  [] RelationOf(p) = "CONTRADICTS" ->
                       [base EXCEPT !.conflicts = @ \cup ConflictIds(p)]
                  [] OTHER -> base
           r == [req[a] EXCEPT !.pc = "save"]
<1>1. /\ req[a].pc = "temporalTarget" /\ req[a].pc \in Applying
      /\ UNCHANGED <<note, db, candidate, approved, errors>>
      /\ Put(a, k, v) /\ req' = [req EXCEPT ![a] = r]
  BY DEF PersistTemporalTarget, Goto, Applying
<1>2. /\ req[a] \in Reqs /\ req \in [Requests -> Reqs] /\ MayAct(p) /\ RequestShape(a)
      /\ p \in Plans /\ p # NoPlan /\ c \in Contexts /\ errors' \in 0 .. MaxErrors
      /\ req[a].outcome = "APPLIED" /\ Progress(a)
      /\ PlanOf(p) # <<>> => Target(p) \in Contexts
  BY <1>1, StepFacts
<1>3. /\ Has(p, "CREATE_CONTEXT") => note[c] # NoNote
      /\ Has(p, "CREATE_RELATION") => RelationRow(c, Target(p), RelationOf(p)) \in DOMAIN sess[a]
      /\ Has(p, "CREATE_CONFLICT_SET") => ConflictRow(c) \in DOMAIN sess[a]
  BY <1>1, RecordedFacts
<1>4. /\ Target(p) \in Contexts /\ base \in TemporalRows /\ base.conflicts \subseteq approved
      /\ Has(p, "CREATE_CONTEXT") => TemporalRow(c) \in DOMAIN sess[a]
  BY <1>1, <1>2 DEF RequestShape, Progress
<1>5. ConflictIds(p) \subseteq approved /\ ConflictIds(p) \subseteq Plans
  BY <1>2, PlanFacts
<1>6. v \in TemporalRows /\ v.conflicts \subseteq approved
  <2>1. CASE RelationOf(p) = "SUPERSEDES"
    BY <1>2, <1>4, <2>1 DEF TemporalRows
  <2>2. CASE RelationOf(p) = "CONTRADICTS"
    BY <1>4, <1>5, <2>2 DEF TemporalRows
  <2>3. CASE RelationOf(p) \notin {"SUPERSEDES", "CONTRADICTS"}
    BY <1>4, <2>3
  <2> QED
    BY <2>1, <2>2, <2>3
<1> HIDE DEF v
<1>7. k \in RowKeys /\ v \in RowsOf(k) /\ RowOK(k, v) /\ k[1] # "plan" /\ k[1] # "result"
  BY <1>4, <1>6, TemporalRowFacts
<1>8. r \in Reqs /\ r.plan = p /\ r.pc = "save" /\ r.outcome = "APPLIED"
  BY <1>2 DEF Reqs, Pcs
<1> HIDE DEF r
<1>9. /\ r.pc \in Applying /\ DOMAIN sess[a] \subseteq DOMAIN sess'[a] /\ k \in DOMAIN sess'[a]
  BY <1>1, <1>8, PutFacts DEF Applying
<1>a. NoteStep
  BY <1>1, <1>2, <1>3, <1>4, <1>7, <1>8, <1>9 DEF NoteStep
<1>b. SessStep(a, r)
  BY <1>1, <1>2, <1>3, <1>4, <1>7, <1>8, <1>9 DEF SessStep
<1>c. Shaped(r)
  BY <1>1, <1>2, <1>3, <1>4, <1>7, <1>8, <1>9 DEF Shaped
<1>d. Advanced(a, r, p, c)
  BY <1>1, <1>2, <1>3, <1>4, <1>7, <1>8, <1>9 DEF Advanced
<1> QED
  BY <1>1, <1>2, <1>3, <1>4, <1>7, <1>8, <1>9, <1>a, <1>b, <1>c, <1>d, ApplyStep

LEMMA SaveResultStep ==
    ASSUME ReconInv, NEW a \in Requests, SaveResult(a)
    PROVE  ReconInv'
<1> DEFINE p == req[a].plan
           c == candidate[p]
           k == ResultRow(p)
           v == [status |-> req[a].outcome]
           r == [req[a] EXCEPT !.pc = "commit"]
<1>1. /\ req[a].pc = "save" /\ req[a].pc \in Applying
      /\ UNCHANGED <<note, db, candidate, approved, errors>>
      /\ Put(a, k, v) /\ req' = [req EXCEPT ![a] = r]
  BY DEF SaveResult, Goto, Applying
<1>2. /\ req[a] \in Reqs /\ req \in [Requests -> Reqs] /\ MayAct(p) /\ Progress(a)
      /\ p \in Plans /\ p # NoPlan /\ c \in Contexts /\ errors' \in 0 .. MaxErrors
  BY <1>1, StepFacts
<1>3. k \in RowKeys /\ k[1] = "result" /\ k[2] = p /\ RowsOf(k) = ResultRows
  BY <1>2, PlanKeys, RowTypes
<1>4. v \in RowsOf(k) /\ RowOK(k, v) /\ v.status = req[a].outcome
  BY <1>2, <1>3 DEF Reqs, ResultRows, RowOK
<1>5. r \in Reqs /\ r.plan = p /\ r.pc = "commit" /\ r.outcome = req[a].outcome
  BY <1>2 DEF Reqs, Pcs
<1>6. k = ResultRow(r.plan)
  BY <1>5
<1> HIDE DEF k, v, r
<1>7. DOMAIN sess[a] \subseteq DOMAIN sess'[a]
  BY <1>1, PutFacts
<1>8. r.outcome = "APPLIED" =>
        /\ Has(p, "CREATE_CONTEXT") => note[c] # NoNote /\ TemporalRow(c) \in DOMAIN sess[a]
        /\ Has(p, "CREATE_RELATION") => RelationRow(c, Target(p), RelationOf(p)) \in DOMAIN sess[a]
        /\ Has(p, "CREATE_CONFLICT_SET") => ConflictRow(c) \in DOMAIN sess[a]
        /\ PlanOf(p) # <<>> => TemporalRow(Target(p)) \in DOMAIN sess[a]
  BY <1>1, <1>2, <1>5 DEF Progress, After, Recorded
<1>a. NoteStep
  BY <1>1, <1>2, <1>3, <1>4, <1>5, <1>6, <1>7, <1>8 DEF NoteStep
<1>b. SessStep(a, r)
  BY <1>1, <1>2, <1>3, <1>4, <1>5, <1>6, <1>7, <1>8 DEF SessStep
<1>c. Shaped(r)
  BY <1>1, <1>2, <1>3, <1>4, <1>5, <1>6, <1>7, <1>8 DEF Shaped
<1>d. Advanced(a, r, p, c)
  BY <1>1, <1>2, <1>3, <1>4, <1>5, <1>6, <1>7, <1>8 DEF Advanced
<1> QED
  BY <1>1, <1>2, <1>3, <1>4, <1>5, <1>6, <1>7, <1>8, <1>a, <1>b, <1>c, <1>d, ApplyStep

-----------------------------------------------------------------------------
(* Steps of requests that apply no plan                                    *)

\* What such a request knows; r is the request after the step.
Plain(a, r) ==
    /\ r.plan = NoPlan /\ r.outcome = "APPLIED"
    /\ r.pc \in {"done", "review", "resolve", "scan", "scanPlan", "commit"}
    /\ r.pc = "done" => DOMAIN sess'[a] = {}
    /\ r.pc \in {"review", "resolve"} => r.base \in ConflictRows /\ r.ctx \in Contexts
    /\ r.pc \in {"scan", "scanPlan"} => r.ctx \in Contexts
    /\ r.pc = "scan" /\ r.base # NoRow =>
         r.base \in TemporalRows /\ r.base.conflicts \subseteq approved
    /\ \A p \in Plans : ResultRow(p) \notin DOMAIN sess'[a]

PlainSess(a) ==
    \/ sess' = sess
    \/ sess' = [sess EXCEPT ![a] = Empty]
    \/ \E k \in RowKeys : \E v \in RowsOf(k) :
         Put(a, k, v) /\ RowOK(k, v) /\ (k[1] = "plan" => db[k] = NoRow)

LEMMA PlainShape ==
    ASSUME ReconInv, NEW a \in Requests, NEW r, req' = [req EXCEPT ![a] = r],
           approved \subseteq approved', Plain(a, r)
    PROVE  (RequestShape(a) /\ Progress(a))'
<1>1. req'[a] = r
  BY DEF ReconInv, TypeOK
<1>2. r.pc \notin Applying
  BY DEF Plain, Applying
<1>3. RequestShape(a)'
  BY <1>1, <1>2 DEF RequestShape, Active, Plain, Applying
<1>4. Progress(a)'
  BY <1>1 DEF Progress, Plain
<1> QED
  BY <1>3, <1>4

LEMMA PlainStep ==
    ASSUME ReconInv, NEW a \in Requests, NEW r \in Reqs, req' = [req EXCEPT ![a] = r],
           UNCHANGED <<note, db, candidate>>,
           approved \subseteq approved', approved' \subseteq Plans, errors' \in 0 .. MaxErrors,
           PlainSess(a), Plain(a, r)
    PROVE  ReconInv'
<1>1. (RequestShape(a) /\ Progress(a))'
  BY PlainShape
<1> QED
  BY <1>1, RequestStep DEF PlainSess

\* What is known of a request before it starts, and of one that may do no apply.
LEMMA IdleFacts ==
    ASSUME ReconInv, NEW a \in Requests
    PROVE  /\ req \in [Requests -> Reqs] /\ req[a] \in Reqs /\ DOMAIN sess = Requests
           /\ approved \subseteq Plans /\ errors \in 0 .. MaxErrors /\ RequestShape(a)
           /\ ~Active(a) => DOMAIN sess[a] = {}
           /\ req[a].pc # "commit" => \A p \in Plans : ResultRow(p) \notin DOMAIN sess[a]
           /\ req[a].pc \in {"review", "resolve", "scan", "scanPlan"} =>
                req[a].plan = NoPlan /\ req[a].outcome = "APPLIED" /\ req[a].ctx \in Contexts
<1>1. /\ req \in [Requests -> Reqs] /\ req[a] \in Reqs /\ DOMAIN sess = Requests
      /\ approved \subseteq Plans /\ errors \in 0 .. MaxErrors /\ RequestShape(a)
  BY DEF ReconInv, TypeOK, RequestsOK
<1> QED
  BY <1>1 DEF RequestShape, Applying

LEMMA DoneStep ==
    ASSUME ReconInv, NEW a \in Requests, Done(a), UNCHANGED <<note, db, candidate>>,
           approved \subseteq approved', approved' \subseteq Plans, errors' \in 0 .. MaxErrors,
           \/ sess' = sess /\ ~Active(a)
           \/ sess' = [sess EXCEPT ![a] = Empty]
    PROVE  ReconInv'
<1> DEFINE r == [Idle EXCEPT !.pc = "done"]
<1>1. req' = [req EXCEPT ![a] = r]
  BY DEF Done
<1>2. r \in Reqs /\ r.pc = "done" /\ r.plan = NoPlan /\ r.outcome = "APPLIED"
  BY DEF Idle, Reqs, Pcs
<1> HIDE DEF r
<1>3. DOMAIN sess'[a] = {}
  BY IdleFacts DEF Empty
<1>4. Plain(a, r)
  BY <1>2, <1>3 DEF Plain
<1> QED
  BY <1>1, <1>2, <1>4, PlainStep DEF PlainSess

LEMMA DatabaseErrorStep ==
    ASSUME ReconInv, NEW a \in Requests, DatabaseError(a)
    PROVE  ReconInv'
<1>1. errors' \in 0 .. MaxErrors
  BY IdleFacts, ReconciliationAssumption DEF DatabaseError
<1> QED
  BY <1>1, IdleFacts, DoneStep DEF DatabaseError

LEMMA BeginStep ==
    ASSUME ReconInv, NEW a \in Requests, NEW p \in Plans, NEW retry, NEW approve,
           Begin(a, p, retry, approve)
    PROVE  ReconInv'
<1> DEFINE r == [Idle EXCEPT !.pc = "create", !.plan = p]
<1>1. /\ UNCHANGED <<note, db, sess, candidate, errors>> /\ ~Active(a) /\ PlanOf(p) # NoRow
      /\ approved \subseteq approved' /\ approved' \subseteq Plans
      /\ errors' \in 0 .. MaxErrors
  BY IdleFacts DEF Begin, MayStart, Active
<1>2. CASE Done(a)
  BY <1>1, <1>2, DoneStep
<1>3. CASE /\ req' = [req EXCEPT ![a] = r] /\ ~Unapproved(p, approve)
           /\ approve => p \in approved'
  <2>1. /\ r \in Reqs /\ r.pc = "create" /\ r.plan = p /\ r.outcome = "APPLIED"
    BY DEF Idle, Reqs, Pcs
  <2>2. req'[a] = r
    BY <1>3, IdleFacts
  <2> HIDE DEF r
  <2>3. PlanOf(p)' = PlanOf(p)
    BY <1>1 DEF PlanOf
  <2>4. RelationOf(p)' = RelationOf(p)
    BY <2>3, PlanStable
  <2>5. MayAct(p)' /\ p # NoPlan
    BY <1>1, <1>3, <2>3, <2>4, ReconciliationAssumption DEF MayAct, Unapproved
  <2>6. \A q \in Plans : ResultRow(q) \notin DOMAIN sess'[a]
    BY <1>1, IdleFacts
  <2>7. RequestShape(a)'
    BY <2>1, <2>2, <2>5, <2>6 DEF RequestShape, Active, Applying
  <2>8. Progress(a)'
    BY <2>1, <2>2 DEF Progress, After, Recorded
  <2> QED
    BY <1>1, <1>3, <2>1, <2>7, <2>8, RequestStep
<1> QED
  <2>1. Done(a) \/ (/\ req' = [req EXCEPT ![a] = r] /\ ~Unapproved(p, approve)
                    /\ approve => p \in approved')
    BY DEF Begin
  <2> QED
    BY <2>1, <1>2, <1>3

LEMMA ConflictReadStep ==
    ASSUME ReconInv, NEW a \in Requests, NEW kind, NEW c \in Contexts, ConflictRead(a, kind, c)
    PROVE  ReconInv'
<1> DEFINE row == db[ConflictRow(c)]
           r == [Idle EXCEPT !.pc = kind, !.ctx = c, !.base = row]
<1>1. /\ UNCHANGED <<note, db, sess, candidate, approved, errors>> /\ ~Active(a)
      /\ kind \in {"review", "resolve"} /\ row # NoRow /\ req' = [req EXCEPT ![a] = r]
  BY DEF ConflictRead, MayStart, Active
<1>2. row \in ConflictRows
  <2>1. ConflictRow(c) \in RowKeys /\ RowsOf(ConflictRow(c)) = ConflictRows
    BY ContextKeys, RowTypes
  <2> QED
    BY <1>1, <2>1 DEF ReconInv, TypeOK
<1> HIDE DEF row
<1>3. /\ r \in Reqs /\ r.pc = kind /\ r.plan = NoPlan /\ r.outcome = "APPLIED"
      /\ r.base = row /\ r.ctx = c
  BY <1>1, <1>2 DEF Idle, Reqs, Pcs
<1> HIDE DEF r
<1>4. Plain(a, r)
  BY <1>1, <1>2, <1>3, IdleFacts DEF Plain
<1> QED
  BY <1>1, <1>3, <1>4, IdleFacts, PlainStep DEF PlainSess

\* A request that goes on with its next step.
LEMMA GoneOn ==
    ASSUME NEW q \in Reqs, NEW pc \in Pcs, NEW r, r = [q EXCEPT !.pc = pc]
    PROVE  r \in Reqs /\ r.pc = pc /\ r.plan = q.plan /\ r.outcome = q.outcome /\ r.ctx = q.ctx
BY DEF Reqs

LEMMA ConflictWriteStep ==
    ASSUME ReconInv, NEW a \in Requests, ConflictWrite(a)
    PROVE  ReconInv'
<1> DEFINE k == ConflictRow(req[a].ctx)
           v == [req[a].base EXCEPT !.status =
                   IF req[a].pc = "review" THEN "REVIEWING" ELSE "RESOLVED"]
           r == [req[a] EXCEPT !.pc = "commit"]
<1>1. /\ UNCHANGED <<note, db, candidate, approved, errors>> /\ Put(a, k, v)
      /\ req[a].pc \in {"review", "resolve"} /\ req' = [req EXCEPT ![a] = r]
  BY DEF ConflictWrite, Goto
<1>2. req[a].base \in ConflictRows /\ req[a].ctx \in Contexts
  BY <1>1, IdleFacts DEF RequestShape
<1>3. v \in ConflictRows
  BY <1>2 DEF ConflictRows
<1> HIDE DEF v
<1>4. k \in RowKeys /\ v \in RowsOf(k) /\ RowOK(k, v) /\ k[1] = "conflict"
  <2>1. k \in RowKeys /\ k[1] = "conflict" /\ RowsOf(k) = ConflictRows
    BY <1>2, ContextKeys, RowTypes
  <2> QED
    BY <1>3, <2>1 DEF RowOK
<1> HIDE DEF k
<1>5. r \in Reqs /\ r.pc = "commit" /\ r.plan = NoPlan /\ r.outcome = "APPLIED"
  <2>1. req[a] \in Reqs /\ req[a].plan = NoPlan /\ req[a].outcome = "APPLIED"
    BY <1>1, IdleFacts
  <2>2. "commit" \in Pcs
    BY DEF Pcs
  <2> QED
    BY <2>1, <2>2, GoneOn
<1> HIDE DEF r
<1>6. \A p \in Plans : ResultRow(p) \notin DOMAIN sess'[a]
  BY <1>1, <1>4, IdleFacts, PutFacts, PlanKeys
<1>7. Plain(a, r)
  BY <1>5, <1>6 DEF Plain
<1>8. PlainSess(a)
  BY <1>1, <1>4 DEF PlainSess
<1> QED
  BY <1>1, <1>5, <1>7, <1>8, IdleFacts, PlainStep

LEMMA ScanReadStep ==
    ASSUME ReconInv, NEW a \in Requests, NEW c \in Contexts, ScanRead(a, c)
    PROVE  ReconInv'
<1> DEFINE base == IF db[TemporalRow(c)] = NoRow THEN Backfill(c) ELSE NoRow
           r == [Idle EXCEPT !.pc = "scan", !.ctx = c, !.base = base]
<1>1. /\ UNCHANGED <<note, db, sess, candidate, approved, errors>> /\ ~Active(a)
      /\ db[IndexRow(c)] # NoRow /\ req' = [req EXCEPT ![a] = r]
  BY DEF ScanRead, MayStart, Active
<1>2. /\ IndexRow(c) \in RowKeys /\ IndexRow(c)[1] = "index" /\ IndexRow(c)[2] = c
      /\ RowsOf(IndexRow(c)) = IndexRows
  BY ContextKeys, RowTypes
<1>3. db[IndexRow(c)] \in IndexRows /\ note[c] # NoNote
  BY <1>1, <1>2 DEF ReconInv, TypeOK, RowsOK, RowOK
<1>4. note[c] \in Notes /\ note[c].conflicts \subseteq approved
  BY <1>3 DEF ReconInv, NotesOK, NoteOK
<1>5. Backfill(c) \in TemporalRows /\ Backfill(c).conflicts \subseteq approved
  BY <1>3, <1>4 DEF Backfill, Overlay, TemporalRows, IndexRows, Notes
<1>6. base # NoRow => base \in TemporalRows /\ base.conflicts \subseteq approved
  BY <1>5
<1> HIDE DEF base
<1>7. /\ r \in Reqs /\ r.pc = "scan" /\ r.plan = NoPlan /\ r.outcome = "APPLIED"
      /\ r.base = base /\ r.ctx = c
  BY <1>6 DEF Idle, Reqs, Pcs
<1> HIDE DEF r
<1>8. Plain(a, r)
  BY <1>1, <1>6, <1>7, IdleFacts DEF Plain
<1> QED
  BY <1>1, <1>7, <1>8, IdleFacts, PlainStep DEF PlainSess

LEMMA ScanBackfillStep ==
    ASSUME ReconInv, NEW a \in Requests, ScanBackfill(a)
    PROVE  ReconInv'
<1> DEFINE k == TemporalRow(req[a].ctx)
           v == req[a].base
           r == [req[a] EXCEPT !.pc = "scanPlan"]
<1>1. /\ UNCHANGED <<note, db, candidate, approved, errors>>
      /\ req[a].pc = "scan" /\ req' = [req EXCEPT ![a] = r]
      /\ (v # NoRow /\ Put(a, k, v)) \/ sess' = sess
  BY DEF ScanBackfill, Goto
<1>2. /\ req[a].ctx \in Contexts
      /\ v # NoRow => v \in TemporalRows /\ v.conflicts \subseteq approved
  BY <1>1, IdleFacts DEF RequestShape
<1>3. v # NoRow =>
        k \in RowKeys /\ v \in RowsOf(k) /\ RowOK(k, v) /\ k[1] # "plan" /\ k[1] # "result"
  BY <1>2, TemporalRowFacts
<1>4. r \in Reqs /\ r.pc = "scanPlan" /\ r.plan = NoPlan /\ r.outcome = "APPLIED"
      /\ r.ctx = req[a].ctx
  <2>1. req[a] \in Reqs /\ req[a].plan = NoPlan /\ req[a].outcome = "APPLIED"
    BY <1>1, IdleFacts
  <2>2. "scanPlan" \in Pcs
    BY DEF Pcs
  <2> QED
    BY <2>1, <2>2, GoneOn
<1> HIDE DEF k, v, r
<1>5. \A p \in Plans : ResultRow(p) \notin DOMAIN sess'[a]
  BY <1>1, <1>3, IdleFacts, PutFacts, PlanKeys
<1>6. Plain(a, r)
  BY <1>2, <1>4, <1>5 DEF Plain
<1>7. PlainSess(a)
  BY <1>1, <1>3 DEF PlainSess
<1> QED
  BY <1>1, <1>4, <1>6, <1>7, IdleFacts, PlainStep

\* The Contexts that recall finds have notes.
LEMMA PlanRowFacts ==
    ASSUME ReconInv, NEW p \in Plans, NEW ds \in DecisionLists, Recalled(ds),
           NEW k, k = PlanRow(p)
    PROVE  k \in RowKeys /\ ds \in RowsOf(k) /\ RowOK(k, ds) /\ k[1] = "plan"
<1>1. k \in RowKeys /\ k[1] = "plan" /\ RowsOf(k) = Seq(Decisions)
  BY PlanKeys, RowTypes
<1>2. ds \in Seq(Decisions)
  BY ReconciliationAssumption
<1>3. ASSUME NEW i \in DOMAIN ds
      PROVE  note[ds[i].context] # NoNote
  <2> DEFINE c == ds[i].context
  <2>1. c \in Contexts
    BY <1>2, DecisionType
  <2>2. IndexRow(c) \in RowKeys /\ IndexRow(c)[1] = "index" /\ IndexRow(c)[2] = c
    BY <2>1, ContextKeys
  <2>3. db[IndexRow(c)] # NoRow
    BY DEF Recalled
  <2> QED
    BY <2>2, <2>3 DEF ReconInv, RowsOK, RowOK
<1> QED
  BY <1>1, <1>2, <1>3 DEF RowOK

LEMMA ScanPlanStep ==
    ASSUME ReconInv, NEW a \in Requests, ScanPlan(a)
    PROVE  ReconInv'
<1> DEFINE r == [req[a] EXCEPT !.pc = "commit"]
<1>1. /\ UNCHANGED <<note, db, candidate, approved, errors>>
      /\ req[a].pc = "scanPlan" /\ req' = [req EXCEPT ![a] = r]
  BY DEF ScanPlan, Goto
<1>2. r \in Reqs /\ r.pc = "commit" /\ r.plan = NoPlan /\ r.outcome = "APPLIED"
  <2>1. req[a] \in Reqs /\ req[a].plan = NoPlan /\ req[a].outcome = "APPLIED"
    BY <1>1, IdleFacts
  <2>2. "commit" \in Pcs
    BY DEF Pcs
  <2> QED
    BY <2>1, <2>2, GoneOn
<1> HIDE DEF r
<1>3. CASE sess' = sess
  <2>1. Plain(a, r)
    BY <1>1, <1>2, <1>3, IdleFacts DEF Plain
  <2> QED
    BY <1>1, <1>2, <1>3, <2>1, IdleFacts, PlainStep DEF PlainSess
<1>4. ASSUME NEW p \in Plans, NEW ds \in DecisionLists, Recalled(ds),
             View(a, PlanRow(p)) = NoRow, Put(a, PlanRow(p), ds)
      PROVE  ReconInv'
  <2> DEFINE k == PlanRow(p)
  <2>1. k \in RowKeys /\ ds \in RowsOf(k) /\ RowOK(k, ds) /\ k[1] = "plan"
    BY <1>4, PlanRowFacts
  <2>2. db[k] = NoRow
    <3>1. k \notin DOMAIN sess[a]
      BY <1>4, <2>1, RowsAreRows DEF View, ReconInv, TypeOK
    <3> QED
      BY <1>4, <3>1 DEF View
  <2> HIDE DEF k
  <2>3. \A q \in Plans : ResultRow(q) \notin DOMAIN sess'[a]
    BY <1>1, <1>4, <2>1, IdleFacts, PutFacts, PlanKeys DEF k
  <2>4. Plain(a, r)
    BY <1>2, <2>3 DEF Plain
  <2>5. PlainSess(a)
    BY <1>4, <2>1, <2>2 DEF PlainSess, k
  <2> QED
    BY <1>1, <1>2, <2>4, <2>5, IdleFacts, PlainStep
<1> QED
  BY <1>3, <1>4 DEF ScanPlan

-----------------------------------------------------------------------------
(* Steps that change the tables                                            *)

\* Rows are added or replaced, stored plans are not.
TableStep ==
    /\ UNCHANGED <<note, candidate, approved, errors>>
    /\ DOMAIN db' = RowKeys
    /\ \A k \in RowKeys : db'[k] = db[k] \/ (db'[k] \in RowsOf(k) /\ RowOK(k, db'[k]))
    /\ \A p \in Plans : PlanOf(p) # NoRow => PlanOf(p)' = PlanOf(p)
    /\ req' \in [Requests -> Reqs] /\ DOMAIN sess' = Requests
    /\ \A b \in Requests : \/ req'[b] = req[b] /\ sess'[b] = sess[b]
                           \/ req'[b] = [Idle EXCEPT !.pc = "done"] /\ sess'[b] = Empty
    /\ \A b \in Requests, p \in Plans : PlanRow(p) \in DOMAIN sess'[b] => db'[PlanRow(p)] = NoRow

LEMMA RowsStay ==
    ASSUME ReconInv, TableStep, NEW k \in RowKeys, db[k] # NoRow
    PROVE  db'[k] # NoRow
BY RowsAreRows DEF TableStep

\* What a result that stays is backed by stays as well.
LEMMA BackedStays ==
    ASSUME ReconInv, TableStep, NEW p \in Plans, Applied(p)
    PROVE  ResultBacked(p)'
<1> DEFINE c == candidate[p]
<1>1. ResultRow(p) \in RowKeys /\ ResultRow(p)[1] = "result" /\ ResultRow(p)[2] = p
  BY PlanKeys
<1>2. MayAct(p) /\ ResultBacked(p)
  BY <1>1 DEF Applied, Row, ReconInv, RowsOK, RowOK, AppliedBacked
<1>3. /\ PlanOf(p) # NoRow /\ RelationOf(p) \in Relations /\ c \in Contexts
      /\ PlanOf(p) # <<>> => Target(p) \in Contexts
      /\ RelationOf(p) # "UNRELATED" => PlanOf(p) # <<>>
  BY <1>2, PlanFacts
<1>4. PlanOf(p)' = PlanOf(p) /\ c' = c /\ note' = note
  BY <1>3 DEF TableStep
<1>5. /\ RelationOf(p)' = RelationOf(p) /\ Target(p)' = Target(p)
      /\ \A x : Has(p, x)' <=> Has(p, x)
  BY <1>4, PlanStable
<1>6. Has(p, "CREATE_RELATION") => RelationRow(c, Target(p), RelationOf(p)) \in RowKeys
  BY <1>3, ActionFacts, RelationKeys DEF Has
<1>7. /\ TemporalRow(c) \in RowKeys /\ ConflictRow(c) \in RowKeys
      /\ PlanOf(p) # <<>> => TemporalRow(Target(p)) \in RowKeys
  BY <1>3, ContextKeys
<1>9. \A k \in RowKeys : db[k] # NoRow => db'[k] # NoRow
  BY RowsStay
<1>10. (Has(p, "CREATE_CONTEXT") => /\ note[c] # NoNote
                                   /\ db[TemporalRow(c)] # NoRow)
       /\ (Has(p, "CREATE_RELATION") => db[RelationRow(c, Target(p), RelationOf(p))] # NoRow)
       /\ (Has(p, "CREATE_CONFLICT_SET") => db[ConflictRow(c)] # NoRow)
       /\ (PlanOf(p) # <<>> => db[TemporalRow(Target(p))] # NoRow)
  BY <1>2 DEF ResultBacked, Row
<1> QED
  BY <1>4, <1>5, <1>6, <1>7, <1>9, <1>10 DEF ResultBacked, Row

LEMMA TablesInv ==
    ASSUME ReconInv, TableStep, \A p \in Plans : Applied(p)' => Applied(p) \/ ResultBacked(p)'
    PROVE  ReconInv'
<1>1. /\ \A p \in Plans : MayAct(p) => MayAct(p)'
      /\ \A n : NoteOK(n) => NoteOK(n)'
      /\ \A k \in RowKeys : \A v \in RowsOf(k) : RowOK(k, v) => RowOK(k, v)'
  BY Monotone DEF TableStep
<1>2. TypeOK'
  <2>1. \A k \in RowKeys : db'[k] \in RowsOf(k) \cup {NoRow}
    BY DEF ReconInv, TypeOK, TableStep
  <2>2. \A b \in Requests : /\ DOMAIN sess'[b] \subseteq RowKeys
                            /\ \A k \in DOMAIN sess'[b] : sess'[b][k] \in RowsOf(k)
    BY DEF ReconInv, TypeOK, TableStep, Empty
  <2> QED
    BY <2>1, <2>2 DEF ReconInv, TypeOK, TableStep
<1>3. NotesOK'
  BY <1>1 DEF ReconInv, NotesOK, TableStep
<1>4. RowsOK'
  <2>1. \A k \in RowKeys : db'[k] # NoRow => db'[k] \in RowsOf(k) /\ RowOK(k, db'[k])
    BY DEF ReconInv, RowsOK, TypeOK, TableStep
  <2>2. \A b \in Requests : \A k \in DOMAIN sess'[b] :
          k \in RowKeys /\ sess'[b][k] \in RowsOf(k) /\ RowOK(k, sess'[b][k])
    BY DEF ReconInv, RowsOK, TypeOK, TableStep, Empty
  <2> QED
    BY <1>1, <2>1, <2>2 DEF RowsOK
<1>5. LocksHeld'
  BY DEF ReconInv, LocksHeld, TableStep, Empty
<1>6. ASSUME NEW b \in Requests
      PROVE  (RequestShape(b) /\ Progress(b))'
  <2>1. CASE req'[b] = req[b] /\ sess'[b] = sess[b]
    BY <2>1, OtherRequest DEF TableStep
  <2>2. CASE req'[b] = [Idle EXCEPT !.pc = "done"] /\ sess'[b] = Empty
    <3>1. /\ req'[b].pc = "done" /\ req'[b].plan = NoPlan /\ req'[b].outcome = "APPLIED"
          /\ DOMAIN sess'[b] = {}
      BY <2>2 DEF Idle, Empty
    <3> QED
      BY <3>1 DEF RequestShape, Progress, Active, Applying
  <2> QED
    BY <2>1, <2>2 DEF TableStep
<1>7. AppliedBacked'
  BY BackedStays DEF AppliedBacked
<1> QED
  BY <1>2, <1>3, <1>4, <1>5, <1>6, <1>7 DEF ReconInv, RequestsOK

LEMMA PreviewStep ==
    ASSUME ReconInv, NEW p \in Plans, NEW ds \in DecisionLists, Preview(p, ds)
    PROVE  ReconInv'
<1> DEFINE k == PlanRow(p)
<1>1. /\ UNCHANGED <<note, sess, req, candidate, approved, errors>> /\ Recalled(ds)
      /\ db[k] = NoRow /\ db' = [db EXCEPT ![k] = ds]
      /\ \A a \in Requests : k \notin DOMAIN sess[a]
  BY DEF Preview
<1>2. k \in RowKeys /\ ds \in RowsOf(k) /\ RowOK(k, ds) /\ k[1] = "plan"
  BY <1>1, PlanRowFacts
<1>3. /\ DOMAIN db = RowKeys /\ req \in [Requests -> Reqs] /\ DOMAIN sess = Requests
      /\ \A b \in Requests, q \in Plans : PlanRow(q) \in DOMAIN sess[b] => db[PlanRow(q)] = NoRow
  BY DEF ReconInv, TypeOK, LocksHeld
<1>4. \A q \in Plans : PlanOf(q) = db[PlanRow(q)] /\ PlanOf(q)' = db'[PlanRow(q)]
                       /\ PlanRow(q) \in RowKeys
  BY PlanKeys DEF PlanOf, PlanRow
<1> HIDE DEF k
<1>5. TableStep
  BY <1>1, <1>2, <1>3, <1>4 DEF TableStep
<1>6. \A q \in Plans : Applied(q)' => Applied(q)
  <2>1. \A q \in Plans : ResultRow(q) \in RowKeys /\ ResultRow(q) # k
    BY <1>2, PlanKeys
  <2> QED
    BY <1>1, <1>3, <2>1 DEF Applied, Row, ResultRow
<1> QED
  BY <1>5, <1>6, TablesInv

LEMMA CommitStep ==
    ASSUME ReconInv, NEW a \in Requests, Commit(a)
    PROVE  ReconInv'
<1> DEFINE s == sess[a]
           r == [Idle EXCEPT !.pc = "done"]
<1>1. /\ UNCHANGED <<note, candidate, approved, errors>> /\ req[a].pc = "commit"
      /\ db' = Over(s, db) /\ sess' = [sess EXCEPT ![a] = Empty] /\ req' = [req EXCEPT ![a] = r]
  BY DEF Commit, Done
<1>2. /\ DOMAIN db = RowKeys /\ req \in [Requests -> Reqs] /\ DOMAIN sess = Requests
      /\ DOMAIN s \subseteq RowKeys
      /\ \A k \in DOMAIN s : s[k] \in RowsOf(k) /\ RowOK(k, s[k])
  BY DEF ReconInv, TypeOK, RowsOK
<1>3. DOMAIN db' = RowKeys /\ \A k \in RowKeys : db'[k] = IF k \in DOMAIN s THEN s[k] ELSE db[k]
  BY <1>1, <1>2 DEF Over
<1>4. r \in Reqs
  BY DEF Idle, Reqs, Pcs
<1>5. \A q \in Plans : PlanOf(q) = db[PlanRow(q)] /\ PlanOf(q)' = db'[PlanRow(q)]
                       /\ PlanRow(q) \in RowKeys
  BY PlanKeys DEF PlanOf, PlanRow
<1>6. /\ \A q \in Plans : PlanRow(q) \in DOMAIN s => db[PlanRow(q)] = NoRow
      /\ \A b \in Requests : b # a => DOMAIN sess[b] \cap DOMAIN s = {}
      /\ \A b \in Requests, q \in Plans : PlanRow(q) \in DOMAIN sess[b] => db[PlanRow(q)] = NoRow
  BY DEF ReconInv, LocksHeld
<1>7. TableStep
  <2>1. /\ DOMAIN sess' = Requests /\ sess'[a] = Empty /\ DOMAIN Empty = {} /\ req'[a] = r
        /\ req' \in [Requests -> Reqs]
        /\ \A b \in Requests : b # a => sess'[b] = sess[b] /\ req'[b] = req[b]
    BY <1>1, <1>2, <1>4 DEF Empty
  <2>2. \A k \in RowKeys : db'[k] = db[k] \/ (db'[k] \in RowsOf(k) /\ RowOK(k, db'[k]))
    BY <1>2, <1>3
  <2>3. \A q \in Plans : PlanOf(q) # NoRow => PlanOf(q)' = PlanOf(q)
    BY <1>3, <1>5, <1>6
  <2>4. \A b \in Requests, q \in Plans : PlanRow(q) \in DOMAIN sess'[b] => db'[PlanRow(q)] = NoRow
    BY <1>3, <1>5, <1>6, <2>1
  <2> QED
    BY <1>1, <1>3, <2>1, <2>2, <2>3, <2>4 DEF TableStep
<1>8. ASSUME NEW p \in Plans, Applied(p)', ~Applied(p)
      PROVE  ResultBacked(p)'
  <2> DEFINE k == ResultRow(p)
             c == candidate[p]
             t == Target(p)
  <2>1. k \in RowKeys /\ k[1] = "result" /\ k[2] = p
    BY PlanKeys
  <2>2. k \in DOMAIN s /\ s[k].status = "APPLIED"
    BY <1>3, <1>8, <2>1 DEF Applied, Row, ResultRow
  <2>3. RequestShape(a) /\ Progress(a)
    BY DEF ReconInv, RequestsOK
  <2>4. req[a].plan = p /\ req[a].outcome = "APPLIED"
    BY <2>2, <2>3 DEF RequestShape
  <2>5. p # NoPlan /\ MayAct(p)
    BY <2>3, <2>4, ReconciliationAssumption DEF RequestShape
  <2>6. /\ Has(p, "CREATE_CONTEXT") => note[c] # NoNote /\ TemporalRow(c) \in DOMAIN s
        /\ Has(p, "CREATE_RELATION") => RelationRow(c, t, RelationOf(p)) \in DOMAIN s
        /\ Has(p, "CREATE_CONFLICT_SET") => ConflictRow(c) \in DOMAIN s
        /\ PlanOf(p) # <<>> => TemporalRow(t) \in DOMAIN s
    BY <1>1, <2>3, <2>4, <2>5 DEF Progress, After, Recorded
  <2>7. PlanOf(p)' = PlanOf(p)
    BY <1>7, <2>5 DEF TableStep, MayAct
  <2>8. /\ RelationOf(p)' = RelationOf(p) /\ Target(p)' = Target(p)
        /\ \A x : Has(p, x)' <=> Has(p, x)
    BY <2>7, PlanStable
  <2>9. \A x \in DOMAIN s : db'[x] # NoRow
    BY <1>2, <1>3, RowsAreRows
  <2> QED
    BY <1>1, <2>6, <2>7, <2>8, <2>9
       DEF ResultBacked, Row, TemporalRow, RelationRow, ConflictRow
<1> QED
  BY <1>7, <1>8, TablesInv

-----------------------------------------------------------------------------
(* The theorems                                                            *)

LEMMA InitInv == Init => ReconInv
<1> SUFFICES ASSUME Init PROVE ReconInv
  OBVIOUS
<1>1. /\ DOMAIN db = RowKeys
      /\ \A k \in RowKeys : db[k] # NoRow => \E c \in Existing : k = IndexRow(c) /\ db[k] = [by |-> NoNote]
  BY DEF Init
<1>2. ASSUME NEW k \in RowKeys, db[k] # NoRow
      PROVE  /\ k[1] = "index" /\ k[2] \in Existing /\ db[k] \in RowsOf(k)
  <2>1. PICK c \in Existing : k = IndexRow(c) /\ db[k] = [by |-> NoNote]
    BY <1>1, <1>2
  <2>2. c \in Contexts
    BY ReconciliationAssumption
  <2>3. k[1] = "index" /\ k[2] = c /\ RowsOf(k) = IndexRows
    BY <2>1, <2>2, ContextKeys, RowTypes
  <2> QED
    BY <2>1, <2>3 DEF IndexRows
<1>3. Fresh \in Notes /\ Fresh # NoNote /\ Fresh.conflicts = {} /\ Fresh.supersededBy = NoNote
  BY ReconciliationAssumption DEF Fresh, NoteOf, Notes
<1> DEFINE r == [Idle EXCEPT !.pc = "done"]
<1>4. /\ Idle \in Reqs /\ Idle.pc = "idle" /\ Idle.plan = NoPlan /\ Idle.outcome = "APPLIED"
      /\ r \in Reqs /\ r.pc = "done" /\ r.plan = NoPlan /\ r.outcome = "APPLIED"
  BY DEF Idle, Reqs, Pcs
<1> HIDE DEF r
<1>5. /\ req \in [Requests -> Reqs]
      /\ \A a \in Requests : req[a] = Idle \/ req[a] = r
  BY <1>4 DEF Init, r
<1>6. DOMAIN sess = Requests /\ \A a \in Requests : DOMAIN sess[a] = {}
  BY DEF Init, Empty
<1>7. TypeOK
  <2>1. note \in [Contexts -> Notes \cup {NoNote}]
    BY <1>3 DEF Init
  <2>2. candidate \in [Plans -> Contexts] /\ approved = {} /\ errors \in 0 .. MaxErrors
    BY ReconciliationAssumption DEF Init
  <2> QED
    BY <1>1, <1>2, <1>5, <1>6, <2>1, <2>2 DEF TypeOK
<1>8. NotesOK
  <2>1. \A c \in Contexts : note[c] = IF c \in Existing THEN Fresh ELSE NoNote
    BY DEF Init
  <2> QED
    BY <1>3, <2>1 DEF NotesOK, NoteOK
<1>9. RowsOK
  <2>1. \A c \in Existing : note[c] # NoNote
    BY <1>3, ReconciliationAssumption DEF Init
  <2> QED
    BY <1>2, <1>6, <2>1 DEF RowsOK, RowOK
<1>10. LocksHeld
  BY <1>6 DEF LocksHeld
<1>11. RequestsOK
  BY <1>4, <1>5, <1>6 DEF RequestsOK, RequestShape, Progress, Active, Applying
<1>12. AppliedBacked
  <2>1. \A p \in Plans : db[ResultRow(p)] = NoRow
    BY <1>2, PlanKeys
  <2> QED
    BY <2>1 DEF AppliedBacked, Applied, Row
<1> QED
  BY <1>7, <1>8, <1>9, <1>10, <1>11, <1>12 DEF ReconInv

LEMMA StutterInv ==
    ASSUME ReconInv, UNCHANGED vars
    PROVE  ReconInv'
<1> USE DEF vars
<1>1. UNCHANGED <<note, db, sess, req, candidate, approved, errors>>
  OBVIOUS
<1>2. \A p : PlanOf(p)' = PlanOf(p)
  BY <1>1 DEF PlanOf
<1>3. TableStep
  BY <1>1, <1>2 DEF TableStep, ReconInv, TypeOK, LocksHeld
<1>4. \A p \in Plans : Applied(p)' => Applied(p)
  BY <1>1 DEF Applied, Row, ResultRow
<1> QED
  BY <1>3, <1>4, TablesInv

LEMMA NextInv == ReconInv /\ [Next]_vars => ReconInv'
<1> SUFFICES ASSUME ReconInv, [Next]_vars PROVE ReconInv'
  OBVIOUS
<1>1. CASE UNCHANGED vars
  BY <1>1, StutterInv
<1>2. ASSUME NEW p \in Plans, NEW ds \in DecisionLists, Preview(p, ds)
      PROVE  ReconInv'
  BY <1>2, PreviewStep
<1>3. ASSUME NEW a \in Requests, NEW p \in Plans, NEW retry \in BOOLEAN, NEW approve \in BOOLEAN,
             Begin(a, p, retry, approve)
      PROVE  ReconInv'
  BY <1>3, BeginStep
<1>4. ASSUME NEW a \in Requests, NEW kind \in {"review", "resolve"}, NEW c \in Contexts,
             ConflictRead(a, kind, c)
      PROVE  ReconInv'
  BY <1>4, ConflictReadStep
<1>5. ASSUME NEW a \in Requests, NEW c \in Contexts, ScanRead(a, c)
      PROVE  ReconInv'
  BY <1>5, ScanReadStep
<1>6. ASSUME NEW a \in Requests, Step(a)
      PROVE  ReconInv'
  BY <1>6, CreateFileStep, CreateIndexStep, MarkStep, MarkIndexStep, MergeReadStep,
     MergeWriteStep, MergeIndexStep, PersistRelationStep, PersistConflictStep, SupersedeStep,
     ReplacementIndexStep, PersistTemporalStep, PersistTemporalTargetStep, SaveResultStep,
     ConflictWriteStep, ScanBackfillStep, ScanPlanStep, CommitStep DEF Step
<1>7. ASSUME NEW a \in Requests, GatewayError(a)
      PROVE  ReconInv'
  BY <1>7, GatewayErrorStep
<1>8. ASSUME NEW a \in Requests, DatabaseError(a)
      PROVE  ReconInv'
  BY <1>8, DatabaseErrorStep
<1> QED
  BY <1>1, <1>2, <1>3, <1>4, <1>5, <1>6, <1>7, <1>8 DEF Next

\* ReconInv holds in every reachable state: the notes, the committed and the
\* uncommitted rows and what each request knows agree at every await.
THEOREM ReconInvariant == Spec => []ReconInv
<1> QED
  BY InitInv, NextInv, PTL DEF Spec

\* Notes, tables, sessions and requests keep their types, in particular a
\* session never holds a row of the wrong table.
THEOREM ReconTypeOK == Spec => []TypeOK
<1>1. ReconInv => TypeOK
  BY DEF ReconInv
<1> QED
  BY <1>1, ReconInvariant, PTL

\* An APPLIED result is never committed without the relation, the conflict set
\* and the temporal rows of its plan and the note of its candidate, however
\* many requests overlap, fail or die (_apply_plan, save_result and the commit).
THEOREM ReconAppliedBacked == Spec => []AppliedBacked
<1>1. ReconInv => AppliedBacked
  BY DEF ReconInv
<1> QED
  BY <1>1, ReconInvariant, PTL

\* A plan that requires review leaves no trace of its own in the vault or in
\* the tables before a Steward has approved it (_validated_reviewer).
THEOREM ReconReviewGate == Spec => []ReviewGate
<1>1. ASSUME ReconInv, NEW p \in Plans \ approved, PlanOf(p) # NoRow,
             RequiresReview(RelationOf(p))
      PROVE  /\ Row(ResultRow(p)) = NoRow
             /\ \A c \in Contexts : Row(TemporalRow(c)) # NoRow =>
                  p \notin Row(TemporalRow(c)).conflicts
             /\ Own(p) /\ candidate[p] \notin Existing => note[candidate[p]] = NoNote
             /\ Own(p) /\ PlanOf(p) # <<>> => note[Target(p)].supersededBy # candidate[p]
  <2> USE <1>1
  <2>1. ~MayAct(p) /\ candidate[p] \in Contexts /\ approved \subseteq Plans
    BY DEF MayAct, ReconInv, TypeOK
  <2>2. Row(ResultRow(p)) = NoRow
    BY <2>1, PlanKeys DEF Row, ReconInv, RowsOK, RowOK
  <2>3. ASSUME NEW c \in Contexts, Row(TemporalRow(c)) # NoRow
        PROVE  p \notin Row(TemporalRow(c)).conflicts
    BY <2>3, ContextKeys DEF Row, ReconInv, RowsOK, RowOK
  <2>4. Own(p) /\ candidate[p] \notin Existing => note[candidate[p]] = NoNote
    BY <2>1 DEF ReconInv, NotesOK, Own
  <2>5. ASSUME Own(p), PlanOf(p) # <<>>
        PROVE  note[Target(p)].supersededBy # candidate[p]
    <3>1. PlanRow(p) \in RowKeys /\ PlanRow(p)[1] = "plan" /\ PlanOf(p) = db[PlanRow(p)]
      BY PlanKeys DEF PlanOf, PlanRow
    <3>2. PlanOf(p) \in Seq(Decisions)
      BY <3>1, RowTypes DEF ReconInv, TypeOK
    <3>3. \A i \in DOMAIN PlanOf(p) : note[PlanOf(p)[i].context] # NoNote
      BY <3>1 DEF ReconInv, RowsOK, RowOK
    <3>4. Target(p) \in Contexts /\ note[Target(p)] # NoNote
      BY <2>5, <3>2, <3>3, TargetType
    <3>5. NoteOK(note[Target(p)])
      BY <3>4 DEF ReconInv, NotesOK
    <3>6. candidate[p] # NoNote
      BY <2>1, ReconciliationAssumption
    <3> QED
      BY <2>1, <2>5, <3>5, <3>6 DEF NoteOK, Own
  <2> QED
    BY <2>2, <2>3, <2>4, <2>5
<1>2. ReconInv => ReviewGate
  BY <1>1 DEF ReviewGate
<1> QED
  BY <1>2, ReconInvariant, PTL

-----------------------------------------------------------------------------
(* Requests that do not overlap                                            *)

\* The rows that a request sees.
LEMMA RowsFacts ==
    ASSUME ReconInv, NEW a \in Requests
    PROVE  /\ DOMAIN Rows(a) = RowKeys
           /\ \A k \in RowKeys :
                /\ Rows(a)[k] = IF k \in DOMAIN sess[a] THEN sess[a][k] ELSE db[k]
                /\ Rows(a)[k] \in RowsOf(k) \cup {NoRow}
                /\ View(a, k) = Rows(a)[k]
                /\ db[k] # NoRow => Rows(a)[k] # NoRow
           /\ DOMAIN sess[a] = {} => \A k \in RowKeys : Rows(a)[k] = db[k]
<1>1. /\ DOMAIN db = RowKeys /\ DOMAIN sess[a] \subseteq RowKeys
      /\ \A k \in DOMAIN sess[a] : sess[a][k] \in RowsOf(k) /\ NoRow \notin RowsOf(k)
      /\ \A k \in RowKeys : db[k] \in RowsOf(k) \cup {NoRow}
  BY RowsAreRows DEF ReconInv, TypeOK
<1>2. Rows(a) = [k \in RowKeys |-> IF k \in DOMAIN sess[a] THEN sess[a][k] ELSE db[k]]
  BY <1>1 DEF Rows, Over
<1> QED
  BY <1>1, <1>2 DEF View

LEMMA RowsPut ==
    ASSUME ReconInv, ReconInv', NEW a \in Requests, NEW k \in RowKeys, NEW v, Put(a, k, v), db' = db
    PROVE  /\ Rows(a)'[k] = v
           /\ \A x \in RowKeys : x # k => Rows(a)'[x] = Rows(a)[x]
           /\ DOMAIN sess'[a] = DOMAIN sess[a] \cup {k}
           /\ \A b \in Requests : b # a => sess'[b] = sess[b] /\ Rows(b)' = Rows(b)
<1>1. /\ DOMAIN sess'[a] = DOMAIN sess[a] \cup {k}
      /\ sess'[a][k] = v /\ \A x \in DOMAIN sess[a] : x # k => sess'[a][x] = sess[a][x]
      /\ \A b \in Requests : b # a => sess'[b] = sess[b]
  BY PutFacts
<1>2. \A x \in RowKeys : Rows(a)'[x] = IF x \in DOMAIN sess'[a] THEN sess'[a][x] ELSE db[x]
  <2>1. DOMAIN db = RowKeys /\ DOMAIN sess'[a] \subseteq RowKeys
    BY DEF ReconInv, TypeOK
  <2> QED
    BY <2>1 DEF Rows, Over
<1>3. \A x \in RowKeys : Rows(a)[x] = IF x \in DOMAIN sess[a] THEN sess[a][x] ELSE db[x]
  BY RowsFacts
<1> QED
  BY <1>1, <1>2, <1>3 DEF Rows

LEMMA KeysDiffer ==
    \A c, d : /\ IndexRow(c) = IndexRow(d) => c = d
              /\ TemporalRow(c) = TemporalRow(d) => c = d
              /\ ConflictRow(c) = ConflictRow(d) => c = d
              /\ PlanRow(c) = PlanRow(d) => c = d
              /\ ResultRow(c) = ResultRow(d) => c = d
BY DEF IndexRow, TemporalRow, ConflictRow, PlanRow, ResultRow

LEMMA SameTables ==
    ASSUME db' = db
    PROVE  /\ \A p : /\ PlanOf(p)' = PlanOf(p) /\ RelationOf(p)' = RelationOf(p)
                     /\ Target(p)' = Target(p) /\ (Applied(p)' <=> Applied(p))
                     /\ (Stored(p)' <=> Stored(p)) /\ SupersedesOf(p)' = SupersedesOf(p)
                     /\ ConflictIds(p)' = ConflictIds(p)
           /\ \A p, x : Has(p, x)' <=> Has(p, x)
<1>1. \A p : PlanOf(p)' = PlanOf(p) /\ (Applied(p)' <=> Applied(p))
  BY DEF PlanOf, Applied, Row, ResultRow
<1> QED
  BY <1>1, PlanStable DEF Stored

\* What is known of a plan that has been applied.
LEMMA AppliedFacts ==
    ASSUME ReconInv, NEW p \in Plans, Applied(p)
    PROVE  /\ MayAct(p) /\ RelationOf(p) \in Relations /\ candidate[p] \in Contexts
           /\ Stored(p) => /\ Target(p) \in Contexts /\ note[Target(p)] # NoNote
                           /\ db[TemporalRow(Target(p))] # NoRow
           /\ RelationOf(p) # "UNRELATED" => Stored(p)
           /\ Has(p, "MERGE_EVIDENCE") => Stored(p)
<1>1. MayAct(p)
  BY PlanKeys DEF Applied, Row, ReconInv, RowsOK, RowOK
<1>2. /\ PlanOf(p) # NoRow /\ RelationOf(p) \in Relations /\ candidate[p] \in Contexts
      /\ PlanOf(p) # <<>> => Target(p) \in Contexts /\ note[Target(p)] # NoNote
      /\ RelationOf(p) # "UNRELATED" => PlanOf(p) # <<>>
  BY <1>1, PlanFacts
<1>3. PlanOf(p) # <<>> => db[TemporalRow(Target(p))] # NoRow
  BY DEF ReconInv, AppliedBacked, ResultBacked, Row
<1>4. Has(p, "MERGE_EVIDENCE") => RelationOf(p) # "UNRELATED"
  BY <1>2, ActionFacts DEF Has
<1> QED
  BY <1>1, <1>2, <1>3, <1>4 DEF Stored

\* A stored plan names a Context.
LEMMA StoredFacts ==
    ASSUME ReconInv, NEW p \in Plans, Stored(p)
    PROVE  /\ PlanOf(p) \in Seq(Decisions) /\ candidate[p] \in Contexts /\ Target(p) \in Contexts
           /\ \E i \in DOMAIN PlanOf(p) : Target(p) = PlanOf(p)[i].context
<1>1. PlanOf(p) \in Seq(Decisions) /\ candidate[p] \in Contexts
  BY PlanKeys, RowTypes DEF ReconInv, TypeOK, Stored, PlanOf, PlanRow
<1> QED
  BY <1>1, TargetType DEF Stored

\* A plan names the candidate of another only when that has been applied.
LEMMA TargetsApart ==
    ASSUME ReconInv, SoloFacts, Separate, NEW p \in Plans, NEW q \in Plans,
           Stored(p), Target(p) = candidate[q]
    PROVE  p # q /\ Applied(q) /\ errors = 0 /\ candidate[q] \notin Existing
<1>1. errors = 0 /\ candidate[q] \notin Existing
  BY DEF Separate, Stored
<1>2. p # q
  BY DEF SoloFacts, PlansApart
<1>3. db[IndexRow(candidate[q])] # NoRow
  <2>1. Recalled(PlanOf(p))
    BY DEF SoloFacts, PlansApart, Stored, PlanOf, PlanRow
  <2> QED
    BY <2>1, StoredFacts DEF Recalled
<1> QED
  BY <1>1, <1>2, <1>3 DEF SoloFacts, IndexedApplied

\* What an apply knows when no other request is under way.
LEMMA Working ==
    ASSUME ReconInv, SoloFacts, Separate, NEW a \in Requests, req[a].pc \in Applying,
           NEW p, p = req[a].plan, NEW c, c = candidate[p], NEW t, t = Target(p)
    PROVE  /\ p \in Plans /\ p # NoPlan /\ MayAct(p) /\ ~Applied(p) /\ Doing(a) /\ Active(a)
           /\ c \in Contexts /\ RelationOf(p) \in Relations
           /\ req \in [Requests -> Reqs] /\ req[a] \in Reqs
           /\ PlanOf(p) # <<>> => Stored(p) /\ t \in Contexts /\ t # c /\ note[t] # NoNote
           /\ RelationOf(p) # "UNRELATED" => PlanOf(p) # <<>>
           /\ Has(p, "MERGE_EVIDENCE") => PlanOf(p) # <<>>
           /\ \A q \in Plans : Stored(q) => Target(q) # c
           /\ \A q \in Plans : candidate[q] = c => q = p
           /\ \A b \in Requests : b # a => ~Active(b)
           /\ req[a].pc # "save" => req[a].outcome = "APPLIED"
<1>1. /\ p \in Plans /\ p # NoPlan /\ MayAct(p) /\ c \in Contexts /\ RelationOf(p) \in Relations
      /\ req \in [Requests -> Reqs] /\ req[a] \in Reqs
      /\ PlanOf(p) # <<>> => t \in Contexts /\ note[t] # NoNote
      /\ RelationOf(p) # "UNRELATED" => PlanOf(p) # <<>>
      /\ req[a].pc # "save" => req[a].outcome = "APPLIED"
  BY StepFacts
<1>2. Doing(a) /\ ~Applied(p)
  BY <1>1 DEF SoloFacts, Doing
<1>3. Active(a)
  BY DEF Active, Applying
<1>4. PlanOf(p) # <<>> => Stored(p) /\ t # c
  BY <1>1 DEF MayAct, Stored, SoloFacts, PlansApart
<1>5. \A q \in Plans : Stored(q) => Target(q) # c
  BY <1>1, <1>2, TargetsApart
<1>6. \A q \in Plans : candidate[q] = c => q = p
  BY <1>1 DEF Separate, Own
<1>7. Has(p, "MERGE_EVIDENCE") => PlanOf(p) # <<>>
  BY <1>1, ActionFacts DEF Has
<1> QED
  BY <1>1, <1>2, <1>3, <1>4, <1>5, <1>6, <1>7 DEF SoloFacts, OneAtATime

LEMMA IdleDoing ==
    ASSUME ReconInv, NEW a \in Requests, ~Active(a)
    PROVE  Doing(a)
<1>1. req[a].pc \in {"idle", "done"} /\ req[a].plan = NoPlan
  BY DEF ReconInv, RequestsOK, RequestShape, Active, Applying
<1> QED
  BY <1>1 DEF Doing, Between, Closing

\* A step of a request: what it has to keep of what the others have promised.
SoloSess(a) == \A b \in Requests : b # a => sess'[b] = sess[b]

LEMMA SoloStep ==
    ASSUME ReconInv, ReconInv', SoloFacts, Separate, NEW a \in Requests, Active(a), Active(a)',
           NEW r, req' = [req EXCEPT ![a] = r], UNCHANGED <<db, candidate>>,
           errors' = 0 => errors = 0, SoloSess(a),
           \A p \in Plans : PlanRow(p) \in DOMAIN sess'[a] =>
             /\ Recalled(sess'[a][PlanRow(p)])
             /\ \A i \in DOMAIN sess'[a][PlanRow(p)] : sess'[a][PlanRow(p)][i].context # candidate[p],
           \A c \in Contexts : note'[c] # NoNote /\ note'[c].supersededBy # NoNote =>
             \/ note[c] # NoNote /\ note[c].supersededBy # NoNote
             \/ \E q \in Plans : Stored(q) /\ Target(q) = c,
           Agree(db)', Agree(Rows(a))',
           \A c \in Contexts : db[IndexRow(c)] # NoRow /\ db[IndexRow(c)].by # NoNote =>
             Rows(a)'[IndexRow(c)] = db[IndexRow(c)],
           \A q \in Plans : Applied(q) => NotesKept(q)' /\ RowsKept(q, Rows(a))',
           errors' = 0 => \A q \in Plans :
             candidate[q] \notin Existing /\ IndexRow(candidate[q]) \in DOMAIN sess'[a] =>
               Applied(q) \/ (r.plan = q /\ r.outcome = "APPLIED"),
           errors' = 0 => \A c \in Contexts : note'[c] # NoNote /\ note'[c].supersededBy # NoNote =>
             \/ r.pc = "markIndex" /\ Target(r.plan) = c
             \/ Rows(a)'[IndexRow(c)] = [by |-> note'[c].supersededBy],
           Doing(a)'
    PROVE  SoloFacts'
<1>0. /\ \A p : /\ PlanOf(p)' = PlanOf(p) /\ RelationOf(p)' = RelationOf(p)
                /\ Target(p)' = Target(p) /\ (Applied(p)' <=> Applied(p))
                /\ (Stored(p)' <=> Stored(p))
      /\ \A p, x : Has(p, x)' <=> Has(p, x)
  BY SameTables
<1>1. req \in [Requests -> Reqs] /\ req'[a] = r /\ \A b \in Requests : b # a => req'[b] = req[b]
  BY DEF ReconInv, TypeOK
<1>2. \A b \in Requests : b # a => /\ ~Active(b) /\ ~Active(b)' /\ DOMAIN sess[b] = {}
                                   /\ sess'[b] = sess[b] /\ Rows(b)' = Rows(b)
  <2>1. \A b \in Requests : b # a => ~Active(b) /\ ~Active(b)'
    BY <1>1 DEF SoloFacts, OneAtATime, Active
  <2> QED
    BY <2>1, IdleFacts DEF SoloSess, Rows
<1>3. OneAtATime'
  BY <1>2 DEF OneAtATime
<1>4. PlansApart'
  <2>1. \A ds : Recalled(ds)' <=> Recalled(ds)
    BY DEF Recalled
  <2> QED
    BY <1>0, <1>2, <2>1 DEF SoloFacts, PlansApart
<1>5. \A b \in Requests : b # a => \A k \in RowKeys : Rows(b)'[k] = db[k]
  BY <1>2, RowsFacts
<1>6. RowsAgree'
  <2>1. ASSUME NEW b \in Requests, b # a
        PROVE  /\ Agree(Rows(b))'
               /\ \A c \in Contexts : Rows(b)'[IndexRow(c)] = db[IndexRow(c)]
    BY <1>5, <2>1, ContextKeys DEF Agree
  <2> QED
    BY <2>1 DEF RowsAgree
<1>7. Marked'
  BY <1>0 DEF SoloFacts, Marked
<1>8. IndexedApplied'
  <2>1. SUFFICES ASSUME errors' = 0, NEW q \in Plans, candidate[q] \notin Existing
                 PROVE  /\ db[IndexRow(candidate[q])] # NoRow => Applied(q)
                        /\ \A b \in Requests : IndexRow(candidate[q]) \in DOMAIN sess'[b] =>
                             Applied(q) \/ (req'[b].plan = q /\ req'[b].outcome = "APPLIED")
    BY <1>0 DEF IndexedApplied
  <2>2. db[IndexRow(candidate[q])] # NoRow => Applied(q)
    BY <2>1 DEF SoloFacts, IndexedApplied
  <2>3. \A b \in Requests : b # a => IndexRow(candidate[q]) \notin DOMAIN sess'[b]
    BY <1>2
  <2> QED
    BY <1>1, <2>1, <2>2, <2>3
<1>9. Synced'
  BY <1>0, <1>1, <1>2 DEF Synced
<1>10. PromisesKept'
  <2>1. SUFFICES ASSUME NEW q \in Plans, Applied(q)
                 PROVE  NotesKept(q)' /\ RowsKept(q, db)' /\ \A b \in Requests : RowsKept(q, Rows(b))'
    BY <1>0 DEF PromisesKept
  <2>2. RowsKept(q, db)'
    BY <1>0, <2>1 DEF SoloFacts, PromisesKept, RowsKept
  <2>3. ASSUME NEW b \in Requests, b # a
        PROVE  RowsKept(q, Rows(b))'
    <3>1. RowsKept(q, Rows(b))
      BY <2>1 DEF SoloFacts, PromisesKept
    <3> QED
      BY <1>0, <1>2, <2>3, <3>1 DEF RowsKept
  <2> QED
    BY <2>1, <2>2, <2>3
<1>11. \A b \in Requests : Doing(b)'
  <2>1. ASSUME NEW b \in Requests, b # a
        PROVE  Doing(b)'
    <3>1. req'[b].pc \in {"idle", "done"} /\ req'[b].plan = NoPlan
      BY <1>1, <1>2, <2>1 DEF ReconInv, RequestsOK, RequestShape, Active, Applying
    <3> QED
      BY <3>1 DEF Doing, Between, Closing
  <2> QED
    BY <2>1
<1> QED
  BY <1>3, <1>4, <1>6, <1>7, <1>8, <1>9, <1>10, <1>11 DEF SoloFacts

\* What a step of an apply writes: its candidate's note, or its target's, which
\* loses nothing; and one row, which agrees with the notes.
NoteMove(a, r) ==
    LET p == req[a].plan
        c == candidate[p]
        t == Target(p)
    IN \/ note' = note
       \/ \E n \in Notes : /\ sess' = sess /\ note' = [note EXCEPT ![c] = n]
                           /\ n.supersededBy = NoNote
       \/ \E n \in Notes :
            /\ PlanOf(p) # <<>> /\ sess' = sess /\ note' = [note EXCEPT ![t] = n]
            /\ note[t].refs \subseteq n.refs /\ n.supersedes = note[t].supersedes
            /\ \/ n.supersededBy = note[t].supersededBy
               \/ r.pc = "markIndex" /\ Rows(a)[IndexRow(t)].by = NoNote

RowMove(a, k, v) ==
    LET p == req[a].plan
        c == candidate[p]
        t == Target(p)
    IN \/ k[1] \in {"relation", "result"}
       \/ k = ConflictRow(c) /\ candidate[v.id] = c
       \/ k = TemporalRow(c)
       \/ /\ PlanOf(p) # <<>> /\ k = TemporalRow(t)
          /\ Rows(a)[k] # NoRow => /\ v.current => Rows(a)[k].current
                                   /\ Rows(a)[k].conflicts \subseteq v.conflicts
       \/ k = IndexRow(c) /\ v = [by |-> note[c].supersededBy]
       \/ PlanOf(p) # <<>> /\ k = IndexRow(t) /\ v = [by |-> note[t].supersededBy]

SessMove(a) ==
    \/ sess' = sess
    \/ note' = note /\ \E k \in RowKeys : \E v \in RowsOf(k) : Put(a, k, v) /\ RowMove(a, k, v)

\* The candidate of an apply has not been superseded.
LEMMA OwnUnmarked ==
    ASSUME ReconInv, SoloFacts, Separate, NEW a \in Requests, req[a].pc \in Applying,
           NEW c, c = candidate[req[a].plan]
    PROVE  /\ note[c] # NoNote => note[c].supersededBy = NoNote
           /\ db[IndexRow(c)] # NoRow => db[IndexRow(c)].by = NoNote
           /\ Rows(a)[IndexRow(c)] # NoRow => Rows(a)[IndexRow(c)].by = NoNote
<1>1. c \in Contexts /\ \A q \in Plans : Stored(q) => Target(q) # c
  BY Working
<1>2. note[c] # NoNote => note[c].supersededBy = NoNote
  BY <1>1 DEF SoloFacts, Marked
<1>3. IndexRow(c) \in RowKeys /\ IndexRow(c)[1] = "index" /\ IndexRow(c)[2] = c
  BY <1>1, ContextKeys
<1>4. db[IndexRow(c)] # NoRow => note[c] # NoNote
  BY <1>3 DEF ReconInv, RowsOK, RowOK
<1>5. Rows(a)[IndexRow(c)] # NoRow => note[c] # NoNote
  BY <1>3, <1>4, RowsFacts DEF ReconInv, RowsOK, RowOK
<1> QED
  BY <1>1, <1>2, <1>4, <1>5 DEF SoloFacts, RowsAgree, Agree

LEMMA ApplyNotesKept ==
    ASSUME ReconInv, ReconInv', SoloFacts, Separate, NEW a \in Requests, req[a].pc \in Applying,
           NEW r, UNCHANGED <<db, candidate>>, NoteMove(a, r), NEW q \in Plans, Applied(q)
    PROVE  NotesKept(q)'
<1> DEFINE p == req[a].plan
           c == candidate[p]
           t == Target(p)
<1>1. /\ p \in Plans /\ ~Applied(p) /\ c \in Contexts
      /\ PlanOf(p) # <<>> => Stored(p) /\ t \in Contexts /\ t # c /\ note[t] # NoNote
      /\ \A x \in Plans : Stored(x) => Target(x) # c
      /\ \A x \in Plans : candidate[x] = c => x = p
  BY Working
<1>2. /\ candidate[q] \in Contexts /\ (RelationOf(q) # "UNRELATED" => Stored(q))
      /\ (Has(q, "MERGE_EVIDENCE") => Stored(q))
      /\ (Stored(q) => Target(q) \in Contexts)
  BY AppliedFacts
<1>3. NotesKept(q) /\ RowsKept(q, Rows(a))
  BY DEF SoloFacts, PromisesKept
<1>4. /\ RelationOf(q)' = RelationOf(q) /\ Target(q)' = Target(q)
      /\ Has(q, "MERGE_EVIDENCE")' <=> Has(q, "MERGE_EVIDENCE")
  BY SameTables
<1>5. q # p /\ candidate[q] # c /\ candidate[q] # NoNote
  BY <1>1, <1>2, ReconciliationAssumption
<1>6. DOMAIN note = Contexts
  BY DEF ReconInv, TypeOK
<1>7. CASE note' = note
  BY <1>3, <1>4, <1>7 DEF NotesKept
<1>8. ASSUME NEW n \in Notes, note' = [note EXCEPT ![c] = n]
      PROVE  NotesKept(q)'
  <2>1. Stored(q) => Target(q) # c
    BY <1>1
  <2> QED
    BY <1>2, <1>3, <1>4, <1>5, <1>6, <1>8, <2>1 DEF NotesKept
<1>9. ASSUME NEW n \in Notes, PlanOf(p) # <<>>, note' = [note EXCEPT ![t] = n],
             note[t].refs \subseteq n.refs, n.supersedes = note[t].supersedes,
             \/ n.supersededBy = note[t].supersededBy
             \/ Rows(a)[IndexRow(t)].by = NoNote
      PROVE  NotesKept(q)'
  <2>1. /\ \A d \in Contexts : /\ note[d].refs \subseteq note'[d].refs
                               /\ note'[d].supersedes = note[d].supersedes
        /\ \A d \in Contexts : \/ note'[d].supersededBy = note[d].supersededBy
                               \/ Rows(a)[IndexRow(d)].by = NoNote
    BY <1>1, <1>6, <1>9
  <2> QED
    BY <1>2, <1>3, <1>4, <1>5, <2>1 DEF NotesKept, RowsKept
<1> QED
  BY <1>7, <1>8, <1>9 DEF NoteMove

LEMMA ApplyRowsKept ==
    ASSUME ReconInv, ReconInv', SoloFacts, Separate, NEW a \in Requests, req[a].pc \in Applying,
           UNCHANGED <<db, candidate>>, SessMove(a), NEW q \in Plans, Applied(q)
    PROVE  RowsKept(q, Rows(a))'
<1> DEFINE p == req[a].plan
           c == candidate[p]
           t == Target(p)
           T == Target(q)
<1>1. /\ p \in Plans /\ ~Applied(p) /\ c \in Contexts
      /\ PlanOf(p) # <<>> => Stored(p) /\ t \in Contexts /\ t # c
      /\ \A x \in Plans : Stored(x) => Target(x) # c
  BY Working
<1>2. /\ (RelationOf(q) # "UNRELATED" => Stored(q))
      /\ (Stored(q) => T \in Contexts /\ db[TemporalRow(T)] # NoRow)
  BY AppliedFacts
<1>3. NotesKept(q) /\ RowsKept(q, Rows(a))
  BY DEF SoloFacts, PromisesKept
<1>4. RelationOf(q)' = RelationOf(q) /\ Target(q)' = Target(q)
  BY SameTables
<1>5. SUFFICES ASSUME Stored(q)
               PROVE  RowsKept(q, Rows(a))'
  BY <1>2, <1>4 DEF RowsKept
<1>6. /\ T \in Contexts /\ T # c /\ TemporalRow(T) \in RowKeys /\ IndexRow(T) \in RowKeys
      /\ TemporalRow(T)[1] = "temporal" /\ IndexRow(T)[1] = "index"
      /\ Rows(a)[TemporalRow(T)] # NoRow
  BY <1>1, <1>2, <1>5, ContextKeys, RowsFacts
<1>7. CASE sess' = sess
  <2>1. Rows(a)' = Rows(a)
    BY <1>7 DEF Rows
  <2> QED
    BY <1>3, <1>4, <2>1 DEF RowsKept
<1>8. ASSUME NEW k \in RowKeys, NEW v \in RowsOf(k), Put(a, k, v), RowMove(a, k, v)
      PROVE  RowsKept(q, Rows(a))'
  <2>1. Rows(a)'[k] = v /\ \A x \in RowKeys : x # k => Rows(a)'[x] = Rows(a)[x]
    BY <1>8, RowsPut
  <2>2. \/ Rows(a)'[TemporalRow(T)] = Rows(a)[TemporalRow(T)]
        \/ /\ Rows(a)'[TemporalRow(T)].current => Rows(a)[TemporalRow(T)].current
           /\ Rows(a)[TemporalRow(T)].conflicts \subseteq Rows(a)'[TemporalRow(T)].conflicts
    <3>1. CASE k # TemporalRow(T)
      BY <1>6, <2>1, <3>1
    <3>2. CASE k = TemporalRow(T)
      <4>1. k[1] = "temporal" /\ k # TemporalRow(c)
        BY <1>6, <3>2, KeysDiffer
      <4>2. k # ConflictRow(c) /\ k # IndexRow(c) /\ k # IndexRow(t)
        BY <4>1 DEF ConflictRow, IndexRow
      <4> QED
        BY <1>6, <1>8, <2>1, <3>2, <4>1, <4>2 DEF RowMove
    <3> QED
      BY <3>1, <3>2
  <2>3. \/ Rows(a)'[IndexRow(T)] = Rows(a)[IndexRow(T)]
        \/ Rows(a)'[IndexRow(T)] = [by |-> note[T].supersededBy]
    <3>1. CASE k # IndexRow(T)
      BY <1>6, <2>1, <3>1
    <3>2. CASE k = IndexRow(T)
      <4>1. k[1] = "index" /\ k # IndexRow(c) /\ (k = IndexRow(t) => t = T)
        BY <1>6, <3>2, KeysDiffer
      <4>2. k # ConflictRow(c) /\ k # TemporalRow(c) /\ k # TemporalRow(t)
        BY <4>1 DEF ConflictRow, TemporalRow
      <4> QED
        BY <1>8, <2>1, <3>2, <4>1, <4>2 DEF RowMove
    <3> QED
      BY <3>1, <3>2
  <2> QED
    BY <1>3, <1>4, <2>2, <2>3 DEF RowsKept, NotesKept
<1> QED
  BY <1>7, <1>8 DEF SessMove

LEMMA ApplyAgree ==
    ASSUME ReconInv, ReconInv', SoloFacts, Separate, NEW a \in Requests, req[a].pc \in Applying,
           NEW r, UNCHANGED <<db, candidate>>, NoteMove(a, r), SessMove(a)
    PROVE  /\ Agree(db)' /\ Agree(Rows(a))'
           /\ \A d \in Contexts : db[IndexRow(d)] # NoRow /\ db[IndexRow(d)].by # NoNote =>
                Rows(a)'[IndexRow(d)] = db[IndexRow(d)]
<1> DEFINE p == req[a].plan
           c == candidate[p]
           t == Target(p)
<1>1. /\ p \in Plans /\ c \in Contexts
      /\ PlanOf(p) # <<>> => Stored(p) /\ t \in Contexts /\ t # c /\ note[t] # NoNote
  BY Working
<1>2. /\ Agree(db) /\ Agree(Rows(a))
      /\ \A d \in Contexts : db[IndexRow(d)] # NoRow /\ db[IndexRow(d)].by # NoNote =>
           Rows(a)[IndexRow(d)] = db[IndexRow(d)]
  BY DEF SoloFacts, RowsAgree
<1>3. /\ db[IndexRow(c)] # NoRow => db[IndexRow(c)].by = NoNote
      /\ Rows(a)[IndexRow(c)] # NoRow => Rows(a)[IndexRow(c)].by = NoNote
  BY OwnUnmarked
<1>4. DOMAIN note = Contexts
  BY DEF ReconInv, TypeOK
<1>5. CASE sess' = sess
  <2>1. Rows(a)' = Rows(a)
    BY <1>5 DEF Rows
  <2>2. CASE note' = note
    BY <1>2, <2>1, <2>2 DEF Agree
  <2>3. ASSUME NEW n \in Notes, note' = [note EXCEPT ![c] = n]
        PROVE  Agree(db)' /\ Agree(Rows(a))'
    BY <1>1, <1>2, <1>3, <1>4, <2>1, <2>3 DEF Agree
  <2>4. ASSUME NEW n \in Notes, PlanOf(p) # <<>>, note' = [note EXCEPT ![t] = n],
               \/ n.supersededBy = note[t].supersededBy
               \/ Rows(a)[IndexRow(t)].by = NoNote
        PROVE  Agree(db)' /\ Agree(Rows(a))'
    <3>1. \A d \in Contexts : \/ note'[d].supersededBy = note[d].supersededBy
                              \/ Rows(a)[IndexRow(d)].by = NoNote
      BY <1>1, <1>4, <2>4
    <3> QED
      BY <1>2, <2>1, <3>1 DEF Agree
  <2> QED
    BY <1>2, <2>1, <2>2, <2>3, <2>4 DEF NoteMove
<1>6. ASSUME note' = note, NEW k \in RowKeys, NEW v \in RowsOf(k), Put(a, k, v), RowMove(a, k, v)
      PROVE  /\ Agree(db)' /\ Agree(Rows(a))'
             /\ \A d \in Contexts : db[IndexRow(d)] # NoRow /\ db[IndexRow(d)].by # NoNote =>
                  Rows(a)'[IndexRow(d)] = db[IndexRow(d)]
  <2>1. Rows(a)'[k] = v /\ \A x \in RowKeys : x # k => Rows(a)'[x] = Rows(a)[x]
    BY <1>6, RowsPut
  <2>2. ASSUME NEW d \in Contexts
        PROVE  \/ Rows(a)'[IndexRow(d)] = Rows(a)[IndexRow(d)]
               \/ Rows(a)'[IndexRow(d)] = [by |-> note[d].supersededBy]
    <3>1. IndexRow(d) \in RowKeys /\ IndexRow(d)[1] = "index"
      BY ContextKeys
    <3>2. CASE k = IndexRow(d)
      <4>1. (k = IndexRow(c) => c = d) /\ (k = IndexRow(t) => t = d) /\ k[1] = "index"
        BY <3>1, <3>2, KeysDiffer
      <4>2. k # ConflictRow(c) /\ k # TemporalRow(c) /\ k # TemporalRow(t)
        BY <4>1 DEF ConflictRow, TemporalRow
      <4> QED
        BY <1>6, <2>1, <3>2, <4>1, <4>2 DEF RowMove
    <3> QED
      BY <2>1, <3>1, <3>2
  <2>3. ASSUME NEW d \in Contexts
        PROVE  \/ Rows(a)'[ConflictRow(d)] = Rows(a)[ConflictRow(d)]
               \/ candidate[Rows(a)'[ConflictRow(d)].id] = d
    <3>1. ConflictRow(d) \in RowKeys /\ ConflictRow(d)[1] = "conflict"
      BY ContextKeys
    <3>2. CASE k = ConflictRow(d)
      <4>1. (k = ConflictRow(c) => c = d) /\ k[1] = "conflict"
        BY <3>1, <3>2, KeysDiffer
      <4>2. k # IndexRow(c) /\ k # IndexRow(t) /\ k # TemporalRow(c) /\ k # TemporalRow(t)
        BY <4>1 DEF IndexRow, TemporalRow
      <4> QED
        BY <1>6, <2>1, <3>2, <4>1, <4>2 DEF RowMove
    <3> QED
      BY <2>1, <3>1, <3>2
  <2>4. Agree(Rows(a))'
    <3>1. ASSUME NEW d \in Contexts, Rows(a)'[IndexRow(d)] # NoRow,
                 Rows(a)'[IndexRow(d)].by # NoNote
          PROVE  note[d].supersededBy = Rows(a)'[IndexRow(d)].by
      <4>1. CASE Rows(a)'[IndexRow(d)] = Rows(a)[IndexRow(d)]
        BY <1>2, <3>1, <4>1 DEF Agree
      <4>2. CASE Rows(a)'[IndexRow(d)] = [by |-> note[d].supersededBy]
        BY <4>2
      <4> QED
        BY <2>2, <4>1, <4>2
    <3>2. ASSUME NEW d \in Contexts, Rows(a)'[ConflictRow(d)] # NoRow
          PROVE  candidate[Rows(a)'[ConflictRow(d)].id] = d
      BY <1>2, <2>3, <3>2 DEF Agree
    <3> QED
      BY <1>6, <3>1, <3>2 DEF Agree
  <2>5. ASSUME NEW d \in Contexts, db[IndexRow(d)] # NoRow, db[IndexRow(d)].by # NoNote
        PROVE  Rows(a)'[IndexRow(d)] = db[IndexRow(d)]
    <3>1. db[IndexRow(d)] \in IndexRows
      BY <2>5, ContextKeys, RowTypes DEF ReconInv, TypeOK
    <3>2. note[d].supersededBy = db[IndexRow(d)].by
      BY <1>2, <2>5 DEF Agree
    <3>3. [by |-> note[d].supersededBy] = db[IndexRow(d)]
      BY <3>1, <3>2 DEF IndexRows
    <3> QED
      BY <1>2, <2>2, <2>5, <3>3
  <2> QED
    BY <1>2, <1>6, <2>4, <2>5 DEF Agree
<1> QED
  BY <1>5, <1>6 DEF SessMove

LEMMA ApplySynced ==
    ASSUME ReconInv, ReconInv', SoloFacts, Separate, NEW a \in Requests, req[a].pc \in Applying,
           NEW r, r.plan = req[a].plan, UNCHANGED <<db, candidate>>, NoteMove(a, r), SessMove(a),
           errors = 0,
           req[a].pc = "markIndex" =>
             Rows(a)'[IndexRow(Target(r.plan))] = [by |-> note'[Target(r.plan)].supersededBy],
           NEW d \in Contexts, note'[d] # NoNote, note'[d].supersededBy # NoNote
    PROVE  \/ r.pc = "markIndex" /\ Target(r.plan) = d
           \/ Rows(a)'[IndexRow(d)] = [by |-> note'[d].supersededBy]
<1> DEFINE p == req[a].plan
           c == candidate[p]
           t == Target(p)
<1>1. /\ p \in Plans /\ c \in Contexts /\ Active(a)
      /\ PlanOf(p) # <<>> => Stored(p) /\ t \in Contexts /\ t # c /\ note[t] # NoNote
  BY Working
<1>2. DOMAIN note = Contexts
  BY DEF ReconInv, TypeOK
<1>3. note[d] # NoNote /\ note[d].supersededBy # NoNote =>
        \/ req[a].pc = "markIndex" /\ Target(p) = d
        \/ Rows(a)[IndexRow(d)] = [by |-> note[d].supersededBy]
  BY <1>1 DEF SoloFacts, Synced
<1>4. CASE req[a].pc = "markIndex" /\ t = d
  BY <1>4
<1>5. CASE ~(req[a].pc = "markIndex" /\ t = d) /\ sess' = sess
  <2>1. Rows(a)' = Rows(a)
    BY <1>5 DEF Rows
  <2>2. CASE note' = note
    BY <1>3, <1>5, <2>1, <2>2
  <2>3. ASSUME NEW n \in Notes, note' = [note EXCEPT ![c] = n], n.supersededBy = NoNote
        PROVE  Rows(a)'[IndexRow(d)] = [by |-> note'[d].supersededBy]
    BY <1>1, <1>2, <1>3, <1>5, <2>1, <2>3
  <2>4. ASSUME NEW n \in Notes, PlanOf(p) # <<>>, note' = [note EXCEPT ![t] = n],
               \/ n.supersededBy = note[t].supersededBy
               \/ r.pc = "markIndex"
        PROVE  \/ r.pc = "markIndex" /\ Target(r.plan) = d
               \/ Rows(a)'[IndexRow(d)] = [by |-> note'[d].supersededBy]
    BY <1>1, <1>2, <1>3, <1>5, <2>1, <2>4
  <2> QED
    BY <2>2, <2>3, <2>4 DEF NoteMove
<1>6. ASSUME ~(req[a].pc = "markIndex" /\ t = d), note' = note,
             NEW k \in RowKeys, NEW v \in RowsOf(k), Put(a, k, v), RowMove(a, k, v)
      PROVE  Rows(a)'[IndexRow(d)] = [by |-> note'[d].supersededBy]
  <2>1. Rows(a)'[k] = v /\ \A x \in RowKeys : x # k => Rows(a)'[x] = Rows(a)[x]
    BY <1>6, RowsPut
  <2>2. IndexRow(d) \in RowKeys /\ IndexRow(d)[1] = "index"
    BY ContextKeys
  <2>3. CASE k = IndexRow(d)
    <3>1. (k = IndexRow(c) => c = d) /\ (k = IndexRow(t) => t = d) /\ k[1] = "index"
      BY <2>2, <2>3, KeysDiffer
    <3>2. k # ConflictRow(c) /\ k # TemporalRow(c) /\ k # TemporalRow(t)
      BY <3>1 DEF ConflictRow, TemporalRow
    <3> QED
      BY <1>6, <2>1, <2>3, <3>1, <3>2 DEF RowMove
  <2> QED
    BY <1>3, <1>6, <2>1, <2>2, <2>3
<1> QED
  BY <1>4, <1>5, <1>6 DEF SessMove

LEMMA ApplyIndexed ==
    ASSUME ReconInv, ReconInv', SoloFacts, Separate, NEW a \in Requests, req[a].pc \in Applying,
           NEW r, r.plan = req[a].plan, UNCHANGED <<db, candidate>>, SessMove(a), errors = 0,
           \/ r.outcome = req[a].outcome
           \/ sess' = sess /\ (candidate[r.plan] \in Existing \/ DOMAIN sess[a] = {}),
           req[a].pc = "save" =>
             \A x : IndexRow(x) \in DOMAIN sess'[a] => IndexRow(x) \in DOMAIN sess[a],
           NEW q \in Plans, candidate[q] \notin Existing, IndexRow(candidate[q]) \in DOMAIN sess'[a]
    PROVE  Applied(q) \/ (r.plan = q /\ r.outcome = "APPLIED")
<1> DEFINE p == req[a].plan
           c == candidate[p]
           t == Target(p)
           d == candidate[q]
<1>1. /\ p \in Plans /\ c \in Contexts
      /\ PlanOf(p) # <<>> => Stored(p) /\ t \in Contexts /\ t # c
      /\ \A x \in Plans : candidate[x] = c => x = p
      /\ req[a].pc # "save" => req[a].outcome = "APPLIED"
  BY Working
<1>2. IndexRow(d) \in DOMAIN sess[a] => Applied(q) \/ (p = q /\ req[a].outcome = "APPLIED")
  BY DEF SoloFacts, IndexedApplied
<1>3. CASE IndexRow(d) \in DOMAIN sess[a]
  BY <1>2, <1>3
<1>4. CASE IndexRow(d) \notin DOMAIN sess[a]
  <2>0. PICK k \in RowKeys : \E v \in RowsOf(k) : Put(a, k, v) /\ RowMove(a, k, v)
    BY <1>4 DEF SessMove
  <2>1. PICK v \in RowsOf(k) : Put(a, k, v) /\ RowMove(a, k, v)
    BY <2>0
  <2>2. k = IndexRow(d) /\ DOMAIN sess'[a] = DOMAIN sess[a] \cup {k}
    BY <1>4, <2>1, RowsPut
  <2>3. sess' # sess /\ req[a].pc # "save"
    BY <1>4, <2>2
  <2>4. r.outcome = "APPLIED"
    BY <1>1, <2>3
  <2>5. (k = IndexRow(c) => c = d) /\ (k = IndexRow(t) => t = d) /\ k[1] = "index"
    BY <2>2, KeysDiffer DEF IndexRow
  <2>6. k # ConflictRow(c) /\ k # TemporalRow(c) /\ k # TemporalRow(t)
    BY <2>5 DEF ConflictRow, TemporalRow
  <2>7. c = d \/ (PlanOf(p) # <<>> /\ t = d)
    BY <2>1, <2>5, <2>6 DEF RowMove
  <2>8. CASE c = d
    BY <1>1, <2>4, <2>8
  <2>9. CASE PlanOf(p) # <<>> /\ t = d
    BY <1>1, <2>9, TargetsApart
  <2> QED
    BY <2>7, <2>8, <2>9
<1> QED
  BY <1>3, <1>4

\* What the apply knows after the step: Doing, of the request r.
Underway(a, r, p, c, t) ==
    LET pc == r.pc
        row == Rows(a)'
    IN /\ pc \in (Applying \cup {"commit"}) \ {"create"}
       /\ pc = "commit" =>
            ResultRow(p) \in DOMAIN sess'[a] /\ sess'[a][ResultRow(p)].status = r.outcome
       /\ pc = "createIndex" => /\ c \notin Existing
                                /\ note'[c] = NoteOf({p}, SupersedesOf(p), ConflictIds(p))
       /\ pc \in {"mark", "markIndex"} => /\ r.after = "temporal" <=> c \in Existing
                                          /\ note'[c].supersedes = t
       /\ \/ pc = "createIndex" /\ RelationOf(p) = "SUPERSEDES"
          \/ pc = "mark" /\ r.after = "merge"
          => row[IndexRow(t)].by \in {NoNote, c}
       /\ pc = "markIndex" => row[IndexRow(t)].by = NoNote /\ note'[t].supersededBy = c
       /\ pc = "replacement" => c \in Existing /\ note'[c].supersedes = t
       /\ pc = "mergeWrite" => r.snap = note'[t]
       /\ pc = "mergeIndex" => note'[t] = [r.snap EXCEPT !.refs = @ \cup {p}]
       /\ pc = "temporalTarget" =>
            r.base = IF row[TemporalRow(t)] = NoRow THEN Overlay(TRUE, {}, {})
                                                    ELSE row[TemporalRow(t)]
       /\ r.outcome = "APPLIED" =>
            /\ pc \in Closing \/ (pc \in Between /\ c \notin Existing) =>
                 (RelationOf(p) = "SUPERSEDES" =>
                    /\ note'[t].supersededBy = c /\ note'[c].supersedes = t
                    /\ row[IndexRow(t)].by = c)
            /\ pc \in (Between \ {"merge", "mergeWrite"}) \cup Closing /\ Has(p, "MERGE_EVIDENCE") =>
                 p \in note'[t].refs
            /\ pc \in {"save", "commit"} =>
                 /\ RelationOf(p) = "SUPERSEDES" => /\ ~row[TemporalRow(t)].current
                                                    /\ row[IndexRow(t)].by = c
                 /\ RelationOf(p) = "CONTRADICTS" => p \in row[TemporalRow(t)].conflicts

LEMMA UnderwayDoing ==
    ASSUME NEW a \in Requests, NEW r, req'[a] = r, candidate' = candidate,
           r.plan # NoPlan, PlanOf(r.plan)' = PlanOf(r.plan), ~Applied(r.plan)',
           Underway(a, r, r.plan, candidate[r.plan], Target(r.plan))
    PROVE  Doing(a)'
<1> DEFINE p == r.plan
<1>1. /\ RelationOf(p)' = RelationOf(p) /\ Target(p)' = Target(p)
      /\ SupersedesOf(p)' = SupersedesOf(p) /\ ConflictIds(p)' = ConflictIds(p)
      /\ \A x : Has(p, x)' <=> Has(p, x)
  BY PlanStable
<1>2. r.pc \notin {"create", "review", "resolve", "scan"}
  BY DEF Underway, Applying
<1>3. r = req'[a] /\ candidate' = candidate
  OBVIOUS
<1> DEFINE c == candidate[p]
           t == Target(p)
           row == Rows(a)'
<1>4. /\ r.pc = "commit" =>
           ResultRow(p) \in DOMAIN sess'[a] /\ sess'[a][ResultRow(p)].status = r.outcome
      /\ r.pc = "createIndex" => /\ c \notin Existing
                                 /\ note'[c] = NoteOf({p}, SupersedesOf(p), ConflictIds(p))
      /\ r.pc \in {"mark", "markIndex"} => /\ r.after = "temporal" <=> c \in Existing
                                           /\ note'[c].supersedes = t
      /\ \/ r.pc = "createIndex" /\ RelationOf(p) = "SUPERSEDES"
         \/ r.pc = "mark" /\ r.after = "merge"
         => row[IndexRow(t)].by \in {NoNote, c}
      /\ r.pc = "markIndex" => row[IndexRow(t)].by = NoNote /\ note'[t].supersededBy = c
  BY DEF Underway
<1>5. /\ r.pc = "replacement" => c \in Existing /\ note'[c].supersedes = t
      /\ r.pc = "mergeWrite" => r.snap = note'[t]
      /\ r.pc = "mergeIndex" => note'[t] = [r.snap EXCEPT !.refs = @ \cup {p}]
      /\ r.pc = "temporalTarget" =>
            r.base = IF row[TemporalRow(t)] = NoRow THEN Overlay(TRUE, {}, {})
                                                    ELSE row[TemporalRow(t)]
  BY DEF Underway
<1>6. r.outcome = "APPLIED" =>
        /\ r.pc \in Closing \/ (r.pc \in Between /\ c \notin Existing) =>
             (RelationOf(p) = "SUPERSEDES" => Replaced(a, p)')
        /\ r.pc \in (Between \ {"merge", "mergeWrite"}) \cup Closing /\ Has(p, "MERGE_EVIDENCE") =>
             p \in note'[t].refs
        /\ r.pc \in {"save", "commit"} => RowsKept(p, Rows(a))'
  BY <1>1, <1>3 DEF Underway, Replaced, RowsKept
<1>7. /\ req'[a].plan = p /\ RelationOf(req[a].plan)' = RelationOf(p)
      /\ Target(req[a].plan)' = t /\ ~Applied(req[a].plan)'
      /\ SupersedesOf(req[a].plan)' = SupersedesOf(p) /\ ConflictIds(req[a].plan)' = ConflictIds(p)
      /\ Has(req[a].plan, "MERGE_EVIDENCE")' <=> Has(p, "MERGE_EVIDENCE")
      /\ Replaced(a, req[a].plan)' <=> Replaced(a, p)'
      /\ RowsKept(req[a].plan, Rows(a))' <=> RowsKept(p, Rows(a))'
  BY <1>1, <1>3
<1> QED
  BY <1>2, <1>3, <1>4, <1>5, <1>6, <1>7, ZenonT(120) DEF Doing

\* A step of an apply keeps what the others have promised.
LEMMA ApplySolo ==
    ASSUME ReconInv, ReconInv', SoloFacts, Separate, NEW a \in Requests, req[a].pc \in Applying,
           NEW r, r.plan = req[a].plan, req' = [req EXCEPT ![a] = r], UNCHANGED <<db, candidate>>,
           errors' = 0 => errors = 0, NoteMove(a, r), SessMove(a),
           errors' = 0 => \/ r.outcome = req[a].outcome
                          \/ sess' = sess /\ (candidate[r.plan] \in Existing \/ DOMAIN sess[a] = {}),
           errors' = 0 /\ req[a].pc = "markIndex" =>
             Rows(a)'[IndexRow(Target(r.plan))] = [by |-> note'[Target(r.plan)].supersededBy],
           req[a].pc = "save" =>
             \A x : IndexRow(x) \in DOMAIN sess'[a] => IndexRow(x) \in DOMAIN sess[a],
           Underway(a, r, r.plan, candidate[r.plan], Target(r.plan))
    PROVE  SoloFacts'
<1> DEFINE p == req[a].plan
           c == candidate[p]
           t == Target(p)
<1>1. /\ p \in Plans /\ p # NoPlan /\ ~Applied(p) /\ Active(a) /\ c \in Contexts
      /\ req \in [Requests -> Reqs]
      /\ PlanOf(p) # <<>> => Stored(p) /\ t \in Contexts /\ note[t] # NoNote
  BY Working
<1>2. req'[a] = r
  BY <1>1
<1>3. Active(a)'
  BY <1>2 DEF Active, Underway, Applying
<1>4. Doing(a)'
  <2>1. PlanOf(r.plan)' = PlanOf(r.plan) /\ ~Applied(r.plan)'
    BY <1>1, SameTables
  <2> QED
    BY <1>1, <1>2, <2>1, UnderwayDoing
<1>5. SoloSess(a)
  BY PutFacts DEF SessMove, SoloSess
<1>6. ASSUME NEW q \in Plans, PlanRow(q) \in DOMAIN sess'[a]
      PROVE  /\ Recalled(sess'[a][PlanRow(q)])
             /\ \A i \in DOMAIN sess'[a][PlanRow(q)] : sess'[a][PlanRow(q)][i].context # candidate[q]
  <2>1. PlanRow(q) \in DOMAIN sess[a] /\ sess'[a][PlanRow(q)] = sess[a][PlanRow(q)]
    <3>1. CASE sess' = sess
      BY <1>6, <3>1
    <3>2. ASSUME NEW k \in RowKeys, NEW v \in RowsOf(k), Put(a, k, v), RowMove(a, k, v)
          PROVE  PlanRow(q) \in DOMAIN sess[a] /\ sess'[a][PlanRow(q)] = sess[a][PlanRow(q)]
      <4>1. k # PlanRow(q)
        BY <3>2 DEF RowMove, PlanRow, ConflictRow, TemporalRow, IndexRow
      <4> QED
        BY <1>6, <3>2, <4>1, PutFacts
    <3> QED
      BY <3>1, <3>2 DEF SessMove
  <2> QED
    BY <2>1 DEF SoloFacts, PlansApart
<1>7. ASSUME NEW d \in Contexts, note'[d] # NoNote, note'[d].supersededBy # NoNote
      PROVE  \/ note[d] # NoNote /\ note[d].supersededBy # NoNote
             \/ \E q \in Plans : Stored(q) /\ Target(q) = d
  <2>1. DOMAIN note = Contexts
    BY DEF ReconInv, TypeOK
  <2>2. CASE note' = note
    BY <1>7, <2>2
  <2>3. ASSUME NEW n \in Notes, note' = [note EXCEPT ![c] = n], n.supersededBy = NoNote
        PROVE  note[d] # NoNote /\ note[d].supersededBy # NoNote
    BY <1>1, <1>7, <2>1, <2>3
  <2>4. ASSUME NEW n \in Notes, PlanOf(p) # <<>>, note' = [note EXCEPT ![t] = n]
        PROVE  \/ note[d] # NoNote /\ note[d].supersededBy # NoNote
               \/ \E q \in Plans : Stored(q) /\ Target(q) = d
    <3>1. CASE d = t
      BY <1>1, <2>4, <3>1
    <3>2. CASE d # t
      BY <1>7, <2>1, <2>4, <3>2
    <3> QED
      BY <3>1, <3>2
  <2> QED
    BY <2>2, <2>3, <2>4 DEF NoteMove
<1>8. /\ Agree(db)' /\ Agree(Rows(a))'
      /\ \A d \in Contexts : db[IndexRow(d)] # NoRow /\ db[IndexRow(d)].by # NoNote =>
           Rows(a)'[IndexRow(d)] = db[IndexRow(d)]
  BY ApplyAgree
<1>9. \A q \in Plans : Applied(q) => NotesKept(q)' /\ RowsKept(q, Rows(a))'
  BY ApplyNotesKept, ApplyRowsKept
<1>10. ASSUME errors' = 0, NEW q \in Plans, candidate[q] \notin Existing,
              IndexRow(candidate[q]) \in DOMAIN sess'[a]
       PROVE  Applied(q) \/ (r.plan = q /\ r.outcome = "APPLIED")
  BY <1>10, ApplyIndexed
<1>11. ASSUME errors' = 0, NEW d \in Contexts, note'[d] # NoNote, note'[d].supersededBy # NoNote
       PROVE  \/ r.pc = "markIndex" /\ Target(r.plan) = d
              \/ Rows(a)'[IndexRow(d)] = [by |-> note'[d].supersededBy]
  BY <1>11, ApplySynced
<1> QED
  BY <1>1, <1>3, <1>4, <1>5, <1>6, <1>7, <1>8, <1>9, <1>10, <1>11, SoloStep

\* An apply that fails.
LEMMA FailSolo ==
    ASSUME ReconInv, ReconInv', SoloFacts, Separate, NEW a \in Requests, req[a].pc \in Applying,
           Fail(a), UNCHANGED <<note, db, sess, candidate>>,
           errors' = 0 => /\ errors = 0 /\ req[a].pc # "markIndex"
                          /\ candidate[req[a].plan] \in Existing \/ DOMAIN sess[a] = {}
    PROVE  SoloFacts'
<1> DEFINE out == IF req[a].changed THEN "PARTIAL" ELSE "FAILED"
           r == [req[a] EXCEPT !.pc = "save", !.outcome = out]
<1>1. req[a] \in Reqs /\ req \in [Requests -> Reqs]
  BY DEF ReconInv, TypeOK
<1>2. req' = [req EXCEPT ![a] = r]
  BY DEF Fail
<1>3. r.plan = req[a].plan /\ r.pc = "save" /\ r.outcome # "APPLIED"
  BY <1>1 DEF Reqs, Pcs
<1> HIDE DEF r
<1>4. Underway(a, r, r.plan, candidate[r.plan], Target(r.plan))
  BY <1>3 DEF Underway, Applying
<1>5. NoteMove(a, r) /\ SessMove(a)
  BY DEF NoteMove, SessMove
<1> QED
  BY <1>2, <1>3, <1>4, <1>5, ApplySolo

-----------------------------------------------------------------------------
(* One lemma for each step of an apply                                     *)

LEMMA GatewayErrorSolo ==
    ASSUME ReconInv, ReconInv', SoloFacts, Separate, NEW a \in Requests, GatewayError(a)
    PROVE  SoloFacts'
<1>1. req[a].pc \in Applying
  BY DEF GatewayError, Applying
<1>2. errors' # 0
  BY ReconciliationAssumption DEF GatewayError, ReconInv, TypeOK
<1> QED
  BY <1>1, <1>2, FailSolo DEF GatewayError

LEMMA CreateFileSolo ==
    ASSUME ReconInv, ReconInv', SoloFacts, Separate, NEW a \in Requests, CreateFile(a)
    PROVE  SoloFacts'
<1> DEFINE p == req[a].plan
           c == candidate[p]
           t == Target(p)
           of == SupersedesOf(p)
           n == NoteOf({p}, of, ConflictIds(p))
           r1 == [req[a] EXCEPT !.pc = "merge"]
           r2 == [req[a] EXCEPT !.pc = "merge", !.changed = TRUE]
           r3 == [req[a] EXCEPT !.pc = "createIndex"]
<1>1. /\ req[a].pc = "create" /\ req[a].pc \in Applying /\ errors' = errors
      /\ UNCHANGED <<db, sess, candidate>>
  BY DEF CreateFile, Applying
<1>2. /\ p \in Plans /\ Doing(a) /\ c \in Contexts /\ RelationOf(p) \in Relations
      /\ req \in [Requests -> Reqs] /\ req[a] \in Reqs /\ MayAct(p)
      /\ RelationOf(p) # "UNRELATED" => t \in Contexts
      /\ req[a].outcome = "APPLIED"
  BY <1>1, Working
<1>3. DOMAIN sess[a] = {}
  BY <1>1, <1>2 DEF Doing
<1>4. SessMove(a) /\ Rows(a)' = Rows(a)
  BY <1>1 DEF SessMove, Rows
<1>5. CASE Fail(a) /\ UNCHANGED note
  BY <1>1, <1>3, <1>5, FailSolo
<1>6. CASE ~Has(p, "CREATE_CONTEXT") /\ Goto(a, "merge") /\ UNCHANGED note
  <2>1. /\ r1.plan = p /\ r1.pc = "merge" /\ r1.outcome = "APPLIED" /\ req' = [req EXCEPT ![a] = r1]
    BY <1>2, <1>6 DEF Goto, Reqs
  <2> HIDE DEF r1
  <2>2. RelationOf(p) # "SUPERSEDES"
    BY <1>2, <1>6, ActionFacts DEF Has
  <2>3. Underway(a, r1, p, c, t)
    BY <2>1, <2>2 DEF Underway, Applying, Between, Closing
  <2>4. NoteMove(a, r1)
    BY <1>6 DEF NoteMove
  <2> QED
    BY <1>1, <1>2, <1>4, <2>1, <2>3, <2>4, ApplySolo
<1>7. CASE c \in Existing /\ UNCHANGED note /\ req' = [req EXCEPT ![a].pc = "merge", ![a].changed = TRUE]
  <2>1. /\ r2.plan = p /\ r2.pc = "merge" /\ r2.outcome = "APPLIED" /\ req' = [req EXCEPT ![a] = r2]
    BY <1>2, <1>7 DEF Reqs
  <2> HIDE DEF r2
  <2>3. Underway(a, r2, p, c, t)
    BY <1>7, <2>1 DEF Underway, Applying, Between, Closing
  <2>4. NoteMove(a, r2)
    BY <1>7 DEF NoteMove
  <2> QED
    BY <1>1, <1>2, <1>4, <2>1, <2>3, <2>4, ApplySolo
<1>8. CASE /\ c \notin Existing /\ ~(of # NoNote /\ View(a, IndexRow(of)).by \notin {NoNote, c})
           /\ note' = [note EXCEPT ![c] = n] /\ Goto(a, "createIndex")
  <2>1. /\ r3.plan = p /\ r3.pc = "createIndex" /\ r3.outcome = "APPLIED"
        /\ req' = [req EXCEPT ![a] = r3]
    BY <1>2, <1>8 DEF Goto, Reqs
  <2> HIDE DEF r3
  <2>2. /\ of \in Contexts \cup {NoNote} /\ ConflictIds(p) \subseteq Plans
    BY <1>2, PlanFacts
  <2>3. n \in Notes /\ n.supersededBy = NoNote
    BY <1>2, <2>2 DEF NoteOf, Notes
  <2>4. note'[c] = n
    BY <1>2, <1>8 DEF ReconInv, TypeOK
  <2>5. RelationOf(p) = "SUPERSEDES" => Rows(a)[IndexRow(t)].by \in {NoNote, c}
    <3>1. SUFFICES ASSUME RelationOf(p) = "SUPERSEDES"
                   PROVE  Rows(a)[IndexRow(t)].by \in {NoNote, c}
      OBVIOUS
    <3>2. of = t /\ t \in Contexts /\ t # NoNote
      BY <1>2, <3>1, ReconciliationAssumption DEF SupersedesOf
    <3> QED
      BY <1>8, <3>2, ContextKeys, RowsFacts
  <2>6. NoteMove(a, r3)
    BY <1>1, <1>8, <2>3 DEF NoteMove
  <2>7. Underway(a, r3, p, c, t)
    BY <1>4, <1>8, <2>1, <2>4, <2>5 DEF Underway, Applying, Between, Closing
  <2> QED
    BY <1>1, <1>2, <1>4, <2>1, <2>6, <2>7, ApplySolo
<1> QED
  BY <1>5, <1>6, <1>7, <1>8 DEF CreateFile

LEMMA CreateIndexSolo ==
    ASSUME ReconInv, ReconInv', SoloFacts, Separate, NEW a \in Requests, CreateIndex(a)
    PROVE  SoloFacts'
<1> DEFINE p == req[a].plan
           c == candidate[p]
           t == Target(p)
           k == IndexRow(c)
           v == [by |-> NoNote]
           r1 == [req[a] EXCEPT !.pc = "mark", !.after = "merge"]
           r2 == [req[a] EXCEPT !.pc = "merge", !.changed = TRUE]
<1>1. /\ req[a].pc = "createIndex" /\ req[a].pc \in Applying /\ errors' = errors
      /\ UNCHANGED <<note, db, candidate>> /\ Put(a, k, v)
  BY DEF CreateIndex, Applying
<1>2. /\ p \in Plans /\ Doing(a) /\ c \in Contexts /\ RelationOf(p) \in Relations
      /\ req \in [Requests -> Reqs] /\ req[a] \in Reqs
      /\ RelationOf(p) # "UNRELATED" => t \in Contexts /\ t # c
      /\ req[a].outcome = "APPLIED"
  BY <1>1, Working
<1>3. /\ c \notin Existing /\ note[c] = NoteOf({p}, SupersedesOf(p), ConflictIds(p))
      /\ RelationOf(p) = "SUPERSEDES" => Rows(a)[IndexRow(t)].by \in {NoNote, c}
  BY <1>1, <1>2 DEF Doing
<1>4. note[c].supersededBy = NoNote /\ note[c].supersedes = SupersedesOf(p)
  BY <1>3 DEF NoteOf
<1>5. k \in RowKeys /\ v \in RowsOf(k) /\ v = [by |-> note[c].supersededBy]
  BY <1>2, <1>4, ContextKeys, RowTypes DEF IndexRows
<1>6. SessMove(a)
  BY <1>1, <1>5 DEF SessMove, RowMove
<1>7. RelationOf(p) = "SUPERSEDES" => Rows(a)'[IndexRow(t)].by \in {NoNote, c}
  BY <1>1, <1>2, <1>3, <1>5, RowsPut, KeysDiffer, ContextKeys
<1>8. \A r : NoteMove(a, r)
  BY <1>1 DEF NoteMove
<1>9. CASE SupersedesOf(p) # NoNote /\ req' = [req EXCEPT ![a].pc = "mark", ![a].after = "merge"]
  <2>1. /\ r1.plan = p /\ r1.pc = "mark" /\ r1.outcome = "APPLIED" /\ r1.after = "merge"
        /\ req' = [req EXCEPT ![a] = r1]
    BY <1>2, <1>9 DEF Reqs
  <2> HIDE DEF r1
  <2>2. RelationOf(p) = "SUPERSEDES" /\ SupersedesOf(p) = t
    BY <1>9 DEF SupersedesOf
  <2>3. Underway(a, r1, p, c, t)
    BY <1>1, <1>3, <1>4, <1>7, <2>1, <2>2 DEF Underway, Applying, Between, Closing
  <2> QED
    BY <1>1, <1>2, <1>6, <1>8, <2>1, <2>3, ApplySolo
<1>10. CASE SupersedesOf(p) = NoNote /\ req' = [req EXCEPT ![a].pc = "merge", ![a].changed = TRUE]
  <2>1. /\ r2.plan = p /\ r2.pc = "merge" /\ r2.outcome = "APPLIED" /\ req' = [req EXCEPT ![a] = r2]
    BY <1>2, <1>10 DEF Reqs
  <2> HIDE DEF r2
  <2>2. RelationOf(p) # "SUPERSEDES"
    BY <1>2, <1>10, ReconciliationAssumption DEF SupersedesOf
  <2>3. Underway(a, r2, p, c, t)
    BY <2>1, <2>2 DEF Underway, Applying, Between, Closing
  <2> QED
    BY <1>1, <1>2, <1>6, <1>8, <2>1, <2>3, ApplySolo
<1> QED
  BY <1>9, <1>10 DEF CreateIndex

LEMMA TargetIndexed ==
    ASSUME ReconInv, SoloFacts, NEW a \in Requests, NEW p \in Plans, Stored(p)
    PROVE  /\ Target(p) \in Contexts /\ db[IndexRow(Target(p))] # NoRow
           /\ Rows(a)[IndexRow(Target(p))] # NoRow
<1>1. Recalled(PlanOf(p))
  BY DEF SoloFacts, PlansApart, Stored, PlanOf, PlanRow
<1>2. Target(p) \in Contexts /\ db[IndexRow(Target(p))] # NoRow
  BY <1>1, StoredFacts DEF Recalled
<1> QED
  BY <1>2, ContextKeys, RowsFacts

\* What the marking of a target knows.
LEMMA MarkingFacts ==
    ASSUME ReconInv, SoloFacts, Separate, NEW a \in Requests, req[a].pc \in {"mark", "markIndex"},
           NEW p, p = req[a].plan, NEW c, c = candidate[p], NEW t, t = Target(p)
    PROVE  /\ req[a].pc \in Applying /\ req \in [Requests -> Reqs] /\ req[a] \in Reqs
           /\ p \in Plans /\ c \in Contexts /\ t \in Contexts /\ t # c /\ PlanOf(p) # <<>>
           /\ note[t] \in Notes /\ Rows(a)[IndexRow(t)] # NoRow
           /\ RelationOf(p) = "SUPERSEDES" /\ ~Has(p, "MERGE_EVIDENCE")
           /\ req[a].after \in {"merge", "temporal"} /\ req[a].outcome = "APPLIED"
           /\ req[a].after = "temporal" <=> c \in Existing
           /\ note[c].supersedes = t
           /\ req[a].pc = "mark" /\ req[a].after = "merge" => Rows(a)[IndexRow(t)].by \in {NoNote, c}
           /\ req[a].pc = "markIndex" => Rows(a)[IndexRow(t)].by = NoNote /\ note[t].supersededBy = c
<1>1. /\ req[a].pc \in Applying /\ req[a].outcome = "APPLIED"
      /\ req[a].after \in {"merge", "temporal"} /\ RelationOf(p) = "SUPERSEDES"
  BY MarkFacts
<1>2. /\ req \in [Requests -> Reqs] /\ req[a] \in Reqs /\ Doing(a)
      /\ p \in Plans /\ c \in Contexts /\ PlanOf(p) # <<>>
      /\ Stored(p) /\ t \in Contexts /\ t # c /\ note[t] # NoNote
  BY <1>1, Working
<1>3. note[t] \in Notes
  BY <1>2 DEF ReconInv, TypeOK
<1>4. Rows(a)[IndexRow(t)] # NoRow
  BY <1>2, TargetIndexed
<1>5. ~Has(p, "MERGE_EVIDENCE")
  BY <1>1 DEF Has, ActionsFor
<1>6. /\ req[a].after = "temporal" <=> c \in Existing
      /\ note[c].supersedes = t
      /\ req[a].pc = "mark" /\ req[a].after = "merge" => Rows(a)[IndexRow(t)].by \in {NoNote, c}
      /\ req[a].pc = "markIndex" => Rows(a)[IndexRow(t)].by = NoNote /\ note[t].supersededBy = c
  BY <1>2 DEF Doing
<1> QED
  BY <1>1, <1>2, <1>3, <1>4, <1>5, <1>6

LEMMA MarkedUnderway ==
    ASSUME ReconInv, SoloFacts, Separate, NEW a \in Requests, req[a].pc \in {"mark", "markIndex"},
           NEW p, p = req[a].plan, NEW c, c = candidate[p], NEW t, t = Target(p),
           NEW r, r = [req[a] EXCEPT !.pc = req[a].after, !.changed = TRUE],
           note' = note, note[t].supersededBy = c, Rows(a)'[IndexRow(t)].by = c
    PROVE  Underway(a, r, p, c, t)
<1>1. /\ req[a] \in Reqs /\ ~Has(p, "MERGE_EVIDENCE") /\ note[c].supersedes = t
      /\ req[a].after \in {"merge", "temporal"} /\ req[a].outcome = "APPLIED"
  BY MarkingFacts
<1>2. r.pc \in {"merge", "temporal"}
  BY <1>1 DEF Reqs
<1> QED
  BY <1>1, <1>2 DEF Underway, Applying, Between, Closing

LEMMA MarkSolo ==
    ASSUME ReconInv, ReconInv', SoloFacts, Separate, NEW a \in Requests, Mark(a)
    PROVE  SoloFacts'
<1> DEFINE p == req[a].plan
           c == candidate[p]
           t == Target(p)
           by == View(a, IndexRow(t)).by
           n == [note[t] EXCEPT !.supersededBy = c]
           r == [req[a] EXCEPT !.pc = "markIndex"]
           s == [req[a] EXCEPT !.pc = req[a].after, !.changed = TRUE]
<1>1. req[a].pc = "mark" /\ errors' = errors /\ UNCHANGED <<db, sess, candidate>>
  BY DEF Mark
<1>2. /\ req[a].pc \in Applying /\ req \in [Requests -> Reqs] /\ req[a] \in Reqs
      /\ p \in Plans /\ c \in Contexts /\ t \in Contexts /\ t # c /\ PlanOf(p) # <<>>
      /\ note[t] \in Notes /\ Rows(a)[IndexRow(t)] # NoRow
      /\ req[a].after \in {"merge", "temporal"} /\ req[a].outcome = "APPLIED"
      /\ req[a].after = "temporal" <=> c \in Existing
      /\ note[c].supersedes = t
      /\ req[a].after = "merge" => Rows(a)[IndexRow(t)].by \in {NoNote, c}
  BY <1>1, MarkingFacts
<1>3. by = Rows(a)[IndexRow(t)].by
  BY <1>2, ContextKeys, RowsFacts
<1>4. SessMove(a) /\ Rows(a)' = Rows(a)
  BY <1>1 DEF SessMove, Rows
<1> HIDE DEF by
<1>5. CASE by \notin {NoNote, c} /\ Fail(a) /\ UNCHANGED note
  BY <1>1, <1>2, <1>3, <1>5, FailSolo
<1>6. CASE /\ by = c /\ UNCHANGED note
           /\ req' = [req EXCEPT ![a].pc = req[a].after, ![a].changed = TRUE]
  <2>1. note[t].supersededBy = c
    <3>1. Agree(Rows(a))
      BY DEF SoloFacts, RowsAgree
    <3>2. Rows(a)[IndexRow(t)] # NoRow /\ Rows(a)[IndexRow(t)].by = c /\ c # NoNote
      BY <1>2, <1>3, <1>6, ReconciliationAssumption
    <3> QED
      BY <1>2, <3>1, <3>2 DEF Agree
  <2>2. Underway(a, s, p, c, t)
    BY <1>1, <1>3, <1>4, <1>6, <2>1, MarkedUnderway
  <2>3. s.plan = p /\ s.outcome = req[a].outcome /\ req' = [req EXCEPT ![a] = s]
    BY <1>2, <1>6 DEF Reqs
  <2> HIDE DEF s
  <2>4. NoteMove(a, s)
    BY <1>6 DEF NoteMove
  <2> QED
    BY <1>1, <1>2, <1>4, <2>2, <2>3, <2>4, ApplySolo
<1>7. CASE by = NoNote /\ note' = [note EXCEPT ![t].supersededBy = c] /\ Goto(a, "markIndex")
  <2>1. /\ n \in Notes /\ n.supersededBy = c /\ n.refs = note[t].refs
        /\ n.supersedes = note[t].supersedes /\ note' = [note EXCEPT ![t] = n]
    BY <1>2, <1>7 DEF Notes
  <2>2. note'[t] = n /\ note'[c] = note[c]
    BY <1>2, <2>1 DEF ReconInv, TypeOK
  <2> HIDE DEF n
  <2>3. /\ r.plan = p /\ r.outcome = "APPLIED" /\ r.pc = "markIndex" /\ r.after = req[a].after
        /\ req' = [req EXCEPT ![a] = r]
    BY <1>2, <1>7 DEF Goto, Reqs
  <2> HIDE DEF r
  <2>4. NoteMove(a, r)
    BY <1>1, <1>2, <1>3, <1>7, <2>1, <2>3 DEF NoteMove
  <2>5. Underway(a, r, p, c, t)
    BY <1>2, <1>3, <1>4, <1>7, <2>1, <2>2, <2>3 DEF Underway, Applying, Between, Closing
  <2> QED
    BY <1>1, <1>2, <1>4, <2>3, <2>4, <2>5, ApplySolo
<1> QED
  BY <1>5, <1>6, <1>7 DEF Mark, by

LEMMA MarkIndexSolo ==
    ASSUME ReconInv, ReconInv', SoloFacts, Separate, NEW a \in Requests, MarkIndex(a)
    PROVE  SoloFacts'
<1> DEFINE p == req[a].plan
           c == candidate[p]
           t == Target(p)
           k == IndexRow(t)
           v == [by |-> c]
           s == [req[a] EXCEPT !.pc = req[a].after, !.changed = TRUE]
<1>1. /\ req[a].pc = "markIndex" /\ errors' = errors /\ UNCHANGED <<note, db, candidate>>
      /\ Put(a, k, v) /\ req' = [req EXCEPT ![a].pc = req[a].after, ![a].changed = TRUE]
  BY DEF MarkIndex
<1>2. /\ req[a].pc \in Applying /\ req \in [Requests -> Reqs] /\ req[a] \in Reqs
      /\ c \in Contexts /\ t \in Contexts /\ PlanOf(p) # <<>>
      /\ req[a].outcome = "APPLIED" /\ note[t].supersededBy = c
  BY <1>1, MarkingFacts
<1>3. k \in RowKeys /\ v \in RowsOf(k) /\ v = [by |-> note[t].supersededBy]
  BY <1>2, ContextKeys, RowTypes DEF IndexRows
<1>4. SessMove(a)
  BY <1>1, <1>2, <1>3 DEF SessMove, RowMove
<1>5. Rows(a)'[k] = v /\ Rows(a)'[k].by = c
  BY <1>1, <1>3, RowsPut
<1>6. Underway(a, s, p, c, t)
  BY <1>1, <1>2, <1>5, MarkedUnderway
<1>7. s.plan = p /\ s.outcome = req[a].outcome /\ req' = [req EXCEPT ![a] = s]
  BY <1>1, <1>2 DEF Reqs
<1> HIDE DEF s
<1>8. NoteMove(a, s)
  BY <1>1 DEF NoteMove
<1> QED
  BY <1>1, <1>2, <1>3, <1>4, <1>5, <1>6, <1>7, <1>8, ApplySolo

\* What an apply that has not failed has done.
LEMMA DoneSoFar ==
    ASSUME ReconInv, SoloFacts, Separate, NEW a \in Requests, req[a].pc \in Applying,
           req[a].outcome = "APPLIED",
           NEW p, p = req[a].plan, NEW c, c = candidate[p], NEW t, t = Target(p)
    PROVE  /\ /\ req[a].pc \in Closing \/ (req[a].pc \in Between /\ c \notin Existing)
              /\ RelationOf(p) = "SUPERSEDES"
              => /\ note[t].supersededBy = c /\ note[c].supersedes = t
                 /\ Rows(a)[IndexRow(t)].by = c
           /\ /\ req[a].pc \in (Between \ {"merge", "mergeWrite"}) \cup Closing
              /\ Has(p, "MERGE_EVIDENCE")
              => p \in note[t].refs
<1>1. Doing(a) /\ p # NoPlan
  BY Working
<1> QED
  BY <1>1 DEF Doing, Replaced

LEMMA MergeReadSolo ==
    ASSUME ReconInv, ReconInv', SoloFacts, Separate, NEW a \in Requests, MergeRead(a)
    PROVE  SoloFacts'
<1> DEFINE p == req[a].plan
           c == candidate[p]
           t == Target(p)
           r1 == [req[a] EXCEPT !.pc = "mergeWrite", !.snap = note[Target(p)]]
           r2 == [req[a] EXCEPT !.pc = "relation"]
<1>1. /\ req[a].pc = "merge" /\ req[a].pc \in Applying /\ errors' = errors
      /\ UNCHANGED <<note, db, sess, candidate>>
  BY DEF MergeRead, Applying
<1>2. /\ req \in [Requests -> Reqs] /\ req[a] \in Reqs /\ req[a].outcome = "APPLIED"
  BY <1>1, Working
<1>3. c \notin Existing /\ RelationOf(p) = "SUPERSEDES" =>
        /\ note[t].supersededBy = c /\ note[c].supersedes = t /\ Rows(a)[IndexRow(t)].by = c
  BY <1>1, <1>2, DoneSoFar DEF Between
<1>4. SessMove(a) /\ Rows(a)' = Rows(a) /\ \A r : NoteMove(a, r)
  BY <1>1 DEF SessMove, Rows, NoteMove
<1>5. CASE req' = [req EXCEPT ![a].pc = "mergeWrite", ![a].snap = note[Target(req[a].plan)]]
  <2>1. /\ r1.plan = p /\ r1.pc = "mergeWrite" /\ r1.outcome = "APPLIED" /\ r1.snap = note[t]
        /\ req' = [req EXCEPT ![a] = r1]
    BY <1>2, <1>5 DEF Reqs
  <2> HIDE DEF r1
  <2>2. Underway(a, r1, p, c, t)
    BY <1>1, <1>3, <1>4, <2>1 DEF Underway, Applying, Between, Closing
  <2> QED
    BY <1>1, <1>2, <1>4, <2>1, <2>2, ApplySolo
<1>6. CASE ~Has(p, "MERGE_EVIDENCE") /\ Goto(a, "relation")
  <2>1. /\ r2.plan = p /\ r2.pc = "relation" /\ r2.outcome = "APPLIED"
        /\ req' = [req EXCEPT ![a] = r2]
    BY <1>2, <1>6 DEF Goto, Reqs
  <2> HIDE DEF r2
  <2>2. Underway(a, r2, p, c, t)
    BY <1>1, <1>3, <1>4, <1>6, <2>1 DEF Underway, Applying, Between, Closing
  <2> QED
    BY <1>1, <1>2, <1>4, <2>1, <2>2, ApplySolo
<1> QED
  BY <1>5, <1>6 DEF MergeRead

LEMMA MergeFacts ==
    ASSUME ReconInv, SoloFacts, Separate, NEW a \in Requests,
           req[a].pc \in {"mergeWrite", "mergeIndex"},
           NEW p, p = req[a].plan, NEW c, c = candidate[p], NEW t, t = Target(p)
    PROVE  /\ req[a].pc \in Applying /\ req \in [Requests -> Reqs] /\ req[a] \in Reqs
           /\ p \in Plans /\ t \in Contexts /\ PlanOf(p) # <<>> /\ note[t] \in Notes
           /\ Has(p, "MERGE_EVIDENCE") /\ RelationOf(p) # "SUPERSEDES"
           /\ req[a].snap \in Notes /\ req[a].outcome = "APPLIED" /\ Doing(a)
<1>1. req[a].pc \in Applying
  BY DEF Applying
<1>2. /\ req \in [Requests -> Reqs] /\ req[a] \in Reqs /\ Doing(a) /\ p \in Plans
      /\ PlanOf(p) # <<>> => t \in Contexts /\ note[t] # NoNote
      /\ Has(p, "MERGE_EVIDENCE") => PlanOf(p) # <<>>
      /\ req[a].outcome = "APPLIED"
  BY <1>1, Working
<1>3. Has(p, "MERGE_EVIDENCE") /\ req[a].snap \in Notes
  BY <1>1, StepFacts DEF RequestShape, NoteOK
<1>4. RelationOf(p) # "SUPERSEDES"
  BY <1>3 DEF Has, ActionsFor
<1>5. note[t] \in Notes
  BY <1>2, <1>3 DEF ReconInv, TypeOK
<1> QED
  BY <1>1, <1>2, <1>3, <1>4, <1>5

LEMMA MergeWriteSolo ==
    ASSUME ReconInv, ReconInv', SoloFacts, Separate, NEW a \in Requests, MergeWrite(a)
    PROVE  SoloFacts'
<1> DEFINE p == req[a].plan
           c == candidate[p]
           t == Target(p)
           n == [req[a].snap EXCEPT !.refs = @ \cup {p}]
           r == [req[a] EXCEPT !.pc = "mergeIndex"]
<1>1. /\ req[a].pc = "mergeWrite" /\ errors' = errors /\ UNCHANGED <<db, sess, candidate>>
      /\ note' = [note EXCEPT ![t] = n] /\ Goto(a, "mergeIndex")
  BY DEF MergeWrite
<1>2. /\ req[a].pc \in Applying /\ req \in [Requests -> Reqs] /\ req[a] \in Reqs
      /\ p \in Plans /\ t \in Contexts /\ PlanOf(p) # <<>> /\ note[t] \in Notes
      /\ RelationOf(p) # "SUPERSEDES" /\ req[a].outcome = "APPLIED" /\ Doing(a)
  BY <1>1, MergeFacts
<1>3. req[a].snap = note[t]
  BY <1>1, <1>2 DEF Doing
<1>4. /\ n \in Notes /\ n.supersededBy = note[t].supersededBy /\ n.supersedes = note[t].supersedes
      /\ n.refs = note[t].refs \cup {p}
  BY <1>2, <1>3 DEF Notes
<1>5. note'[t] = n
  BY <1>1, <1>2 DEF ReconInv, TypeOK
<1>6. /\ r.plan = p /\ r.pc = "mergeIndex" /\ r.outcome = "APPLIED" /\ r.snap = req[a].snap
      /\ req' = [req EXCEPT ![a] = r]
  BY <1>1, <1>2 DEF Goto, Reqs
<1>7. note'[t] = [r.snap EXCEPT !.refs = @ \cup {p}]
  BY <1>5, <1>6
<1> HIDE DEF n, r
<1>8. NoteMove(a, r)
  BY <1>1, <1>2, <1>4 DEF NoteMove
<1>9. SessMove(a)
  BY <1>1 DEF SessMove
<1>10. Underway(a, r, p, c, t)
  BY <1>2, <1>4, <1>5, <1>6, <1>7 DEF Underway, Applying, Between, Closing
<1> QED
  BY <1>1, <1>2, <1>6, <1>8, <1>9, <1>10, ApplySolo

LEMMA MergeIndexSolo ==
    ASSUME ReconInv, ReconInv', SoloFacts, Separate, NEW a \in Requests, MergeIndex(a)
    PROVE  SoloFacts'
<1> DEFINE p == req[a].plan
           c == candidate[p]
           t == Target(p)
           k == IndexRow(t)
           v == [by |-> req[a].snap.supersededBy]
           r == [req[a] EXCEPT !.pc = "relation", !.changed = TRUE]
<1>1. /\ req[a].pc = "mergeIndex" /\ errors' = errors /\ UNCHANGED <<note, db, candidate>>
      /\ Put(a, k, v) /\ req' = [req EXCEPT ![a].pc = "relation", ![a].changed = TRUE]
  BY DEF MergeIndex
<1>2. /\ req[a].pc \in Applying /\ req \in [Requests -> Reqs] /\ req[a] \in Reqs
      /\ p \in Plans /\ t \in Contexts /\ PlanOf(p) # <<>> /\ note[t] \in Notes
      /\ RelationOf(p) # "SUPERSEDES" /\ req[a].outcome = "APPLIED" /\ Doing(a)
      /\ req[a].snap \in Notes
  BY <1>1, MergeFacts
<1>3. note[t] = [req[a].snap EXCEPT !.refs = @ \cup {p}]
  BY <1>1, <1>2 DEF Doing
<1>4. note[t].supersededBy = req[a].snap.supersededBy /\ p \in note[t].refs
  BY <1>2, <1>3 DEF Notes
<1>5. k \in RowKeys /\ v \in RowsOf(k) /\ v = [by |-> note[t].supersededBy]
  <2>1. k \in RowKeys /\ RowsOf(k) = IndexRows
    BY <1>2, ContextKeys, RowTypes
  <2>2. req[a].snap.supersededBy \in Contexts \cup {NoNote}
    BY <1>2 DEF Notes
  <2> QED
    BY <1>4, <2>1, <2>2 DEF IndexRows
<1>6. SessMove(a)
  BY <1>1, <1>2, <1>5 DEF SessMove, RowMove
<1>7. /\ r.plan = p /\ r.pc = "relation" /\ r.outcome = "APPLIED" /\ req' = [req EXCEPT ![a] = r]
  BY <1>1, <1>2 DEF Reqs
<1> HIDE DEF r
<1>8. NoteMove(a, r)
  BY <1>1 DEF NoteMove
<1>9. Underway(a, r, p, c, t)
  BY <1>1, <1>2, <1>4, <1>7 DEF Underway, Applying, Between, Closing
<1> QED
  BY <1>1, <1>2, <1>6, <1>7, <1>8, <1>9, ApplySolo

\* A relation or a conflict set is written between the other steps.
LEMMA RecordSolo ==
    ASSUME ReconInv, ReconInv', SoloFacts, Separate, NEW a \in Requests,
           NEW to, \/ req[a].pc = "relation" /\ to = "conflict"
                   \/ req[a].pc = "conflict" /\ to = "supersede",
           NEW changed \in BOOLEAN, NEW r, r = [req[a] EXCEPT !.pc = to, !.changed = changed],
           req' = [req EXCEPT ![a] = r], UNCHANGED <<note, db, candidate, errors>>, SessMove(a),
           \A x \in Contexts : Rows(a)'[IndexRow(x)] = Rows(a)[IndexRow(x)]
    PROVE  SoloFacts'
<1> DEFINE p == req[a].plan
           c == candidate[p]
           t == Target(p)
<1>1. req[a].pc \in Applying
  BY DEF Applying
<1>2. /\ req \in [Requests -> Reqs] /\ req[a] \in Reqs /\ req[a].outcome = "APPLIED"
      /\ RelationOf(p) # "UNRELATED" => t \in Contexts
  BY <1>1, Working
<1>3. /\ c \notin Existing /\ RelationOf(p) = "SUPERSEDES" =>
           /\ note[t].supersededBy = c /\ note[c].supersedes = t /\ Rows(a)[IndexRow(t)].by = c
      /\ Has(p, "MERGE_EVIDENCE") => p \in note[t].refs
  BY <1>1, <1>2, DoneSoFar DEF Between
<1>4. r.plan = p /\ r.pc = to /\ r.outcome = "APPLIED"
  BY <1>2 DEF Reqs
<1>5. NoteMove(a, r)
  BY DEF NoteMove
<1>6. Underway(a, r, p, c, t)
  BY <1>2, <1>3, <1>4 DEF Underway, Applying, Between, Closing
<1> QED
  BY <1>1, <1>2, <1>4, <1>5, <1>6, ApplySolo

LEMMA PersistRelationSolo ==
    ASSUME ReconInv, ReconInv', SoloFacts, Separate, NEW a \in Requests, PersistRelation(a)
    PROVE  SoloFacts'
<1> DEFINE p == req[a].plan
           k == RelationRow(candidate[p], Target(p), RelationOf(p))
           v == IF View(a, k) = NoRow THEN [candidate |-> candidate[p]] ELSE View(a, k)
           r1 == [req[a] EXCEPT !.pc = "conflict", !.changed = TRUE]
           r2 == [req[a] EXCEPT !.pc = "conflict", !.changed = req[a].changed]
<1>1. req[a].pc = "relation" /\ req[a].pc \in Applying /\ UNCHANGED <<note, db, candidate, errors>>
  BY DEF PersistRelation, Applying
<1>2. /\ req \in [Requests -> Reqs] /\ req[a] \in Reqs /\ p \in Plans /\ candidate[p] \in Contexts
      /\ RelationOf(p) \in Relations /\ (RelationOf(p) # "UNRELATED" => Target(p) \in Contexts)
  BY <1>1, Working
<1>3. CASE /\ Has(p, "CREATE_RELATION") /\ Put(a, k, v)
           /\ req' = [req EXCEPT ![a].pc = "conflict", ![a].changed = TRUE]
  <2>1. k \in RowKeys /\ k[1] = "relation"
    BY <1>2, <1>3, RelationKeys, ActionFacts DEF Has
  <2>2. v \in RowsOf(k)
    BY <1>2, <2>1, RowTypes, RowsFacts DEF RelationRows
  <2> HIDE DEF k, v
  <2>3. SessMove(a)
    BY <1>1, <1>3, <2>1, <2>2 DEF SessMove, RowMove
  <2>4. \A x \in Contexts : IndexRow(x) \in RowKeys /\ IndexRow(x) # k
    BY <2>1, ContextKeys
  <2>5. \A x \in Contexts : Rows(a)'[IndexRow(x)] = Rows(a)[IndexRow(x)]
    BY <1>1, <1>3, <2>1, <2>4, RowsPut
  <2>6. req' = [req EXCEPT ![a] = r1]
    BY <1>3
  <2> QED
    BY <1>1, <2>3, <2>5, <2>6, RecordSolo
<1>4. CASE Goto(a, "conflict") /\ UNCHANGED sess
  <2>1. req' = [req EXCEPT ![a] = r2] /\ req[a].changed \in BOOLEAN
    BY <1>2, <1>4 DEF Goto, Reqs
  <2>2. SessMove(a) /\ Rows(a)' = Rows(a)
    BY <1>1, <1>4 DEF SessMove, Rows
  <2> QED
    BY <1>1, <2>1, <2>2, RecordSolo
<1> QED
  BY <1>3, <1>4 DEF PersistRelation

LEMMA PersistConflictSolo ==
    ASSUME ReconInv, ReconInv', SoloFacts, Separate, NEW a \in Requests, PersistConflict(a)
    PROVE  SoloFacts'
<1> DEFINE p == req[a].plan
           c == candidate[p]
           k == ConflictRow(c)
           id == IF View(a, k) = NoRow THEN p ELSE View(a, k).id
           v == [id |-> id, set |-> p, status |-> "OPEN"]
           r1 == [req[a] EXCEPT !.pc = "supersede", !.changed = TRUE]
           r2 == [req[a] EXCEPT !.pc = "supersede", !.changed = req[a].changed]
<1>1. req[a].pc = "conflict" /\ req[a].pc \in Applying /\ UNCHANGED <<note, db, candidate, errors>>
  BY DEF PersistConflict, Applying
<1>2. /\ req \in [Requests -> Reqs] /\ req[a] \in Reqs /\ p \in Plans /\ c \in Contexts
  BY <1>1, Working
<1>3. CASE Put(a, k, v) /\ req' = [req EXCEPT ![a].pc = "supersede", ![a].changed = TRUE]
  <2>1. k \in RowKeys /\ k[1] = "conflict" /\ RowsOf(k) = ConflictRows
    BY <1>2, ContextKeys, RowTypes
  <2>2. /\ View(a, k) = Rows(a)[k] /\ Rows(a)[k] \in ConflictRows \cup {NoRow}
    BY <2>1, RowsFacts
  <2>3. id \in Plans /\ candidate[id] = c
    BY <1>2, <2>2 DEF ConflictRows, SoloFacts, RowsAgree, Agree
  <2> HIDE DEF id
  <2>4. v \in RowsOf(k) /\ v.id = id
    BY <1>2, <2>1, <2>3 DEF ConflictRows
  <2> HIDE DEF v
  <2>5. RowMove(a, k, v)
    BY <2>3, <2>4 DEF RowMove
  <2> HIDE DEF k
  <2>6. SessMove(a)
    BY <1>1, <1>3, <2>1, <2>4, <2>5 DEF SessMove
  <2>7. \A x \in Contexts : IndexRow(x) \in RowKeys /\ IndexRow(x) # k
    BY <2>1, ContextKeys
  <2>8. \A x \in Contexts : Rows(a)'[IndexRow(x)] = Rows(a)[IndexRow(x)]
    BY <1>1, <1>3, <2>1, <2>7, RowsPut
  <2>9. req' = [req EXCEPT ![a] = r1]
    BY <1>3
  <2> QED
    BY <1>1, <2>6, <2>8, <2>9, RecordSolo
<1>4. CASE Goto(a, "supersede") /\ UNCHANGED sess
  <2>1. req' = [req EXCEPT ![a] = r2] /\ req[a].changed \in BOOLEAN
    BY <1>2, <1>4 DEF Goto, Reqs
  <2>2. SessMove(a) /\ Rows(a)' = Rows(a)
    BY <1>1, <1>4 DEF SessMove, Rows
  <2> QED
    BY <1>1, <2>1, <2>2, RecordSolo
<1> QED
  BY <1>3, <1>4 DEF PersistConflict

LEMMA SupersedeSolo ==
    ASSUME ReconInv, ReconInv', SoloFacts, Separate, NEW a \in Requests, Supersede(a)
    PROVE  SoloFacts'
<1> DEFINE p == req[a].plan
           c == candidate[p]
           t == Target(p)
           n == [note[c] EXCEPT !.supersedes = t]
           r1 == [req[a] EXCEPT !.pc = "temporal"]
           r2 == [req[a] EXCEPT !.pc = "replacement", !.after = "temporal"]
<1>1. /\ req[a].pc = "supersede" /\ req[a].pc \in Applying /\ errors' = errors
      /\ UNCHANGED <<db, sess, candidate>>
  BY DEF Supersede, Applying
<1>2. /\ req \in [Requests -> Reqs] /\ req[a] \in Reqs /\ req[a].outcome = "APPLIED"
      /\ p \in Plans /\ c \in Contexts /\ RelationOf(p) \in Relations /\ Active(a)
      /\ RelationOf(p) # "UNRELATED" => t \in Contexts /\ t # c /\ note[t] # NoNote
  BY <1>1, Working
<1>3. /\ c \notin Existing /\ RelationOf(p) = "SUPERSEDES" =>
           /\ note[t].supersededBy = c /\ note[c].supersedes = t /\ Rows(a)[IndexRow(t)].by = c
      /\ Has(p, "MERGE_EVIDENCE") => p \in note[t].refs
  BY <1>1, <1>2, DoneSoFar DEF Between
<1>4. Has(p, "MARK_SUPERSEDED") <=> RelationOf(p) = "SUPERSEDES"
  BY <1>2, ActionFacts DEF Has, ActionsFor
<1>5. SessMove(a) /\ Rows(a)' = Rows(a)
  BY <1>1 DEF SessMove, Rows
<1>6. /\ r1.plan = p /\ r1.pc = "temporal" /\ r1.outcome = "APPLIED"
      /\ Goto(a, "temporal") => req' = [req EXCEPT ![a] = r1]
  BY <1>2 DEF Goto, Reqs
<1> HIDE DEF r1
<1>7. CASE ~Has(p, "MARK_SUPERSEDED") /\ Goto(a, "temporal") /\ UNCHANGED note
  <2>1. Underway(a, r1, p, c, t)
    BY <1>3, <1>4, <1>6, <1>7 DEF Underway, Applying, Between, Closing
  <2>2. NoteMove(a, r1)
    BY <1>7 DEF NoteMove
  <2> QED
    BY <1>1, <1>2, <1>5, <1>6, <1>7, <2>1, <2>2, ApplySolo
<1>8. CASE /\ Has(p, "MARK_SUPERSEDED") /\ Fail(a) /\ UNCHANGED note
           /\ \/ note[t].supersededBy \notin {NoNote, c}
              \/ note[c].supersedes \notin {NoNote, t} \/ c = t
  <2>1. c \in Existing
    BY <1>2, <1>3, <1>4, <1>8
  <2> QED
    BY <1>1, <1>8, <2>1, FailSolo
<1>9. CASE /\ Has(p, "MARK_SUPERSEDED") /\ Goto(a, "temporal") /\ UNCHANGED note
           /\ note[t].supersededBy = c /\ note[c].supersedes = t
  <2>1. Rows(a)[IndexRow(t)].by = c
    <3>1. CASE c \notin Existing
      BY <1>3, <1>4, <1>9, <3>1
    <3>2. CASE c \in Existing
      <4>1. errors = 0
        BY <1>2, <3>2 DEF Separate
      <4>2. t \in Contexts /\ note[t] # NoNote /\ c # NoNote
        BY <1>2, <1>4, <1>9, ReconciliationAssumption
      <4>3. Rows(a)[IndexRow(t)] = [by |-> note[t].supersededBy]
        BY <1>1, <1>2, <1>9, <4>1, <4>2 DEF SoloFacts, Synced
      <4> QED
        BY <1>9, <4>3
    <3> QED
      BY <3>1, <3>2
  <2>2. Underway(a, r1, p, c, t)
    BY <1>3, <1>5, <1>6, <1>9, <2>1 DEF Underway, Applying, Between, Closing
  <2>3. NoteMove(a, r1)
    BY <1>9 DEF NoteMove
  <2> QED
    BY <1>1, <1>2, <1>5, <1>6, <1>9, <2>2, <2>3, ApplySolo
<1>10. CASE /\ Has(p, "MARK_SUPERSEDED") /\ ~(note[t].supersededBy = c /\ note[c].supersedes = t)
            /\ note' = [note EXCEPT ![c].supersedes = t]
            /\ req' = [req EXCEPT ![a].pc = "replacement", ![a].after = "temporal"]
  <2>1. c \in Existing /\ t \in Contexts
    BY <1>2, <1>3, <1>4, <1>10
  <2>2. note[c] \in Notes /\ note[c] # NoNote
    BY <1>2, <2>1 DEF ReconInv, TypeOK, NotesOK
  <2>3. note[c].supersededBy = NoNote
    BY <1>1, <2>2, OwnUnmarked
  <2>4. n \in Notes /\ n.supersededBy = NoNote /\ n.supersedes = t /\ note' = [note EXCEPT ![c] = n]
    BY <1>10, <2>1, <2>2, <2>3 DEF Notes
  <2>5. note'[c] = n
    BY <1>2, <2>4 DEF ReconInv, TypeOK
  <2> HIDE DEF n
  <2>6. /\ r2.plan = p /\ r2.pc = "replacement" /\ r2.outcome = "APPLIED"
        /\ req' = [req EXCEPT ![a] = r2]
    BY <1>2, <1>10 DEF Reqs
  <2> HIDE DEF r2
  <2>7. NoteMove(a, r2)
    BY <1>1, <2>4 DEF NoteMove
  <2>8. Underway(a, r2, p, c, t)
    BY <2>1, <2>4, <2>5, <2>6 DEF Underway, Applying, Between, Closing
  <2> QED
    BY <1>1, <1>2, <1>5, <2>6, <2>7, <2>8, ApplySolo
<1> QED
  BY <1>7, <1>8, <1>9, <1>10 DEF Supersede

LEMMA ReplacementIndexSolo ==
    ASSUME ReconInv, ReconInv', SoloFacts, Separate, NEW a \in Requests, ReplacementIndex(a)
    PROVE  SoloFacts'
<1> DEFINE p == req[a].plan
           c == candidate[p]
           t == Target(p)
           k == IndexRow(c)
           v == [by |-> note[c].supersededBy]
           r == [req[a] EXCEPT !.pc = "mark"]
<1>1. /\ req[a].pc = "replacement" /\ req[a].pc \in Applying /\ errors' = errors
      /\ UNCHANGED <<note, db, candidate>> /\ Put(a, k, v) /\ Goto(a, "mark")
  BY DEF ReplacementIndex, Applying
<1>2. /\ req \in [Requests -> Reqs] /\ req[a] \in Reqs /\ req[a].outcome = "APPLIED"
      /\ p \in Plans /\ c \in Contexts /\ Doing(a)
  BY <1>1, Working
<1>3. c \in Existing /\ note[c].supersedes = t
  BY <1>1, <1>2 DEF Doing
<1>4. req[a].after = "temporal"
  BY <1>1, StepFacts DEF RequestShape
<1>5. note[c] \in Notes
  BY <1>2, <1>3 DEF ReconInv, TypeOK, NotesOK
<1>6. k \in RowKeys /\ v \in RowsOf(k)
  <2>1. k \in RowKeys /\ RowsOf(k) = IndexRows
    BY <1>2, ContextKeys, RowTypes
  <2>2. note[c].supersededBy \in Contexts \cup {NoNote}
    BY <1>5 DEF Notes
  <2> QED
    BY <2>1, <2>2 DEF IndexRows
<1>7. SessMove(a)
  BY <1>1, <1>6 DEF SessMove, RowMove
<1>8. /\ r.plan = p /\ r.pc = "mark" /\ r.outcome = "APPLIED" /\ r.after = "temporal"
      /\ req' = [req EXCEPT ![a] = r]
  BY <1>1, <1>2, <1>4 DEF Goto, Reqs
<1> HIDE DEF r
<1>9. NoteMove(a, r)
  BY <1>1 DEF NoteMove
<1>10. Underway(a, r, p, c, t)
  BY <1>1, <1>3, <1>8 DEF Underway, Applying, Between, Closing
<1> QED
  BY <1>1, <1>2, <1>7, <1>8, <1>9, <1>10, ApplySolo

LEMMA PersistTemporalSolo ==
    ASSUME ReconInv, ReconInv', SoloFacts, Separate, NEW a \in Requests, PersistTemporal(a)
    PROVE  SoloFacts'
<1> DEFINE p == req[a].plan
           c == candidate[p]
           t == Target(p)
           k == TemporalRow(c)
           v == Overlay(TRUE, {}, ConflictIds(p))
           old == View(a, TemporalRow(t))
           base == IF old = NoRow THEN Overlay(TRUE, {}, {}) ELSE old
           r1 == [req[a] EXCEPT !.pc = "save"]
           r2 == [req[a] EXCEPT !.pc = "temporalTarget", !.base = base]
<1>1. /\ req[a].pc = "temporal" /\ req[a].pc \in Applying /\ errors' = errors
      /\ UNCHANGED <<note, db, candidate>> /\ (sess' = sess \/ Put(a, k, v))
  BY DEF PersistTemporal, Applying
<1>2. /\ req \in [Requests -> Reqs] /\ req[a] \in Reqs /\ req[a].outcome = "APPLIED"
      /\ p \in Plans /\ MayAct(p) /\ c \in Contexts /\ RelationOf(p) \in Relations
      /\ PlanOf(p) # <<>> => t \in Contexts /\ t # c
      /\ RelationOf(p) # "UNRELATED" => PlanOf(p) # <<>>
      /\ Has(p, "MERGE_EVIDENCE") => PlanOf(p) # <<>>
  BY <1>1, Working
<1>3. /\ RelationOf(p) = "SUPERSEDES" =>
           /\ note[t].supersededBy = c /\ note[c].supersedes = t /\ Rows(a)[IndexRow(t)].by = c
      /\ Has(p, "MERGE_EVIDENCE") => p \in note[t].refs
  BY <1>1, <1>2, DoneSoFar DEF Closing
<1>4. k \in RowKeys /\ k[1] = "temporal" /\ v \in RowsOf(k)
  <2>1. k \in RowKeys /\ k[1] = "temporal" /\ RowsOf(k) = TemporalRows
    BY <1>2, ContextKeys, RowTypes
  <2>2. ConflictIds(p) \subseteq Plans
    BY <1>2, PlanFacts
  <2> QED
    BY <2>1, <2>2 DEF Overlay, TemporalRows
<1> HIDE DEF v
<1>5. SessMove(a)
  BY <1>1, <1>4 DEF SessMove, RowMove
<1>6. t \in Contexts /\ t # c => /\ Rows(a)'[IndexRow(t)] = Rows(a)[IndexRow(t)]
                                /\ Rows(a)'[TemporalRow(t)] = Rows(a)[TemporalRow(t)]
  <2>1. CASE sess' = sess
    BY <1>1, <2>1 DEF Rows
  <2>2. CASE Put(a, k, v)
    <3>1. SUFFICES ASSUME t \in Contexts, t # c
                   PROVE  /\ Rows(a)'[IndexRow(t)] = Rows(a)[IndexRow(t)]
                          /\ Rows(a)'[TemporalRow(t)] = Rows(a)[TemporalRow(t)]
      OBVIOUS
    <3>2. /\ IndexRow(t) \in RowKeys /\ TemporalRow(t) \in RowKeys
          /\ IndexRow(t) # k /\ TemporalRow(t) # k
      <4>1. /\ IndexRow(t) \in RowKeys /\ TemporalRow(t) \in RowKeys
            /\ IndexRow(t)[1] = "index"
        BY <3>1, ContextKeys
      <4>2. TemporalRow(t) # k
        BY <3>1, KeysDiffer
      <4>3. IndexRow(t) # k
        BY <1>4, <4>1
      <4> QED
        BY <4>1, <4>2, <4>3
    <3> HIDE DEF k
    <3>3. db' = db /\ k \in RowKeys
      BY <1>1, <1>4
    <3>4. \A x \in RowKeys : x # k => Rows(a)'[x] = Rows(a)[x]
      BY <2>2, <3>3, RowsPut
    <3> QED
      BY <3>2, <3>4
  <2> QED
    BY <1>1, <2>1, <2>2
<1>7. \A r : NoteMove(a, r)
  BY <1>1 DEF NoteMove
<1>8. CASE PlanOf(p) = <<>> /\ Goto(a, "save")
  <2>1. /\ r1.plan = p /\ r1.pc = "save" /\ r1.outcome = "APPLIED" /\ req' = [req EXCEPT ![a] = r1]
    BY <1>2, <1>8 DEF Goto, Reqs
  <2> HIDE DEF r1
  <2>2. RelationOf(p) = "UNRELATED" /\ ~Has(p, "MERGE_EVIDENCE")
    BY <1>2, <1>8
  <2>3. Underway(a, r1, p, c, t)
    BY <2>1, <2>2 DEF Underway, Applying, Between, Closing
  <2> QED
    BY <1>1, <1>2, <1>5, <1>7, <2>1, <2>3, ApplySolo
<1>9. CASE /\ PlanOf(p) # <<>>
           /\ req' = [req EXCEPT ![a].pc = "temporalTarget", ![a].base = base]
  <2>1. /\ r2.plan = p /\ r2.pc = "temporalTarget" /\ r2.outcome = "APPLIED" /\ r2.base = base
        /\ req' = [req EXCEPT ![a] = r2]
    BY <1>2, <1>9 DEF Reqs
  <2> HIDE DEF r2
  <2>2. old = Rows(a)[TemporalRow(t)]
    BY <1>2, <1>9, ContextKeys, RowsFacts
  <2>3. base = IF Rows(a)'[TemporalRow(t)] = NoRow THEN Overlay(TRUE, {}, {})
                                                  ELSE Rows(a)'[TemporalRow(t)]
    BY <1>2, <1>6, <1>9, <2>2
  <2> HIDE DEF base, old
  <2>4. Underway(a, r2, p, c, t)
    BY <1>1, <1>2, <1>3, <1>6, <1>9, <2>1, <2>3 DEF Underway, Applying, Between, Closing
  <2> QED
    BY <1>1, <1>2, <1>5, <1>7, <2>1, <2>4, ApplySolo
<1> QED
  BY <1>8, <1>9 DEF PersistTemporal

LEMMA PersistTemporalTargetSolo ==
    ASSUME ReconInv, ReconInv', SoloFacts, Separate, NEW a \in Requests, PersistTemporalTarget(a)
    PROVE  SoloFacts'
<1> DEFINE p == req[a].plan
           c == candidate[p]
           t == Target(p)
           k == TemporalRow(t)
           base == req[a].base
           new == CASE RelationOf(p) = "SUPERSEDES" ->
                         [base EXCEPT !.current = FALSE, !.supersededBy = @ \cup {candidate[p]}]
                    [] RelationOf(p) = "CONTRADICTS" ->
                         [base EXCEPT !.conflicts = @ \cup ConflictIds(p)]
                    [] OTHER -> base
           r == [req[a] EXCEPT !.pc = "save"]
<1>1. /\ req[a].pc = "temporalTarget" /\ req[a].pc \in Applying /\ errors' = errors
      /\ UNCHANGED <<note, db, candidate>> /\ Put(a, k, new) /\ Goto(a, "save")
  BY DEF PersistTemporalTarget, Applying
<1>2. /\ req \in [Requests -> Reqs] /\ req[a] \in Reqs /\ req[a].outcome = "APPLIED"
      /\ p \in Plans /\ MayAct(p) /\ c \in Contexts /\ Doing(a)
      /\ PlanOf(p) # <<>> => t \in Contexts
  BY <1>1, Working
<1>3. PlanOf(p) # <<>> /\ base \in TemporalRows
  BY <1>1, StepFacts DEF RequestShape
<1>4. /\ RelationOf(p) = "SUPERSEDES" =>
           /\ note[t].supersededBy = c /\ note[c].supersedes = t /\ Rows(a)[IndexRow(t)].by = c
      /\ Has(p, "MERGE_EVIDENCE") => p \in note[t].refs
  BY <1>1, <1>2, DoneSoFar DEF Closing
<1>5. Rows(a)[k] # NoRow => base = Rows(a)[k]
  BY <1>1, <1>2 DEF Doing
<1>6. /\ new \in TemporalRows /\ (new.current => base.current) /\ base.conflicts \subseteq new.conflicts
      /\ RelationOf(p) = "SUPERSEDES" => ~new.current
      /\ RelationOf(p) = "CONTRADICTS" => p \in new.conflicts
  <2>1. ConflictIds(p) \subseteq Plans /\ (RelationOf(p) = "CONTRADICTS" => ConflictIds(p) = {p})
    BY <1>2, PlanFacts DEF ConflictIds
  <2>2. CASE RelationOf(p) = "SUPERSEDES"
    BY <1>2, <1>3, <2>2 DEF TemporalRows
  <2>3. CASE RelationOf(p) = "CONTRADICTS"
    BY <1>3, <2>1, <2>3 DEF TemporalRows
  <2>4. CASE RelationOf(p) \notin {"SUPERSEDES", "CONTRADICTS"}
    BY <1>3, <2>4
  <2> QED
    BY <2>2, <2>3, <2>4
<1> HIDE DEF new
<1>7. k \in RowKeys /\ new \in RowsOf(k) /\ IndexRow(t) \in RowKeys /\ IndexRow(t) # k
  BY <1>2, <1>3, <1>6, ContextKeys, RowTypes
<1>8. RowMove(a, k, new)
  BY <1>3, <1>5, <1>6 DEF RowMove
<1>9. SessMove(a)
  BY <1>1, <1>7, <1>8 DEF SessMove
<1>10. Rows(a)'[k] = new /\ Rows(a)'[IndexRow(t)] = Rows(a)[IndexRow(t)]
  BY <1>1, <1>7, RowsPut
<1>11. /\ r.plan = p /\ r.pc = "save" /\ r.outcome = "APPLIED" /\ req' = [req EXCEPT ![a] = r]
  BY <1>1, <1>2 DEF Goto, Reqs
<1> HIDE DEF r
<1>12. NoteMove(a, r)
  BY <1>1 DEF NoteMove
<1>13. Underway(a, r, p, c, t)
  BY <1>1, <1>4, <1>6, <1>10, <1>11 DEF Underway, Applying, Between, Closing
<1> QED
  BY <1>1, <1>2, <1>9, <1>11, <1>12, <1>13, ApplySolo

LEMMA SaveResultSolo ==
    ASSUME ReconInv, ReconInv', SoloFacts, Separate, NEW a \in Requests, SaveResult(a)
    PROVE  SoloFacts'
<1> DEFINE p == req[a].plan
           c == candidate[p]
           t == Target(p)
           k == ResultRow(p)
           v == [status |-> req[a].outcome]
           r == [req[a] EXCEPT !.pc = "commit"]
<1>1. /\ req[a].pc = "save" /\ req[a].pc \in Applying /\ errors' = errors
      /\ UNCHANGED <<note, db, candidate>> /\ Put(a, k, v) /\ Goto(a, "commit")
  BY DEF SaveResult, Applying
<1>2. /\ req \in [Requests -> Reqs] /\ req[a] \in Reqs /\ p \in Plans /\ p # NoPlan /\ Doing(a)
      /\ RelationOf(p) # "UNRELATED" => t \in Contexts
      /\ RelationOf(p) \in Relations
  BY <1>1, Working
<1>3. k \in RowKeys /\ k[1] = "result" /\ v \in RowsOf(k)
  <2>1. k \in RowKeys /\ k[1] = "result" /\ RowsOf(k) = ResultRows
    BY <1>2, PlanKeys, RowTypes
  <2>2. req[a].outcome \in {"APPLIED", "PARTIAL", "FAILED"}
    BY <1>2 DEF Reqs
  <2> QED
    BY <2>1, <2>2 DEF ResultRows
<1>4. SessMove(a)
  BY <1>1, <1>3 DEF SessMove, RowMove
<1>5. /\ DOMAIN sess'[a] = DOMAIN sess[a] \cup {k} /\ sess'[a][k] = v
      /\ \A x : IndexRow(x) \in DOMAIN sess'[a] => IndexRow(x) \in DOMAIN sess[a]
  <2>1. \A x : IndexRow(x) # k
    BY DEF IndexRow, ResultRow
  <2> QED
    BY <1>1, <2>1, PutFacts
<1>6. t \in Contexts => /\ Rows(a)'[IndexRow(t)] = Rows(a)[IndexRow(t)]
                       /\ Rows(a)'[TemporalRow(t)] = Rows(a)[TemporalRow(t)]
  <2>1. SUFFICES ASSUME t \in Contexts
                 PROVE  /\ Rows(a)'[IndexRow(t)] = Rows(a)[IndexRow(t)]
                        /\ Rows(a)'[TemporalRow(t)] = Rows(a)[TemporalRow(t)]
    OBVIOUS
  <2>2. /\ IndexRow(t) \in RowKeys /\ TemporalRow(t) \in RowKeys
        /\ IndexRow(t) # k /\ TemporalRow(t) # k
    BY <1>3, <2>1, ContextKeys
  <2> QED
    BY <1>1, <1>3, <2>2, RowsPut
<1>7. /\ r.plan = p /\ r.pc = "commit" /\ r.outcome = req[a].outcome /\ req' = [req EXCEPT ![a] = r]
  BY <1>1, <1>2 DEF Goto, Reqs
<1> HIDE DEF r
<1>8. NoteMove(a, r)
  BY <1>1 DEF NoteMove
<1>9. req[a].outcome = "APPLIED" =>
        /\ RelationOf(p) = "SUPERSEDES" =>
             /\ note[t].supersededBy = c /\ note[c].supersedes = t /\ Rows(a)[IndexRow(t)].by = c
        /\ Has(p, "MERGE_EVIDENCE") => p \in note[t].refs
  BY <1>1, DoneSoFar DEF Closing
<1>10. req[a].outcome = "APPLIED" =>
         /\ RelationOf(p) = "SUPERSEDES" => ~Rows(a)[TemporalRow(t)].current
         /\ RelationOf(p) = "CONTRADICTS" => p \in Rows(a)[TemporalRow(t)].conflicts
  BY <1>1, <1>2 DEF Doing, RowsKept
<1>11. Underway(a, r, p, c, t)
  BY <1>1, <1>2, <1>5, <1>6, <1>7, <1>9, <1>10 DEF Underway, Applying, Between, Closing
<1> QED
  BY <1>1, <1>2, <1>4, <1>5, <1>7, <1>8, <1>11, ApplySolo

-----------------------------------------------------------------------------
(* The other requests                                                      *)

\* What a request that applies nothing writes.
PlainMove(a) ==
    \/ sess' = sess
    \/ \E d \in Contexts : \E v \in ConflictRows : Put(a, ConflictRow(d), v) /\ candidate[v.id] = d
    \/ \E d \in Contexts : \E v \in TemporalRows :
         Put(a, TemporalRow(d), v) /\ db[TemporalRow(d)] = NoRow
    \/ \E p \in Plans : \E v \in Seq(Decisions) :
         /\ Put(a, PlanRow(p), v) /\ Recalled(v)
         /\ \A i \in DOMAIN v : v[i].context # candidate[p]

\* The rows of other tables than these stay as they are.
LEMMA PlainRows ==
    ASSUME ReconInv, ReconInv', NEW a \in Requests, db' = db, PlainMove(a)
    PROVE  /\ \A b \in Requests : b # a => sess'[b] = sess[b]
           /\ \A d \in Contexts :
                /\ Rows(a)'[IndexRow(d)] = Rows(a)[IndexRow(d)]
                /\ IndexRow(d) \in DOMAIN sess'[a] => IndexRow(d) \in DOMAIN sess[a]
                /\ db[TemporalRow(d)] # NoRow => Rows(a)'[TemporalRow(d)] = Rows(a)[TemporalRow(d)]
                /\ \/ Rows(a)'[ConflictRow(d)] = Rows(a)[ConflictRow(d)]
                   \/ candidate[Rows(a)'[ConflictRow(d)].id] = d
           /\ \A p \in Plans : PlanRow(p) \in DOMAIN sess'[a] =>
                \/ PlanRow(p) \in DOMAIN sess[a] /\ sess'[a][PlanRow(p)] = sess[a][PlanRow(p)]
                \/ /\ Recalled(sess'[a][PlanRow(p)])
                   /\ \A i \in DOMAIN sess'[a][PlanRow(p)] :
                        sess'[a][PlanRow(p)][i].context # candidate[p]
<1>0. \A d \in Contexts : /\ IndexRow(d) \in RowKeys /\ IndexRow(d)[1] = "index"
                          /\ TemporalRow(d) \in RowKeys /\ TemporalRow(d)[1] = "temporal"
                          /\ ConflictRow(d) \in RowKeys /\ ConflictRow(d)[1] = "conflict"
  BY ContextKeys
<1>1. \A p \in Plans : PlanRow(p) \in RowKeys /\ PlanRow(p)[1] = "plan"
  BY PlanKeys
<1>2. CASE sess' = sess
  <2>1. Rows(a)' = Rows(a)
    BY <1>2 DEF Rows
  <2> QED
    BY <1>2, <2>1
<1>3. ASSUME NEW e \in Contexts, NEW v \in ConflictRows, Put(a, ConflictRow(e), v), candidate[v.id] = e
      PROVE  /\ \A b \in Requests : b # a => sess'[b] = sess[b]
             /\ \A d \in Contexts :
                  /\ Rows(a)'[IndexRow(d)] = Rows(a)[IndexRow(d)]
                  /\ IndexRow(d) \in DOMAIN sess'[a] => IndexRow(d) \in DOMAIN sess[a]
                  /\ Rows(a)'[TemporalRow(d)] = Rows(a)[TemporalRow(d)]
                  /\ \/ Rows(a)'[ConflictRow(d)] = Rows(a)[ConflictRow(d)]
                     \/ candidate[Rows(a)'[ConflictRow(d)].id] = d
             /\ \A p \in Plans : PlanRow(p) \in DOMAIN sess'[a] =>
                  PlanRow(p) \in DOMAIN sess[a] /\ sess'[a][PlanRow(p)] = sess[a][PlanRow(p)]
  <2>1. PICK k : k = ConflictRow(e)
    OBVIOUS
  <2>2. k \in RowKeys /\ k[1] = "conflict" /\ Put(a, k, v)
    BY <1>0, <1>3, <2>1
  <2>3. /\ Rows(a)'[k] = v /\ \A x \in RowKeys : x # k => Rows(a)'[x] = Rows(a)[x]
        /\ DOMAIN sess'[a] = DOMAIN sess[a] \cup {k}
        /\ \A x \in DOMAIN sess[a] : x # k => sess'[a][x] = sess[a][x]
        /\ \A b \in Requests : b # a => sess'[b] = sess[b]
    BY <2>2, RowsPut, PutFacts
  <2>4. \A d \in Contexts : ConflictRow(d) = k => d = e
    BY <2>1, KeysDiffer
  <2> QED
    BY <1>0, <1>1, <1>3, <2>2, <2>3, <2>4
<1>4. ASSUME NEW e \in Contexts, NEW v \in TemporalRows, Put(a, TemporalRow(e), v),
             db[TemporalRow(e)] = NoRow
      PROVE  /\ \A b \in Requests : b # a => sess'[b] = sess[b]
             /\ \A d \in Contexts :
                  /\ Rows(a)'[IndexRow(d)] = Rows(a)[IndexRow(d)]
                  /\ IndexRow(d) \in DOMAIN sess'[a] => IndexRow(d) \in DOMAIN sess[a]
                  /\ db[TemporalRow(d)] # NoRow => Rows(a)'[TemporalRow(d)] = Rows(a)[TemporalRow(d)]
                  /\ Rows(a)'[ConflictRow(d)] = Rows(a)[ConflictRow(d)]
             /\ \A p \in Plans : PlanRow(p) \in DOMAIN sess'[a] =>
                  PlanRow(p) \in DOMAIN sess[a] /\ sess'[a][PlanRow(p)] = sess[a][PlanRow(p)]
  <2>1. PICK k : k = TemporalRow(e)
    OBVIOUS
  <2>2. k \in RowKeys /\ k[1] = "temporal" /\ Put(a, k, v) /\ db[k] = NoRow
    BY <1>0, <1>4, <2>1
  <2>3. /\ Rows(a)'[k] = v /\ \A x \in RowKeys : x # k => Rows(a)'[x] = Rows(a)[x]
        /\ DOMAIN sess'[a] = DOMAIN sess[a] \cup {k}
        /\ \A x \in DOMAIN sess[a] : x # k => sess'[a][x] = sess[a][x]
        /\ \A b \in Requests : b # a => sess'[b] = sess[b]
    BY <2>2, RowsPut, PutFacts
  <2> QED
    BY <1>0, <1>1, <2>2, <2>3
<1>5. ASSUME NEW q \in Plans, NEW v \in Seq(Decisions), Put(a, PlanRow(q), v), Recalled(v),
             \A i \in DOMAIN v : v[i].context # candidate[q]
      PROVE  /\ \A b \in Requests : b # a => sess'[b] = sess[b]
             /\ \A d \in Contexts :
                  /\ Rows(a)'[IndexRow(d)] = Rows(a)[IndexRow(d)]
                  /\ IndexRow(d) \in DOMAIN sess'[a] => IndexRow(d) \in DOMAIN sess[a]
                  /\ Rows(a)'[TemporalRow(d)] = Rows(a)[TemporalRow(d)]
                  /\ Rows(a)'[ConflictRow(d)] = Rows(a)[ConflictRow(d)]
             /\ \A p \in Plans : PlanRow(p) \in DOMAIN sess'[a] =>
                  \/ PlanRow(p) \in DOMAIN sess[a] /\ sess'[a][PlanRow(p)] = sess[a][PlanRow(p)]
                  \/ /\ Recalled(sess'[a][PlanRow(p)])
                     /\ \A i \in DOMAIN sess'[a][PlanRow(p)] :
                          sess'[a][PlanRow(p)][i].context # candidate[p]
  <2>1. PICK k : k = PlanRow(q)
    OBVIOUS
  <2>2. k \in RowKeys /\ k[1] = "plan" /\ Put(a, k, v)
    BY <1>1, <1>5, <2>1
  <2>3. /\ Rows(a)'[k] = v /\ \A x \in RowKeys : x # k => Rows(a)'[x] = Rows(a)[x]
        /\ DOMAIN sess'[a] = DOMAIN sess[a] \cup {k} /\ sess'[a][k] = v
        /\ \A x \in DOMAIN sess[a] : x # k => sess'[a][x] = sess[a][x]
        /\ \A b \in Requests : b # a => sess'[b] = sess[b]
    BY <2>2, RowsPut, PutFacts
  <2>4. \A p \in Plans : PlanRow(p) = k => p = q
    BY <2>1, KeysDiffer
  <2> QED
    BY <1>0, <1>1, <1>5, <2>2, <2>3, <2>4
<1> QED
  BY <1>2, <1>3, <1>4, <1>5 DEF PlainMove

LEMMA PlainSolo ==
    ASSUME ReconInv, ReconInv', SoloFacts, Separate, NEW a \in Requests,
           req[a].pc \in {"review", "resolve", "scan", "scanPlan"},
           NEW r, r.plan = req[a].plan, r.pc \in {"scanPlan", "commit"},
           req' = [req EXCEPT ![a] = r], UNCHANGED <<note, db, candidate, errors>>, PlainMove(a)
    PROVE  SoloFacts'
<1>1. req[a].plan = NoPlan /\ NoPlan \notin Plans /\ req \in [Requests -> Reqs] /\ Active(a)
  BY IdleFacts, ReconciliationAssumption DEF Active
<1>2. req'[a] = r /\ Active(a)'
  BY <1>1 DEF Active
<1>3. Doing(a)'
  BY <1>1, <1>2 DEF Doing, Between, Closing
<1>4. /\ SoloSess(a)
      /\ \A d \in Contexts :
           /\ Rows(a)'[IndexRow(d)] = Rows(a)[IndexRow(d)]
           /\ IndexRow(d) \in DOMAIN sess'[a] => IndexRow(d) \in DOMAIN sess[a]
           /\ db[TemporalRow(d)] # NoRow => Rows(a)'[TemporalRow(d)] = Rows(a)[TemporalRow(d)]
           /\ \/ Rows(a)'[ConflictRow(d)] = Rows(a)[ConflictRow(d)]
              \/ candidate[Rows(a)'[ConflictRow(d)].id] = d
      /\ \A p \in Plans : PlanRow(p) \in DOMAIN sess'[a] =>
           \/ PlanRow(p) \in DOMAIN sess[a] /\ sess'[a][PlanRow(p)] = sess[a][PlanRow(p)]
           \/ /\ Recalled(sess'[a][PlanRow(p)])
              /\ \A i \in DOMAIN sess'[a][PlanRow(p)] :
                   sess'[a][PlanRow(p)][i].context # candidate[p]
  BY PlainRows DEF SoloSess
<1>5. \A p \in Plans : PlanRow(p) \in DOMAIN sess'[a] =>
        /\ Recalled(sess'[a][PlanRow(p)])
        /\ \A i \in DOMAIN sess'[a][PlanRow(p)] : sess'[a][PlanRow(p)][i].context # candidate[p]
  BY <1>4 DEF SoloFacts, PlansApart
<1>6. Agree(db)' /\ Agree(Rows(a))'
  BY <1>4 DEF SoloFacts, RowsAgree, Agree
<1>7. \A d \in Contexts : db[IndexRow(d)] # NoRow /\ db[IndexRow(d)].by # NoNote =>
        Rows(a)'[IndexRow(d)] = db[IndexRow(d)]
  BY <1>4 DEF SoloFacts, RowsAgree
<1>8. ASSUME NEW q \in Plans, Applied(q)
      PROVE  NotesKept(q)' /\ RowsKept(q, Rows(a))'
  <2>1. /\ RelationOf(q)' = RelationOf(q) /\ Target(q)' = Target(q)
        /\ \A x : Has(q, x)' <=> Has(q, x)
    BY SameTables
  <2>2. NotesKept(q) /\ RowsKept(q, Rows(a))
    BY <1>8 DEF SoloFacts, PromisesKept
  <2>3. RelationOf(q) # "UNRELATED" =>
          Target(q) \in Contexts /\ db[TemporalRow(Target(q))] # NoRow
    BY <1>8, AppliedFacts
  <2> QED
    BY <1>4, <2>1, <2>2, <2>3 DEF NotesKept, RowsKept
<1>9. \A q \in Plans : errors' = 0 /\ candidate[q] \notin Existing
                       /\ IndexRow(candidate[q]) \in DOMAIN sess'[a] => Applied(q)
  <2>1. \A q \in Plans : candidate[q] \in Contexts
    BY DEF ReconInv, TypeOK
  <2> QED
    BY <1>1, <1>4, <2>1 DEF SoloFacts, IndexedApplied
<1>10. \A d \in Contexts : errors' = 0 /\ note'[d] # NoNote /\ note'[d].supersededBy # NoNote =>
         Rows(a)'[IndexRow(d)] = [by |-> note'[d].supersededBy]
  BY <1>1, <1>4 DEF SoloFacts, Synced
<1> QED
  BY <1>1, <1>2, <1>3, <1>4, <1>5, <1>6, <1>7, <1>8, <1>9, <1>10, SoloStep

LEMMA ConflictWriteSolo ==
    ASSUME ReconInv, ReconInv', SoloFacts, Separate, NEW a \in Requests, ConflictWrite(a)
    PROVE  SoloFacts'
<1> DEFINE st == IF req[a].pc = "review" THEN "REVIEWING" ELSE "RESOLVED"
           v == [req[a].base EXCEPT !.status = st]
           r == [req[a] EXCEPT !.pc = "commit"]
<1>1. /\ req[a].pc \in {"review", "resolve"} /\ UNCHANGED <<note, db, candidate, errors>>
      /\ Put(a, ConflictRow(req[a].ctx), v) /\ Goto(a, "commit")
  BY DEF ConflictWrite
<1>2. req \in [Requests -> Reqs] /\ req[a] \in Reqs /\ RequestShape(a) /\ req[a].ctx \in Contexts
  BY <1>1, IdleFacts
<1>3. req[a].base \in ConflictRows /\ candidate[req[a].base.id] = req[a].ctx
  BY <1>1, <1>2 DEF RequestShape, SoloFacts, Doing
<1>4. v \in ConflictRows /\ v.id = req[a].base.id
  BY <1>3 DEF ConflictRows
<1> HIDE DEF v
<1>5. PlainMove(a)
  BY <1>1, <1>2, <1>3, <1>4 DEF PlainMove
<1>6. r.plan = req[a].plan /\ r.pc = "commit" /\ req' = [req EXCEPT ![a] = r]
  BY <1>1, <1>2 DEF Goto, Reqs
<1> QED
  BY <1>1, <1>5, <1>6, PlainSolo

LEMMA ScanBackfillSolo ==
    ASSUME ReconInv, ReconInv', SoloFacts, Separate, NEW a \in Requests, ScanBackfill(a)
    PROVE  SoloFacts'
<1> DEFINE r == [req[a] EXCEPT !.pc = "scanPlan"]
<1>1. /\ req[a].pc = "scan" /\ UNCHANGED <<note, db, candidate, errors>>
      /\ IF req[a].base # NoRow THEN Put(a, TemporalRow(req[a].ctx), req[a].base) ELSE UNCHANGED sess
      /\ Goto(a, "scanPlan")
  BY DEF ScanBackfill
<1>2. req \in [Requests -> Reqs] /\ req[a] \in Reqs /\ RequestShape(a) /\ req[a].ctx \in Contexts
  BY <1>1, IdleFacts
<1>3. req[a].base # NoRow => req[a].base \in TemporalRows /\ db[TemporalRow(req[a].ctx)] = NoRow
  BY <1>1, <1>2 DEF RequestShape, SoloFacts, Doing
<1>4. PlainMove(a)
  BY <1>1, <1>2, <1>3 DEF PlainMove
<1>5. r.plan = req[a].plan /\ r.pc = "scanPlan" /\ req' = [req EXCEPT ![a] = r]
  BY <1>1, <1>2 DEF Goto, Reqs
<1> QED
  BY <1>1, <1>4, <1>5, PlainSolo

LEMMA ScanPlanSolo ==
    ASSUME ReconInv, ReconInv', SoloFacts, Separate, NEW a \in Requests, ScanPlan(a)
    PROVE  SoloFacts'
<1> DEFINE r == [req[a] EXCEPT !.pc = "commit"]
<1>1. req[a].pc = "scanPlan" /\ UNCHANGED <<note, db, candidate, errors>> /\ Goto(a, "commit")
  BY DEF ScanPlan
<1>2. req \in [Requests -> Reqs] /\ req[a] \in Reqs
  BY IdleFacts
<1>3. DecisionLists \subseteq Seq(Decisions)
  BY ReconciliationAssumption
<1>4. PlainMove(a)
  BY <1>3 DEF ScanPlan, PlainMove
<1>5. r.plan = req[a].plan /\ r.pc = "commit" /\ req' = [req EXCEPT ![a] = r]
  BY <1>1, <1>2 DEF Goto, Reqs
<1> QED
  BY <1>1, <1>4, <1>5, PlainSolo

-----------------------------------------------------------------------------
(* Where a request begins and ends                                         *)

\* A state in which no session holds a row.
LEMMA BoundarySolo ==
    ASSUME ReconInv, ReconInv', SoloFacts, UNCHANGED <<note, db, candidate>>,
           errors' = 0 => errors = 0 /\ \A b \in Requests : ~Active(b),
           \A b \in Requests : DOMAIN sess'[b] = {},
           OneAtATime', \A b \in Requests : Doing(b)'
    PROVE  SoloFacts'
<1>0. /\ \A p : /\ PlanOf(p)' = PlanOf(p) /\ RelationOf(p)' = RelationOf(p)
                /\ Target(p)' = Target(p) /\ (Applied(p)' <=> Applied(p))
                /\ (Stored(p)' <=> Stored(p))
      /\ \A p, x : Has(p, x)' <=> Has(p, x)
  BY SameTables
<1>1. \A b \in Requests : \A k \in RowKeys : Rows(b)'[k] = db[k]
  <2>1. DOMAIN db = RowKeys
    BY DEF ReconInv, TypeOK
  <2> QED
    BY <2>1 DEF Rows, Over
<1>2. PlansApart'
  <2>1. \A ds : Recalled(ds)' <=> Recalled(ds)
    BY DEF Recalled
  <2> QED
    BY <1>0, <2>1 DEF SoloFacts, PlansApart
<1>3. \A d \in Contexts : /\ IndexRow(d) \in RowKeys /\ TemporalRow(d) \in RowKeys
                          /\ ConflictRow(d) \in RowKeys
  BY ContextKeys
<1>4. RowsAgree'
  BY <1>1, <1>3 DEF SoloFacts, RowsAgree, Agree
<1>5. Marked'
  BY <1>0 DEF SoloFacts, Marked
<1>6. IndexedApplied'
  BY <1>0 DEF SoloFacts, IndexedApplied
<1>7. Synced'
  BY <1>1, <1>3 DEF SoloFacts, Synced
<1>8. PromisesKept'
  <2>1. SUFFICES ASSUME NEW q \in Plans, Applied(q)
                 PROVE  NotesKept(q)' /\ RowsKept(q, db)' /\ \A b \in Requests : RowsKept(q, Rows(b))'
    BY <1>0 DEF PromisesKept
  <2>2. NotesKept(q) /\ RowsKept(q, db)
    BY <2>1 DEF SoloFacts, PromisesKept
  <2>3. RelationOf(q) # "UNRELATED" => Target(q) \in Contexts
    BY <2>1, AppliedFacts
  <2>4. NotesKept(q)' /\ RowsKept(q, db)'
    BY <1>0, <2>2 DEF NotesKept, RowsKept
  <2>5. ASSUME NEW b \in Requests
        PROVE  RowsKept(q, Rows(b))'
    BY <1>0, <1>1, <1>3, <2>2, <2>3 DEF RowsKept
  <2> QED
    BY <2>4, <2>5
<1> QED
  BY <1>2, <1>4, <1>5, <1>6, <1>7, <1>8 DEF SoloFacts

\* A request that ends.
LEMMA EndSolo ==
    ASSUME ReconInv, ReconInv', SoloFacts, NEW a \in Requests, Done(a),
           \/ \A b \in Requests : ~Active(b)
           \/ Active(a)
    PROVE  /\ OneAtATime' /\ \A b \in Requests : ~Active(b)' /\ Doing(b)' /\ DOMAIN sess'[b] = {}
<1>1. /\ req \in [Requests -> Reqs] /\ req'[a] = [Idle EXCEPT !.pc = "done"]
      /\ \A b \in Requests : b # a => req'[b] = req[b]
  BY DEF ReconInv, TypeOK, Done
<1>2. \A b \in Requests : b # a => ~Active(b)
  BY DEF SoloFacts, OneAtATime
<1>3. \A b \in Requests : ~Active(b)'
  BY <1>1, <1>2 DEF Active, Idle
<1>4. ASSUME NEW b \in Requests
      PROVE  Doing(b)' /\ DOMAIN sess'[b] = {}
  <2>1. req'[b].pc \in {"idle", "done"} /\ req'[b].plan = NoPlan /\ DOMAIN sess'[b] = {}
    BY <1>3 DEF ReconInv, RequestsOK, RequestShape, Active, Applying
  <2> QED
    BY <2>1 DEF Doing, Between, Closing
<1> QED
  BY <1>3, <1>4 DEF OneAtATime

LEMMA DatabaseErrorSolo ==
    ASSUME ReconInv, ReconInv', SoloFacts, NEW a \in Requests, DatabaseError(a)
    PROVE  SoloFacts'
<1>1. errors' # 0
  BY ReconciliationAssumption DEF DatabaseError, ReconInv, TypeOK
<1>2. Active(a) /\ Done(a) /\ UNCHANGED <<note, db, candidate>>
  BY DEF DatabaseError
<1> QED
  BY <1>1, <1>2, EndSolo, BoundarySolo

\* A request that starts while no other is under way.
LEMMA StartSolo ==
    ASSUME ReconInv, ReconInv', SoloFacts, NEW a \in Requests, \A b \in Requests : ~Active(b),
           NEW r, req' = [req EXCEPT ![a] = r], UNCHANGED <<note, db, sess, candidate, errors>>,
           DOMAIN sess[a] = {} => Doing(a)'
    PROVE  SoloFacts'
<1>1. /\ req \in [Requests -> Reqs] /\ req'[a] = r
      /\ \A b \in Requests : b # a => req'[b] = req[b]
  BY DEF ReconInv, TypeOK
<1>2. \A b \in Requests : DOMAIN sess[b] = {}
  BY IdleFacts
<1>3. \A b \in Requests : b # a => ~Active(b)'
  BY <1>1 DEF Active
<1>4. OneAtATime'
  BY <1>3 DEF OneAtATime
<1>5. ASSUME NEW b \in Requests
      PROVE  Doing(b)'
  <2>1. CASE b = a
    BY <1>2, <2>1
  <2>2. CASE b # a
    <3>1. req'[b].pc \in {"idle", "done"} /\ req'[b].plan = NoPlan
      BY <1>3, <2>2 DEF ReconInv, RequestsOK, RequestShape, Active, Applying
    <3> QED
      BY <3>1 DEF Doing, Between, Closing
  <2> QED
    BY <2>1, <2>2
<1> QED
  BY <1>2, <1>4, <1>5, BoundarySolo

LEMMA BeginSolo ==
    ASSUME ReconInv, ReconInv', SoloFacts, ~overlap, NEW a \in Requests, NEW p \in Plans,
           NEW retry \in BOOLEAN, NEW approve \in BOOLEAN, Begin(a, p, retry, approve)
    PROVE  SoloFacts'
<1> DEFINE r == [Idle EXCEPT !.pc = "create", !.plan = p]
           old == db[ResultRow(p)]
           replay == old # NoRow /\ (old.status = "APPLIED" \/ ~retry)
<1>1. /\ \A b \in Requests : ~Active(b)
      /\ UNCHANGED <<note, db, sess, candidate, errors>>
  BY DEF Begin, MayStart
<1>2. CASE Done(a)
  BY <1>1, <1>2, EndSolo, BoundarySolo
<1>3. CASE ~replay /\ req' = [req EXCEPT ![a] = r]
  <2>1. r.pc = "create" /\ r.plan = p
    BY DEF Idle
  <2>2. req'[a] = r
    BY <1>3 DEF ReconInv, TypeOK
  <2> HIDE DEF r
  <2>3. ~Applied(p)'
    BY <1>1, <1>3 DEF Applied, Row, ResultRow
  <2>4. DOMAIN sess[a] = {} => Doing(a)'
    BY <1>1, <2>1, <2>2, <2>3 DEF Doing, Between, Closing
  <2> QED
    BY <1>1, <1>3, <2>4, StartSolo
<1> QED
  BY <1>2, <1>3 DEF Begin

LEMMA ConflictReadSolo ==
    ASSUME ReconInv, ReconInv', SoloFacts, ~overlap, NEW a \in Requests,
           NEW kind \in {"review", "resolve"}, NEW c \in Contexts, ConflictRead(a, kind, c)
    PROVE  SoloFacts'
<1> DEFINE r == [Idle EXCEPT !.pc = kind, !.ctx = c, !.base = db[ConflictRow(c)]]
<1>1. /\ \A b \in Requests : ~Active(b) /\ db[ConflictRow(c)] # NoRow
      /\ UNCHANGED <<note, db, sess, candidate, errors>> /\ req' = [req EXCEPT ![a] = r]
  BY DEF ConflictRead, MayStart
<1>2. r.pc = kind /\ r.plan = NoPlan /\ r.ctx = c /\ r.base = db[ConflictRow(c)]
  BY DEF Idle
<1>3. req'[a] = r
  BY <1>1 DEF ReconInv, TypeOK
<1> HIDE DEF r
<1>4. candidate[r.base.id] = c
  BY <1>1, <1>2 DEF SoloFacts, RowsAgree, Agree
<1>5. Doing(a)'
  BY <1>1, <1>2, <1>3, <1>4 DEF Doing, Between, Closing
<1> QED
  BY <1>1, <1>5, StartSolo

LEMMA ScanReadSolo ==
    ASSUME ReconInv, ReconInv', SoloFacts, ~overlap, NEW a \in Requests, NEW c \in Contexts,
           ScanRead(a, c)
    PROVE  SoloFacts'
<1> DEFINE base == IF db[TemporalRow(c)] = NoRow THEN Backfill(c) ELSE NoRow
           r == [Idle EXCEPT !.pc = "scan", !.ctx = c, !.base = base]
<1>1. /\ \A b \in Requests : ~Active(b)
      /\ UNCHANGED <<note, db, sess, candidate, errors>> /\ req' = [req EXCEPT ![a] = r]
  BY DEF ScanRead, MayStart
<1>2. r.pc = "scan" /\ r.plan = NoPlan /\ r.ctx = c /\ (r.base # NoRow => db[TemporalRow(c)] = NoRow)
  BY DEF Idle
<1>3. req'[a] = r
  BY <1>1 DEF ReconInv, TypeOK
<1> HIDE DEF r
<1>4. Doing(a)'
  BY <1>1, <1>2, <1>3 DEF Doing, Between, Closing, TemporalRow
<1> QED
  BY <1>1, <1>4, StartSolo

\* The target of a plan that has just been stored is one of its Contexts.
LEMMA TargetNext ==
    ASSUME NEW p, PlanOf(p)' \in Seq(Decisions), PlanOf(p)' # <<>>
    PROVE  \E i \in DOMAIN PlanOf(p)' : Target(p)' = PlanOf(p)'[i].context
<1> DEFINE ds == PlanOf(p)'
           rel == PrimaryRelation(ds)
           T == {i \in DOMAIN ds : ds[i].relation = rel}
<1>1. /\ DOMAIN ds \in SUBSET Nat /\ DOMAIN ds = 1 .. Len(ds) /\ Len(ds) \in Nat
      /\ \A i \in DOMAIN ds : ds[i] \in Decisions
  OBVIOUS
<1>2. T \in SUBSET Nat /\ T # {}
  BY <1>1, PrimaryType
<1>3. PICK i \in T : \A j \in T : i <= j
  BY <1>2, Least
<1>4. \A j \in 1 .. i - 1 : ds[j].relation # rel
  BY <1>1, <1>3
<1>5. \E k \in DOMAIN ds : ds[k].relation = rel /\ \A j \in 1 .. k - 1 : ds[j].relation # rel
  BY <1>3, <1>4
<1>6. RelationOf(p)' = rel
  BY DEF RelationOf
<1> QED
  BY <1>5, <1>6 DEF Target

\* Plans are added between requests or while one is under way.
LEMMA TableSolo ==
    ASSUME ReconInv, ReconInv', SoloFacts, UNCHANGED <<note, sess, req, candidate, errors>>,
           \A k \in RowKeys : k[1] # "plan" => db'[k] = db[k],
           \A q \in Plans : PlanOf(q) # NoRow => PlanOf(q)' = PlanOf(q),
           \A q \in Plans : db'[PlanRow(q)] # db[PlanRow(q)] =>
             Recalled(db'[PlanRow(q)]) /\ (Stored(q)' => Target(q)' # candidate[q])
    PROVE  SoloFacts'
<1>0. \A d \in Contexts : /\ IndexRow(d) \in RowKeys /\ TemporalRow(d) \in RowKeys
                          /\ ConflictRow(d) \in RowKeys /\ db'[IndexRow(d)] = db[IndexRow(d)]
                          /\ db'[TemporalRow(d)] = db[TemporalRow(d)]
                          /\ db'[ConflictRow(d)] = db[ConflictRow(d)]
  <2>1. \A d \in Contexts : /\ IndexRow(d) \in RowKeys /\ IndexRow(d)[1] = "index"
                            /\ TemporalRow(d) \in RowKeys /\ TemporalRow(d)[1] = "temporal"
                            /\ ConflictRow(d) \in RowKeys /\ ConflictRow(d)[1] = "conflict"
    BY ContextKeys
  <2> QED
    BY <2>1
<1>1. \A q \in Plans : Applied(q)' <=> Applied(q)
  <2>1. \A q \in Plans : ResultRow(q) \in RowKeys /\ ResultRow(q)[1] = "result"
    BY PlanKeys
  <2>2. \A q \in Plans : db'[ResultRow(q)] = db[ResultRow(q)]
    BY <2>1
  <2> QED
    BY <2>2 DEF Applied, Row, ResultRow
<1>2. \A q \in Plans : PlanOf(q) # NoRow =>
        /\ PlanOf(q)' = PlanOf(q) /\ RelationOf(q)' = RelationOf(q) /\ Target(q)' = Target(q)
        /\ (Stored(q)' <=> Stored(q)) /\ SupersedesOf(q)' = SupersedesOf(q)
        /\ ConflictIds(q)' = ConflictIds(q) /\ \A x : Has(q, x)' <=> Has(q, x)
  BY PlanStable DEF Stored
<1>3. \A a \in Requests : \A d \in Contexts :
        /\ Rows(a)'[IndexRow(d)] = Rows(a)[IndexRow(d)]
        /\ Rows(a)'[TemporalRow(d)] = Rows(a)[TemporalRow(d)]
        /\ Rows(a)'[ConflictRow(d)] = Rows(a)[ConflictRow(d)]
  <2>1. DOMAIN db = RowKeys /\ DOMAIN db' = RowKeys
    BY DEF ReconInv, TypeOK
  <2> QED
    BY <1>0, <2>1 DEF Rows, Over
<1>4. \A ds \in Seq(Decisions) : Recalled(ds)' <=> Recalled(ds)
  BY <1>0, DecisionType DEF Recalled
<1>5. /\ \A q \in Plans : /\ PlanRow(q) \in RowKeys /\ PlanRow(q)[1] = "plan"
                          /\ PlanOf(q) = db[PlanRow(q)] /\ PlanOf(q)' = db'[PlanRow(q)]
                          /\ db[PlanRow(q)] # NoRow => db[PlanRow(q)] \in Seq(Decisions)
                          /\ db'[PlanRow(q)] # NoRow => db'[PlanRow(q)] \in Seq(Decisions)
      /\ \A a \in Requests, q \in Plans : PlanRow(q) \in DOMAIN sess[a] =>
           sess[a][PlanRow(q)] \in Seq(Decisions)
  <2>1. \A q \in Plans : PlanRow(q) \in RowKeys /\ PlanRow(q)[1] = "plan"
    BY PlanKeys
  <2>2. \A q \in Plans : RowsOf(PlanRow(q)) = Seq(Decisions)
    BY <2>1, RowTypes
  <2> QED
    BY <2>1, <2>2 DEF ReconInv, TypeOK, PlanOf, PlanRow
<1>6. OneAtATime'
  BY DEF SoloFacts, OneAtATime, Active
<1>7. PlansApart'
  <2>1. ASSUME NEW q \in Plans, db'[PlanRow(q)] # NoRow
        PROVE  Recalled(db'[PlanRow(q)])
    BY <2>1 DEF SoloFacts, PlansApart
  <2>2. ASSUME NEW q \in Plans, Stored(q)'
        PROVE  Target(q)' # candidate[q]
    <3>1. CASE db'[PlanRow(q)] = db[PlanRow(q)]
      <4>1. PlanOf(q) # NoRow /\ Stored(q)
        BY <1>5, <2>2, <3>1 DEF Stored
      <4> QED
        BY <1>2, <4>1 DEF SoloFacts, PlansApart
    <3>2. CASE db'[PlanRow(q)] # db[PlanRow(q)]
      BY <2>2, <3>2
    <3> QED
      BY <3>1, <3>2
  <2>3. ASSUME NEW a \in Requests, NEW q \in Plans, PlanRow(q) \in DOMAIN sess[a]
        PROVE  /\ Recalled(sess[a][PlanRow(q)])'
               /\ \A i \in DOMAIN sess[a][PlanRow(q)] : sess[a][PlanRow(q)][i].context # candidate[q]
    <3>1. sess[a][PlanRow(q)] \in Seq(Decisions) /\ sess'[a] = sess[a]
      BY <1>5, <2>3
    <3>2. Recalled(sess[a][PlanRow(q)])
      BY <2>3 DEF SoloFacts, PlansApart
    <3> QED
      BY <1>0, <2>3, <3>1, <3>2, DecisionType DEF SoloFacts, PlansApart, Recalled
  <2>4. ASSUME NEW q \in Plans, db'[PlanRow(q)] # NoRow
        PROVE  Recalled(db[PlanRow(q)])'
    <3>1. db'[PlanRow(q)] \in Seq(Decisions) /\ Recalled(db'[PlanRow(q)])
      BY <1>5, <2>1, <2>4
    <3> QED
      BY <1>0, <3>1, DecisionType DEF Recalled
  <2> QED
    BY <2>2, <2>3, <2>4 DEF PlansApart
<1>8. RowsAgree'
  BY <1>0, <1>3 DEF SoloFacts, RowsAgree, Agree
<1>9. Marked'
  BY <1>2 DEF SoloFacts, Marked, Stored
<1>10. IndexedApplied'
  <2>1. \A q \in Plans : candidate[q] \in Contexts
    BY DEF ReconInv, TypeOK
  <2> QED
    BY <1>0, <1>1, <2>1 DEF SoloFacts, IndexedApplied
<1>11. ASSUME NEW a \in Requests, req[a].plan # NoPlan
       PROVE  /\ req[a].plan \in Plans /\ PlanOf(req[a].plan) # NoRow
              /\ RelationOf(req[a].plan) # "UNRELATED" => Target(req[a].plan) \in Contexts
              /\ PlanOf(req[a].plan) # <<>> => Target(req[a].plan) \in Contexts
  <2>1. req[a].plan \in Plans /\ MayAct(req[a].plan)
    BY <1>11 DEF ReconInv, RequestsOK, RequestShape, TypeOK, Reqs
  <2> QED
    BY <2>1, PlanFacts
<1>12. Synced'
  <2>1. \A a \in Requests : Active(a)' <=> Active(a)
    BY DEF Active
  <2>2. \A a \in Requests : req[a].pc = "markIndex" => req[a].plan # NoPlan
    BY DEF ReconInv, RequestsOK, RequestShape, Applying
  <2>3. \A a \in Requests : req[a].pc = "markIndex" => Target(req[a].plan)' = Target(req[a].plan)
    BY <1>2, <1>11, <2>2
  <2> QED
    BY <1>0, <1>3, <2>1, <2>3 DEF SoloFacts, Synced
<1>13. PromisesKept'
  <2>1. SUFFICES ASSUME NEW q \in Plans, Applied(q)
                 PROVE  NotesKept(q)' /\ RowsKept(q, db)' /\ \A b \in Requests : RowsKept(q, Rows(b))'
    BY <1>1 DEF PromisesKept
  <2>2. NotesKept(q) /\ RowsKept(q, db) /\ \A b \in Requests : RowsKept(q, Rows(b))
    BY <2>1 DEF SoloFacts, PromisesKept
  <2>3. PlanOf(q) # NoRow /\ (RelationOf(q) # "UNRELATED" => Target(q) \in Contexts)
    BY <2>1, AppliedFacts DEF MayAct
  <2>4. NotesKept(q)' /\ RowsKept(q, db)'
    BY <1>0, <1>2, <2>2, <2>3 DEF NotesKept, RowsKept
  <2>5. ASSUME NEW b \in Requests
        PROVE  RowsKept(q, Rows(b))'
    BY <1>2, <1>3, <2>2, <2>3 DEF RowsKept
  <2> QED
    BY <2>4, <2>5
<1>14. ASSUME NEW a \in Requests
       PROVE  Doing(a)'
  <2>0. Doing(a) /\ RequestShape(a)
    BY DEF SoloFacts, ReconInv, RequestsOK
  <2>1. CASE req[a].plan = NoPlan
    <3>1. req[a].pc \notin Applying
      BY <2>0, <2>1 DEF RequestShape
    <3>2. req[a].pc = "scan" => req[a].ctx \in Contexts
      BY IdleFacts
    <3>3. req[a].pc = "scan" /\ req[a].base # NoRow => db'[TemporalRow(req[a].ctx)] = NoRow
      BY <1>0, <2>0, <3>2 DEF Doing
    <3>4. req[a].pc \in {"review", "resolve"} => candidate[req[a].base.id] = req[a].ctx
      BY <2>0 DEF Doing
    <3> QED
      BY <2>1, <3>1, <3>3, <3>4 DEF Doing, Applying, TemporalRow
  <2>2. CASE req[a].plan # NoPlan
    <3> DEFINE p == req[a].plan
    <3>1. /\ PlanOf(p)' = PlanOf(p) /\ RelationOf(p)' = RelationOf(p) /\ Target(p)' = Target(p)
          /\ SupersedesOf(p)' = SupersedesOf(p) /\ ConflictIds(p)' = ConflictIds(p)
          /\ (Applied(p)' <=> Applied(p)) /\ \A x : Has(p, x)' <=> Has(p, x)
      BY <1>1, <1>2, <1>11, <2>2
    <3>2. req[a].pc \in Applying \cup {"commit"}
      BY <2>0, <2>2 DEF RequestShape
    <3>3. Target(p) \in Contexts => /\ Rows(a)'[IndexRow(Target(p))] = Rows(a)[IndexRow(Target(p))]
                                    /\ Rows(a)'[TemporalRow(Target(p))] = Rows(a)[TemporalRow(Target(p))]
      BY <1>3
    <3>4. /\ RelationOf(p) # "UNRELATED" => Target(p) \in Contexts
          /\ req[a].pc = "temporalTarget" => Target(p) \in Contexts
          /\ req[a].pc \in {"mark", "markIndex"} => Target(p) \in Contexts
      BY <1>11, <2>0, <2>2 DEF RequestShape
    <3>5. CASE req[a].pc = "create"
      BY <2>0, <2>2, <3>1, <3>5 DEF Doing, Between, Closing
    <3>6. CASE req[a].pc # "create"
      <4>1. PICK r : r = req[a]
        OBVIOUS
      <4> DEFINE c == candidate[p]
                 t == Target(p)
      <4>a. /\ req[a].pc = "commit" =>
                 ResultRow(p) \in DOMAIN sess[a] /\ sess[a][ResultRow(p)].status = req[a].outcome
            /\ req[a].pc = "createIndex" => /\ c \notin Existing
                                 /\ note[c] = NoteOf({p}, SupersedesOf(p), ConflictIds(p))
            /\ req[a].pc \in {"mark", "markIndex"} => /\ req[a].after = "temporal" <=> c \in Existing
                                           /\ note[c].supersedes = t
            /\ \/ req[a].pc = "createIndex" /\ RelationOf(p) = "SUPERSEDES"
               \/ req[a].pc = "mark" /\ req[a].after = "merge"
               => Rows(a)[IndexRow(t)].by \in {NoNote, c}
            /\ req[a].pc = "markIndex" => Rows(a)[IndexRow(t)].by = NoNote /\ note[t].supersededBy = c
        BY <2>0, <2>2 DEF Doing
      <4>b. /\ req[a].pc = "replacement" => c \in Existing /\ note[c].supersedes = t
            /\ req[a].pc = "mergeWrite" => req[a].snap = note[t]
            /\ req[a].pc = "mergeIndex" => note[t] = [req[a].snap EXCEPT !.refs = @ \cup {p}]
            /\ req[a].pc = "temporalTarget" =>
                 req[a].base = IF Rows(a)[TemporalRow(t)] = NoRow THEN Overlay(TRUE, {}, {})
                                                                 ELSE Rows(a)[TemporalRow(t)]
        BY <2>0 DEF Doing
      <4>c. req[a].outcome = "APPLIED" =>
              /\ req[a].pc \in Closing \/ (req[a].pc \in Between /\ c \notin Existing) =>
                   (RelationOf(p) = "SUPERSEDES" =>
                      /\ note[t].supersededBy = c /\ note[c].supersedes = t
                      /\ Rows(a)[IndexRow(t)].by = c)
              /\ /\ req[a].pc \in (Between \ {"merge", "mergeWrite"}) \cup Closing
                 /\ Has(p, "MERGE_EVIDENCE")
                 => p \in note[t].refs
              /\ req[a].pc \in {"save", "commit"} =>
                   /\ RelationOf(p) = "SUPERSEDES" => /\ ~Rows(a)[TemporalRow(t)].current
                                                      /\ Rows(a)[IndexRow(t)].by = c
                   /\ RelationOf(p) = "CONTRADICTS" => p \in Rows(a)[TemporalRow(t)].conflicts
        BY <2>0, <2>2 DEF Doing, Replaced, RowsKept
      <4>2. Underway(a, r, p, c, t)
        <5>1. note' = note /\ sess' = sess
          OBVIOUS
        <5>2. CASE t \in Contexts
          <6>1. /\ Rows(a)'[IndexRow(t)] = Rows(a)[IndexRow(t)]
                /\ Rows(a)'[TemporalRow(t)] = Rows(a)[TemporalRow(t)]
            BY <3>3, <5>2
          <6> HIDE DEF c, t, p
          <6> QED
            BY <3>2, <3>6, <4>1, <4>a, <4>b, <4>c, <5>1, <6>1, ZenonT(120) DEF Underway
        <5>3. CASE t \notin Contexts
          <6>1. /\ RelationOf(p) = "UNRELATED"
                /\ req[a].pc \notin {"temporalTarget", "mark", "markIndex"}
            BY <3>4, <5>3
          <6> HIDE DEF c, t, p
          <6> QED
            BY <3>2, <3>6, <4>1, <4>a, <4>b, <4>c, <5>1, <6>1 DEF Underway
        <5> QED
          BY <5>2, <5>3
      <4>3. PlanOf(r.plan)' = PlanOf(r.plan) /\ ~Applied(r.plan)' /\ req'[a] = r
        BY <2>0, <2>2, <3>1, <4>1 DEF Doing
      <4> QED
        BY <2>2, <4>1, <4>2, <4>3, UnderwayDoing
    <3> QED
      BY <3>5, <3>6
  <2> QED
    BY <2>1, <2>2
<1> QED
  BY <1>6, <1>7, <1>8, <1>9, <1>10, <1>12, <1>13, <1>14 DEF SoloFacts

LEMMA PreviewSolo ==
    ASSUME ReconInv, ReconInv', SoloFacts, Separate', NEW p \in Plans, NEW ds \in DecisionLists,
           Preview(p, ds)
    PROVE  SoloFacts'
<1> DEFINE k == PlanRow(p)
<1>1. /\ UNCHANGED <<note, sess, req, candidate, errors>> /\ Recalled(ds)
      /\ db[k] = NoRow /\ db' = [db EXCEPT ![k] = ds] /\ ds \in Seq(Decisions)
  BY ReconciliationAssumption DEF Preview
<1>2. DOMAIN db = RowKeys
  BY DEF ReconInv, TypeOK
<1>3. \A q \in Plans : /\ PlanRow(q) \in RowKeys /\ PlanRow(q)[1] = "plan"
                       /\ PlanOf(q) = db[PlanRow(q)] /\ PlanOf(q)' = db'[PlanRow(q)]
  BY PlanKeys DEF PlanOf, PlanRow
<1>4. db'[k] = ds /\ \A x \in RowKeys : x # k => db'[x] = db[x]
  BY <1>1, <1>2, <1>3
<1>5. \A x \in RowKeys : x[1] # "plan" => db'[x] = db[x]
  BY <1>3, <1>4
<1>6. \A q \in Plans : q # p => PlanRow(q) # k
  BY KeysDiffer
<1>7. \A q \in Plans : PlanOf(q) # NoRow => PlanOf(q)' = PlanOf(q)
  BY <1>1, <1>3, <1>4
<1>8. ASSUME Stored(p)', Target(p)' = candidate[p]
      PROVE  FALSE
  <2>1. PlanOf(p)' = ds /\ ds # <<>>
    BY <1>3, <1>4, <1>8 DEF Stored
  <2>2. \E i \in DOMAIN ds : candidate[p] = ds[i].context
    BY <1>1, <1>8, <2>1, TargetNext
  <2>3. db[IndexRow(candidate[p])] # NoRow
    BY <1>1, <2>2 DEF Recalled
  <2>4. errors = 0 /\ candidate[p] \notin Existing
    BY <1>1, <1>8 DEF Separate, Stored
  <2>5. Applied(p)
    BY <2>3, <2>4 DEF SoloFacts, IndexedApplied
  <2>6. PlanOf(p) # NoRow
    BY <2>5, AppliedFacts DEF MayAct
  <2> QED
    BY <1>1, <1>3, <2>6
<1>9. \A q \in Plans : db'[PlanRow(q)] # db[PlanRow(q)] =>
        Recalled(db'[PlanRow(q)]) /\ (Stored(q)' => Target(q)' # candidate[q])
  <2>1. \A q \in Plans : db'[PlanRow(q)] # db[PlanRow(q)] => q = p
    BY <1>3, <1>4, <1>6
  <2> QED
    BY <1>1, <1>4, <1>8, <2>1
<1> QED
  BY <1>1, <1>5, <1>7, <1>9, TableSolo

LEMMA CommitSolo ==
    ASSUME ReconInv, ReconInv', SoloFacts, Separate, NEW a \in Requests, Commit(a)
    PROVE  SoloFacts'
<1> DEFINE s == sess[a]
           p == req[a].plan
<1>1. /\ UNCHANGED <<note, candidate, errors>> /\ req[a].pc = "commit" /\ Active(a) /\ Done(a)
      /\ db' = Rows(a)
  BY DEF Commit, Rows, Active
<1>2. /\ DOMAIN db' = RowKeys
      /\ \A k \in RowKeys : /\ db'[k] = IF k \in DOMAIN s THEN s[k] ELSE db[k]
                            /\ db[k] # NoRow => db'[k] # NoRow
  BY <1>1, RowsFacts
<1>3. OneAtATime' /\ \A b \in Requests : ~Active(b)' /\ Doing(b)' /\ DOMAIN sess'[b] = {}
  BY <1>1, EndSolo
<1>4. \A b \in Requests : \A k \in RowKeys : Rows(b)'[k] = db'[k]
  BY <1>2, <1>3 DEF Rows, Over
<1>5. \A d \in Contexts : /\ IndexRow(d) \in RowKeys /\ TemporalRow(d) \in RowKeys
                          /\ ConflictRow(d) \in RowKeys
  BY ContextKeys
<1>6. \A q \in Plans : /\ PlanRow(q) \in RowKeys /\ ResultRow(q) \in RowKeys
                       /\ PlanOf(q) = db[PlanRow(q)] /\ PlanOf(q)' = db'[PlanRow(q)]
                       /\ PlanRow(q) \in DOMAIN s => db[PlanRow(q)] = NoRow
                       /\ db'[PlanRow(q)] # NoRow => db'[PlanRow(q)] \in Seq(Decisions)
  <2>1. \A q \in Plans : PlanRow(q) \in RowKeys /\ ResultRow(q) \in RowKeys /\ PlanRow(q)[1] = "plan"
    BY PlanKeys
  <2>2. \A q \in Plans : RowsOf(PlanRow(q)) = Seq(Decisions)
    BY <2>1, RowTypes
  <2>3. \A q \in Plans : PlanRow(q) \in DOMAIN s => db[PlanRow(q)] = NoRow
    BY DEF ReconInv, LocksHeld
  <2>4. \A k \in RowKeys : db'[k] \in RowsOf(k) \cup {NoRow}
    BY DEF ReconInv, TypeOK
  <2> QED
    BY <2>1, <2>2, <2>3, <2>4 DEF PlanOf, PlanRow
<1>7. \A q \in Plans : PlanOf(q) # NoRow =>
        /\ PlanOf(q)' = PlanOf(q) /\ RelationOf(q)' = RelationOf(q) /\ Target(q)' = Target(q)
        /\ (Stored(q)' <=> Stored(q)) /\ \A x : Has(q, x)' <=> Has(q, x)
  <2>1. \A q \in Plans : PlanOf(q) # NoRow => PlanOf(q)' = PlanOf(q)
    BY <1>2, <1>6
  <2> QED
    BY <2>1, PlanStable DEF Stored
<1>8. /\ Doing(a) /\ RequestShape(a)
      /\ \A q \in Plans : ResultRow(q) \in DOMAIN s => p = q /\ s[ResultRow(q)].status = req[a].outcome
  BY <1>1 DEF SoloFacts, ReconInv, RequestsOK, RequestShape
<1>9. ASSUME NEW q \in Plans, Applied(q)
      PROVE  Applied(q)'
  <2>1. ResultRow(q) \notin DOMAIN s
    BY <1>8, <1>9, ReconciliationAssumption DEF Doing
  <2>2. db'[ResultRow(q)] = db[ResultRow(q)]
    BY <1>2, <1>6, <2>1
  <2> QED
    BY <1>9, <2>2 DEF Applied, Row, ResultRow
<1>10. ASSUME NEW q \in Plans, p = q, req[a].outcome = "APPLIED"
       PROVE  Applied(q)'
  <2>1. ResultRow(q) \in DOMAIN s /\ s[ResultRow(q)].status = "APPLIED"
    BY <1>1, <1>8, <1>10, ReconciliationAssumption DEF Doing
  <2>2. db'[ResultRow(q)] = s[ResultRow(q)] /\ s[ResultRow(q)] # NoRow
    BY <1>2, <1>6, <2>1, RowsAreRows DEF ReconInv, TypeOK
  <2> QED
    BY <2>1, <2>2 DEF Applied, Row, ResultRow
<1>11. ASSUME NEW q \in Plans, Applied(q)', ~Applied(q)
       PROVE  p = q /\ req[a].outcome = "APPLIED" /\ PlanOf(q) # NoRow
  <2>1. ResultRow(q) \in DOMAIN s /\ s[ResultRow(q)].status = "APPLIED"
    BY <1>2, <1>6, <1>11 DEF Applied, Row, ResultRow
  <2>2. p = q /\ req[a].outcome = "APPLIED"
    BY <1>8, <2>1
  <2>3. MayAct(q)
    BY <1>8, <2>2, ReconciliationAssumption DEF RequestShape
  <2> QED
    BY <2>2, <2>3 DEF MayAct
<1>12. PlansApart'
  <2>1. \A ds \in Seq(Decisions) : Recalled(ds) => Recalled(ds)'
    BY <1>2, <1>5, DecisionType DEF Recalled
  <2>2. ASSUME NEW q \in Plans, db'[PlanRow(q)] # NoRow
        PROVE  Recalled(db[PlanRow(q)])'
    <3>1. Recalled(db'[PlanRow(q)]) /\ db'[PlanRow(q)] \in Seq(Decisions)
      BY <1>2, <1>6, <2>2 DEF SoloFacts, PlansApart
    <3> QED
      BY <1>2, <1>5, <3>1, DecisionType DEF Recalled
  <2>3. ASSUME NEW q \in Plans, Stored(q)'
        PROVE  Target(q)' # candidate[q]
    <3>1. CASE PlanRow(q) \in DOMAIN s
      <4>1. PlanOf(q)' = s[PlanRow(q)] /\ PlanOf(q)' \in Seq(Decisions) /\ PlanOf(q)' # <<>>
        BY <1>2, <1>6, <2>3, <3>1 DEF Stored
      <4>2. \A i \in DOMAIN s[PlanRow(q)] : s[PlanRow(q)][i].context # candidate[q]
        BY <3>1 DEF SoloFacts, PlansApart
      <4> QED
        BY <4>1, <4>2, TargetNext
    <3>2. CASE PlanRow(q) \notin DOMAIN s
      <4>1. PlanOf(q)' = PlanOf(q) /\ PlanOf(q) # NoRow
        BY <1>2, <1>6, <2>3, <3>2 DEF Stored
      <4>2. Stored(q) /\ Target(q)' = Target(q)
        BY <1>7, <2>3, <4>1
      <4> QED
        BY <4>2 DEF SoloFacts, PlansApart
    <3> QED
      BY <3>1, <3>2
  <2> QED
    BY <1>1, <1>3, <2>2, <2>3 DEF PlansApart
<1>13. RowsAgree'
  <2>1. Agree(Rows(a))
    BY DEF SoloFacts, RowsAgree
  <2>2. Agree(db)'
    BY <1>1, <2>1 DEF Agree
  <2>3. \A b \in Requests : Agree(Rows(b))'
    BY <1>4, <1>5, <2>2 DEF Agree
  <2> QED
    BY <1>4, <1>5, <2>2, <2>3 DEF RowsAgree
<1>14. Marked'
  BY <1>1, <1>7 DEF SoloFacts, Marked, Stored
<1>15. IndexedApplied'
  <2>1. SUFFICES ASSUME errors = 0, NEW q \in Plans, candidate[q] \notin Existing,
                        db'[IndexRow(candidate[q])] # NoRow
                 PROVE  Applied(q)'
    BY <1>1, <1>3 DEF IndexedApplied
  <2>2. candidate[q] \in Contexts
    BY DEF ReconInv, TypeOK
  <2>3. \/ Applied(q)
        \/ p = q /\ req[a].outcome = "APPLIED"
    <3>1. CASE IndexRow(candidate[q]) \in DOMAIN s
      BY <2>1, <3>1 DEF SoloFacts, IndexedApplied
    <3>2. CASE IndexRow(candidate[q]) \notin DOMAIN s
      <4>1. db[IndexRow(candidate[q])] # NoRow
        BY <1>2, <1>5, <2>1, <2>2, <3>2
      <4> QED
        BY <2>1, <4>1 DEF SoloFacts, IndexedApplied
    <3> QED
      BY <3>1, <3>2
  <2> QED
    BY <1>9, <1>10, <2>3
<1>16. Synced'
  <2>1. SUFFICES ASSUME errors = 0, NEW d \in Contexts, note[d] # NoNote, note[d].supersededBy # NoNote
                 PROVE  db'[IndexRow(d)] = [by |-> note[d].supersededBy]
    BY <1>1, <1>3 DEF Synced
  <2> QED
    BY <1>1, <2>1 DEF SoloFacts, Synced
<1>17. PromisesKept'
  <2>1. SUFFICES ASSUME NEW q \in Plans, Applied(q)'
                 PROVE  NotesKept(q)' /\ RowsKept(q, db)' /\ \A b \in Requests : RowsKept(q, Rows(b))'
    BY DEF PromisesKept
  <2>2. PlanOf(q) # NoRow /\ NotesKept(q) /\ RowsKept(q, Rows(a))
    <3>1. CASE Applied(q)
      BY <3>1, AppliedFacts DEF SoloFacts, PromisesKept, MayAct
    <3>2. CASE ~Applied(q)
      <4>1. p = q /\ req[a].outcome = "APPLIED" /\ PlanOf(q) # NoRow /\ q # NoPlan
        BY <1>11, <2>1, <3>2, ReconciliationAssumption
      <4>2. /\ RelationOf(q) = "SUPERSEDES" => Replaced(a, q)
            /\ Has(q, "MERGE_EVIDENCE") => q \in note[Target(q)].refs
            /\ RowsKept(q, Rows(a))
        BY <1>1, <1>8, <4>1 DEF Doing, Closing
      <4> QED
        BY <4>1, <4>2 DEF NotesKept, Replaced
    <3> QED
      BY <3>1, <3>2
  <2>3. /\ RelationOf(q)' = RelationOf(q) /\ Target(q)' = Target(q)
        /\ \A x : Has(q, x)' <=> Has(q, x)
    BY <1>7, <2>2
  <2>4. RelationOf(q) # "UNRELATED" => Target(q) \in Contexts
    <3>1. PlanOf(q) \in Seq(Decisions)
      BY <1>6, <1>7, <2>2
    <3>2. RelationOf(q) # "UNRELATED" => PlanOf(q) # <<>>
      BY <3>1, PrimaryType DEF RelationOf
    <3> QED
      BY <3>1, <3>2, TargetType
  <2>5. NotesKept(q)' /\ RowsKept(q, db)'
    BY <1>1, <2>2, <2>3 DEF NotesKept, RowsKept
  <2>6. ASSUME NEW b \in Requests
        PROVE  RowsKept(q, Rows(b))'
    BY <1>4, <1>5, <2>3, <2>4, <2>5 DEF RowsKept
  <2> QED
    BY <2>5, <2>6
<1> QED
  BY <1>3, <1>12, <1>13, <1>14, <1>15, <1>16, <1>17 DEF SoloFacts

LEMMA InitSolo == Init => SoloInv
<1> SUFFICES ASSUME Init, Separate PROVE SoloFacts
  BY DEF SoloInv
<1>0. ReconInv
  BY InitInv
<1>1. /\ \A a \in Requests : ~Active(a) /\ DOMAIN sess[a] = {}
  BY DEF Init, Active, Idle, Empty
<1>2. \A p \in Plans : db[PlanRow(p)] = NoRow /\ db[ResultRow(p)] = NoRow
  <2>1. \A p \in Plans : /\ PlanRow(p) \in RowKeys /\ PlanRow(p)[1] = "plan"
                         /\ ResultRow(p) \in RowKeys /\ ResultRow(p)[1] = "result"
    BY PlanKeys
  <2>2. \A c : IndexRow(c)[1] = "index"
    BY DEF IndexRow
  <2> QED
    BY <2>1, <2>2 DEF Init
<1>3. \A p \in Plans : ~Applied(p) /\ ~Stored(p)
  BY <1>2 DEF Applied, Row, Stored, PlanOf, PlanRow
<1>4. \A a \in Requests : \A k \in RowKeys : Rows(a)[k] = db[k]
  BY <1>0, <1>1, RowsFacts
<1>5. \A c \in Contexts : /\ IndexRow(c) \in RowKeys /\ IndexRow(c)[1] = "index" /\ IndexRow(c)[2] = c
                          /\ ConflictRow(c) \in RowKeys /\ ConflictRow(c)[1] = "conflict"
  BY ContextKeys
<1>6. /\ \A c \in Contexts : db[IndexRow(c)] # NoRow => c \in Existing /\ db[IndexRow(c)].by = NoNote
      /\ \A c \in Contexts : db[ConflictRow(c)] = NoRow
  <2>1. \A k \in RowKeys : db[k] # NoRow => \E c \in Existing : k = IndexRow(c) /\ db[k] = [by |-> NoNote]
    BY DEF Init
  <2>2. \A c : IndexRow(c)[1] = "index"
    BY DEF IndexRow
  <2>3. ASSUME NEW c \in Contexts, db[IndexRow(c)] # NoRow
        PROVE  c \in Existing /\ db[IndexRow(c)].by = NoNote
    <3>1. PICK d \in Existing : IndexRow(c) = IndexRow(d) /\ db[IndexRow(c)] = [by |-> NoNote]
      BY <1>5, <2>1, <2>3
    <3>2. c = d
      BY <3>1, KeysDiffer
    <3> QED
      BY <3>1, <3>2
  <2>4. ASSUME NEW c \in Contexts
        PROVE  db[ConflictRow(c)] = NoRow
    BY <1>5, <2>1, <2>2
  <2> QED
    BY <2>3, <2>4
<1>7. \A c \in Contexts : note[c] # NoNote => note[c].supersededBy = NoNote
  BY DEF Init, Fresh, NoteOf
<1>8. OneAtATime /\ PlansApart
  BY <1>1, <1>2, <1>3 DEF OneAtATime, PlansApart
<1>9. RowsAgree
  BY <1>4, <1>5, <1>6 DEF RowsAgree, Agree
<1>10. Marked /\ Synced
  BY <1>7 DEF Marked, Synced
<1>11. IndexedApplied
  <2>1. \A q \in Plans : candidate[q] \in Contexts
    BY <1>0 DEF ReconInv, TypeOK
  <2> QED
    BY <1>1, <1>6, <2>1 DEF IndexedApplied
<1>12. PromisesKept
  BY <1>3 DEF PromisesKept
<1> QED
  BY <1>0, <1>1, <1>8, <1>9, <1>10, <1>11, <1>12, IdleDoing DEF SoloFacts

\* Plans that are apart after a step were apart before it.
LEMMA SeparateBefore ==
    ASSUME ReconInv, Separate', candidate' = candidate, errors' = 0 => errors = 0,
           \A q \in Plans : PlanOf(q) # NoRow => PlanOf(q)' = PlanOf(q)
    PROVE  Separate
<1>1. \A q \in Plans : PlanOf(q) # NoRow => PlanOf(q)' = PlanOf(q) /\ Target(q)' = Target(q)
  BY PlanStable
<1>2. \A q \in Plans : Own(q)
  BY DEF Separate, Own
<1> QED
  BY <1>1, <1>2 DEF Separate

\* No step changes who overlaps, whom a plan is about or a plan that is stored.
LEMMA NextKeeps ==
    ASSUME ReconInv, Next
    PROVE  /\ overlap' = overlap /\ candidate' = candidate /\ (errors' = 0 => errors = 0)
           /\ \A q \in Plans : PlanOf(q) # NoRow => PlanOf(q)' = PlanOf(q)
<1> DEFINE Same == /\ overlap' = overlap /\ candidate' = candidate /\ (errors' = 0 => errors = 0)
                   /\ \A q \in Plans : PlanOf(q) # NoRow => PlanOf(q)' = PlanOf(q)
<1>0. /\ errors \in 0 .. MaxErrors /\ MaxErrors \in Nat /\ DOMAIN db = RowKeys
      /\ \A q \in Plans : PlanRow(q) \in RowKeys
  BY PlanKeys, ReconciliationAssumption DEF ReconInv, TypeOK
<1>1. ASSUME UNCHANGED <<db, overlap, candidate>>, errors' \in {errors, errors + 1}
      PROVE  Same
  BY <1>0, <1>1, SameTables
<1>2. ASSUME NEW p \in Plans, NEW ds \in DecisionLists, Preview(p, ds)
      PROVE  Same
  <2>1. \A q \in Plans : db[PlanRow(q)] # NoRow => PlanRow(q) # PlanRow(p)
    BY <1>2 DEF Preview
  <2>2. \A q \in Plans : db[PlanRow(q)] # NoRow => db'[PlanRow(q)] = db[PlanRow(q)]
    BY <1>0, <1>2, <2>1 DEF Preview
  <2> QED
    BY <1>2, <2>2 DEF Preview, PlanOf
<1>3. ASSUME NEW a \in Requests, Commit(a)
      PROVE  Same
  <2>1. \A q \in Plans : db[PlanRow(q)] # NoRow => PlanRow(q) \notin DOMAIN sess[a]
    BY DEF ReconInv, LocksHeld
  <2>2. \A k \in RowKeys : k \notin DOMAIN sess[a] => db'[k] = db[k]
    BY <1>0, <1>3 DEF Commit, Over
  <2>3. \A q \in Plans : db[PlanRow(q)] # NoRow => db'[PlanRow(q)] = db[PlanRow(q)]
    BY <1>0, <2>1, <2>2
  <2>4. overlap' = overlap /\ candidate' = candidate /\ errors' = errors
    BY <1>3 DEF Commit
  <2> QED
    BY <2>3, <2>4 DEF PlanOf, PlanRow
<1>4. ASSUME NEW a \in Requests, Step(a), ~Commit(a)
      PROVE  Same
  <2>1. UNCHANGED <<db, overlap, candidate, errors>>
    BY <1>4 DEF Step, CreateFile, CreateIndex, Mark, MarkIndex, MergeRead, MergeWrite, MergeIndex,
       PersistRelation, PersistConflict, Supersede, ReplacementIndex, PersistTemporal,
       PersistTemporalTarget, SaveResult, ConflictWrite, ScanBackfill, ScanPlan
  <2> QED
    BY <1>1, <2>1
<1>5. ASSUME NEW a \in Requests, NEW p \in Plans, NEW retry \in BOOLEAN, NEW approve \in BOOLEAN,
             Begin(a, p, retry, approve)
      PROVE  Same
  BY <1>1, <1>5 DEF Begin
<1>6. ASSUME NEW a \in Requests, NEW kind \in {"review", "resolve"}, NEW c \in Contexts,
             ConflictRead(a, kind, c)
      PROVE  Same
  BY <1>1, <1>6 DEF ConflictRead
<1>7. ASSUME NEW a \in Requests, NEW c \in Contexts, ScanRead(a, c)
      PROVE  Same
  BY <1>1, <1>7 DEF ScanRead
<1>8. ASSUME NEW a \in Requests, GatewayError(a) \/ DatabaseError(a)
      PROVE  Same
  BY <1>1, <1>8 DEF GatewayError, DatabaseError
<1> HIDE DEF Same
<1>9. Same
  BY <1>2, <1>3, <1>4, <1>5, <1>6, <1>7, <1>8 DEF Next
<1> QED
  BY <1>9 DEF Same

LEMMA StutterSolo ==
    ASSUME ReconInv, ReconInv', SoloFacts, UNCHANGED vars
    PROVE  SoloFacts'
<1>1. UNCHANGED <<note, db, sess, req, candidate, errors>>
  BY DEF vars
<1>2. \A q \in Plans : PlanOf(q)' = PlanOf(q)
  BY <1>1, SameTables
<1> QED
  BY <1>1, <1>2, TableSolo

LEMMA NextSolo == ReconInv /\ ReconInv' /\ SoloInv /\ [Next]_vars => SoloInv'
<1> SUFFICES ASSUME ReconInv, ReconInv', SoloInv, [Next]_vars, ~overlap', Separate'
             PROVE  SoloFacts'
  BY DEF SoloInv
<1>1. /\ overlap' = overlap /\ candidate' = candidate /\ (errors' = 0 => errors = 0)
      /\ \A q \in Plans : PlanOf(q) # NoRow => PlanOf(q)' = PlanOf(q)
  <2>1. CASE UNCHANGED vars
    <3>1. UNCHANGED <<db, overlap, candidate, errors>>
      BY <2>1 DEF vars
    <3> QED
      BY <3>1, SameTables
  <2>2. CASE Next
    BY <2>2, NextKeeps
  <2> QED
    BY <2>1, <2>2
<1>2. ~overlap /\ Separate
  BY <1>1, SeparateBefore
<1>3. SoloFacts
  BY <1>2 DEF SoloInv
<1>4. CASE UNCHANGED vars
  BY <1>3, <1>4, StutterSolo
<1>5. ASSUME NEW p \in Plans, NEW ds \in DecisionLists, Preview(p, ds)
      PROVE  SoloFacts'
  BY <1>3, <1>5, PreviewSolo
<1>6. ASSUME NEW a \in Requests, NEW p \in Plans, NEW retry \in BOOLEAN, NEW approve \in BOOLEAN,
             Begin(a, p, retry, approve)
      PROVE  SoloFacts'
  BY <1>2, <1>3, <1>6, BeginSolo
<1>7. ASSUME NEW a \in Requests, NEW kind \in {"review", "resolve"}, NEW c \in Contexts,
             ConflictRead(a, kind, c)
      PROVE  SoloFacts'
  BY <1>2, <1>3, <1>7, ConflictReadSolo
<1>8. ASSUME NEW a \in Requests, NEW c \in Contexts, ScanRead(a, c)
      PROVE  SoloFacts'
  BY <1>2, <1>3, <1>8, ScanReadSolo
<1>9. ASSUME NEW a \in Requests, Step(a)
      PROVE  SoloFacts'
  BY <1>2, <1>3, <1>9, CreateFileSolo, CreateIndexSolo, MarkSolo, MarkIndexSolo, MergeReadSolo,
     MergeWriteSolo, MergeIndexSolo, PersistRelationSolo, PersistConflictSolo, SupersedeSolo,
     ReplacementIndexSolo, PersistTemporalSolo, PersistTemporalTargetSolo, SaveResultSolo,
     ConflictWriteSolo, ScanBackfillSolo, ScanPlanSolo, CommitSolo DEF Step
<1>10. ASSUME NEW a \in Requests, GatewayError(a)
       PROVE  SoloFacts'
  BY <1>2, <1>3, <1>10, GatewayErrorSolo
<1>11. ASSUME NEW a \in Requests, DatabaseError(a)
       PROVE  SoloFacts'
  BY <1>3, <1>11, DatabaseErrorSolo
<1> QED
  BY <1>4, <1>5, <1>6, <1>7, <1>8, <1>9, <1>10, <1>11 DEF Next

\* SoloInv holds in every reachable state: of requests that do not overlap,
\* about plans kept apart, each has done at every await what its result will
\* say, and no later request, failure or retry takes back what an APPLIED
\* result says.
THEOREM ReconSoloInvariant == Spec => []SoloInv
<1> QED
  BY InitSolo, NextSolo, ReconInvariant, PTL DEF Spec

\* Requests that do not overlap keep every promise of every APPLIED result,
\* whatever fails and is retried: the evidence is in the target's note, both
\* notes and the temporal row say who replaced whom, and the conflict is open
\* under the plan's id (_successful_result, _apply_plan).
THEOREM ReconAppliedMeansDone == Spec => []AppliedMeansDone
<1>1. ReconInv /\ SoloInv => AppliedMeansDone
  <2> SUFFICES ASSUME ReconInv, SoloInv, ~overlap, Separate, NEW p \in Plans, Applied(p)
               PROVE  Happened(p)
    BY DEF AppliedMeansDone
  <2>1. NotesKept(p) /\ RowsKept(p, db) /\ Agree(db) /\ Own(p)
    BY DEF SoloInv, SoloFacts, PromisesKept, RowsAgree, Separate
  <2>2. RelationOf(p) \in Relations /\ candidate[p] \in Contexts
    BY AppliedFacts
  <2>3. /\ Has(p, "MARK_SUPERSEDED") => RelationOf(p) = "SUPERSEDES"
        /\ Has(p, "CREATE_CONFLICT_SET") => RelationOf(p) = "CONTRADICTS"
    BY <2>2, ActionFacts DEF Has
  <2>4. ASSUME Has(p, "CREATE_CONFLICT_SET")
        PROVE  Row(ConflictRow(candidate[p])).id = p
    <3> DEFINE row == db[ConflictRow(candidate[p])]
    <3>1. row # NoRow
      BY <2>4 DEF ReconInv, AppliedBacked, ResultBacked, Row
    <3>2. row.id \in Plans
      <4>1. ConflictRow(candidate[p]) \in RowKeys /\ ConflictRow(candidate[p])[1] = "conflict"
        BY <2>2, ContextKeys
      <4>2. row \in ConflictRows
        BY <3>1, <4>1 DEF ReconInv, TypeOK, RowsOf
      <4> QED
        BY <4>2 DEF ConflictRows
    <3>3. candidate[row.id] = candidate[p]
      BY <2>1, <2>2, <3>1 DEF Agree
    <3> QED
      BY <2>1, <3>2, <3>3 DEF Own, Row
  <2> QED
    BY <2>1, <2>3, <2>4 DEF Happened, NotesKept, RowsKept, Row
<1> QED
  BY <1>1, ReconInvariant, ReconSoloInvariant, PTL
=============================================================================
