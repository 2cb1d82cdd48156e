--------------------------- MODULE NoteWriteProofs ---------------------------
(***************************************************************************)
(* FramesInv is inductive for any paths, requests, bodies and workloads.   *)
(* SerialInv is inductive where requests serialize in the lane, SoloInv    *)
(* where they are made one after the other.                                *)
(***************************************************************************)
EXTENDS NoteWrite, FiniteSetTheorems, WellFoundedInduction, TLAPS

-----------------------------------------------------------------------------
(* Ids, documents and rows                                                 *)

LEMMA Ids ==
    /\ NPaths \in Nat /\ NRequests \in Nat /\ NPaths >= 1
    /\ \A p \in Paths : p \in Nat /\ p # 0 /\ p # NPaths + 1
    /\ \A i \in RowIds : i \in Nat /\ i # NoId
    /\ 0 \notin Paths /\ NPaths + 1 \notin Paths /\ NoId \notin RowIds
    /\ \A p \in Paths : p \in RowIds /\ ErrorId(p) \in RowIds /\ ErrorId(p) \notin Paths
    /\ \A p, q \in Paths : ErrorId(p) = ErrorId(q) => p = q
    /\ \A r \in Requests : NewId(r) \in RowIds /\ r \in 0 .. NRequests /\ r # 0
BY StoreAssumption DEF Paths, RowIds, Requests, NoId, ErrorId, NewId

LEMMA Sentinels ==
    /\ NoRow.path = 0 /\ Same.path = NPaths + 1 /\ NoRow # Same
    /\ \A x \in Rows : /\ x.path \in Paths /\ x # NoRow /\ x # Same
                       /\ x.doc \in Documents \cup {NoDoc} /\ x.source \in Documents \cup {NoDoc}
    /\ \A d \in Documents : d.id \in RowIds /\ d # NoDoc
    /\ NoRow \notin Rows /\ Same \notin Rows /\ NoDoc \notin Documents
<1>1. NoRow.path = 0 /\ Same.path = NPaths + 1 /\ NoDoc.id = NoId
  BY DEF NoRow, Same, NoDoc
<1>2. \A x \in Rows : /\ x.path \in Paths
                      /\ x.doc \in Documents \cup {NoDoc} /\ x.source \in Documents \cup {NoDoc}
  BY DEF Rows
<1>3. \A d \in Documents : d.id \in RowIds
  BY DEF Documents
<1> QED
  BY <1>1, <1>2, <1>3, Ids

LEMMA RowTypes ==
    ASSUME NEW p \in Paths
    PROVE  /\ \A d \in Documents :
                /\ NoteRow(p, d) \in Rows /\ NoteRow(p, d).path = p
                /\ NoteRow(p, d).doc = d /\ NoteRow(p, d).source = d
           /\ ErrorRow(p) \in Rows /\ ErrorRow(p).path = p
           /\ ErrorRow(p).doc = NoDoc /\ ErrorRow(p).source = NoDoc
BY DEF NoteRow, ErrorRow, Rows

LEMMA ViewType ==
    ASSUME StoreTypeOK, NEW r \in Requests
    PROVE  /\ View(r) \in [RowIds -> Rows \cup {NoRow}]
           /\ \A i \in RowIds : View(r)[i] = IF tx[r][i] = Same THEN rows[i] ELSE tx[r][i]
           /\ \A i \in RowIds : /\ rows[i] \in Rows \cup {NoRow}
                                /\ tx[r][i] \in Rows \cup {NoRow, Same}
BY Sentinels DEF StoreTypeOK, View

LEMMA IdAtType ==
    ASSUME NEW view \in [RowIds -> Rows \cup {NoRow}], NEW p \in Paths
    PROVE  /\ IdAt(view, p) \in RowIds \cup {NoId}
           /\ IdAt(view, p) # NoId => IdAt(view, p) \in RowIds /\ view[IdAt(view, p)].path = p
           /\ \A i \in RowIds : view[i].path = p => IdAt(view, p) # NoId
           /\ RowOf(view, IdAt(view, p)) \in Rows \cup {NoRow}
<1>1. CASE \E i \in RowIds : view[i].path = p
  BY <1>1, Ids DEF IdAt, RowOf
<1>2. CASE ~\E i \in RowIds : view[i].path = p
  BY <1>2 DEF IdAt, RowOf
<1> QED
  BY <1>1, <1>2

\* A document is its fields, and so is a row.
LEMMA DocumentFields ==
    ASSUME NEW d \in Documents, NEW b \in Bodies,
           NEW s \in {"current", "archived", "superseded"}
    PROVE  /\ [d EXCEPT !.body = b, !.status = s] \in Documents
           /\ b = d.body /\ s = d.status => [d EXCEPT !.body = b, !.status = s] = d
BY DEF Documents

LEMMA MergeType ==
    ASSUME NEW d \in Documents, NEW p \in Paths, NEW l \in Rows \cup {NoRow},
           NEW n \in Rows \cup {NoRow}, l = NoRow <=> n = NoRow
    PROVE  /\ Merge(d, p, l, n) \in Rows /\ Merge(d, p, l, n).path = p
           /\ Merge(d, p, l, n).source = d
<1>1. CASE l = NoRow \/ l.doc = NoDoc \/ n.doc = NoDoc
  BY <1>1, RowTypes DEF Merge
<1>2. CASE ~(l = NoRow \/ l.doc = NoDoc \/ n.doc = NoDoc)
  <2> DEFINE b == IF d.body = l.doc.body THEN n.doc.body ELSE d.body
             s == IF d.status = l.doc.status THEN n.doc.status ELSE d.status
  <2>1. n.doc \in Documents /\ l.doc \in Documents
    BY <1>2, Sentinels
  <2>2. b \in Bodies /\ s \in {"current", "archived", "superseded"}
    BY <2>1 DEF Documents
  <2>3. Merge(d, p, l, n) = [path |-> p, source |-> d,
                             doc |-> [d EXCEPT !.body = b, !.status = s]]
    BY <1>2 DEF Merge
  <2>4. [d EXCEPT !.body = b, !.status = s] \in Documents
    BY <2>2, DocumentFields
  <2> HIDE DEF b, s
  <2> QED
    BY <2>3, <2>4 DEF Rows
<1> QED
  BY <1>1, <1>2


-----------------------------------------------------------------------------
(* Frames                                                                  *)

LEMMA CommandFields ==
    ASSUME NEW c \in Commands
    PROVE  /\ c.kind \in {"save", "archive", "supersede", "repair", "reindex"}
           /\ c.path \in Paths \cup {0}
           /\ c.kind = "save" => /\ c.path \in Paths /\ c.id \in RowIds \cup {NoId}
                                 /\ c.body \in Bodies /\ c.of \in RowIds \cup {NoId}
           /\ c.kind = "archive" => c.id \in RowIds
           /\ c.kind = "supersede" => c.id \in RowIds /\ c.of \in RowIds
           /\ c.kind = "repair" => c.path \in Paths /\ c.body \in Bodies
           /\ c.kind = "reindex" => c = Reindex
BY DEF Commands, Archive, Supersede, Repair, Reindex, Command

\* Frame t differs from frame s in the fields F at most.
Carries(s, t, F) ==
    /\ "pc" \in F \/ t.pc = s.pc
    /\ "cmd" \in F \/ t.cmd = s.cmd
    /\ "id" \in F \/ t.id = s.id
    /\ "at" \in F \/ t.at = s.at
    /\ "doc" \in F \/ t.doc = s.doc
    /\ "row" \in F \/ t.row = s.row
    /\ "foundAt" \in F \/ t.foundAt = s.foundAt
    /\ "edit" \in F \/ t.edit = s.edit
    /\ "token" \in F \/ t.token = s.token
    /\ "seen" \in F \/ t.seen = s.seen
    /\ "errs" \in F \/ t.errs = s.errs
    /\ "todo" \in F \/ t.todo = s.todo
    /\ "marks" \in F \/ t.marks = s.marks
    /\ "claim" \in F \/ t.claim = s.claim
    /\ "gone" \in F \/ t.gone = s.gone
    /\ "ok" \in F \/ t.ok = s.ok

\* Only request r moves, and it keeps all fields but F.
Moves(r, F) ==
    /\ \A q \in Requests \ {r} : req'[q] = req[q]
    /\ Carries(req[r], req'[r], F)

LEMMA IdleFrame ==
    /\ Idle \in Frames /\ FrameShape(Idle) /\ Idle.pc = "idle" /\ Idle.cmd = Reindex
    /\ \A b \in BOOLEAN : LET s == [Idle EXCEPT !.pc = "done", !.ok = b] IN
          s \in Frames /\ FrameShape(s)
<1>1. Reindex \in Commands /\ Reindex.kind = "reindex" /\ Reindex.path = 0
  BY DEF Commands, Reindex, Command
<1>2. <<>> \in Seq(Documents \cup {NoDoc}) /\ <<>> \in Seq(Marks)
  OBVIOUS
<1>3. Idle \in Frames
  BY <1>1, <1>2 DEF Idle, Frames, Pcs
<1>4. Idle.pc = "idle" /\ Idle.cmd = Reindex /\ Idle.todo = {} /\ Idle.ok
  BY DEF Idle
<1>5. FrameShape(Idle)
  BY <1>4 DEF FrameShape
<1>6. ASSUME NEW b \in BOOLEAN
      PROVE  LET s == [Idle EXCEPT !.pc = "done", !.ok = b] IN s \in Frames /\ FrameShape(s)
  <2> DEFINE s == [Idle EXCEPT !.pc = "done", !.ok = b]
  <2>1. s \in Frames
    BY <1>3 DEF Frames, Pcs
  <2>2. s.pc = "done" /\ s.cmd = Reindex /\ s.todo = {}
    BY <1>3, <1>4 DEF Frames
  <2> QED
    BY <2>1, <2>2 DEF FrameShape
<1> QED
  BY <1>3, <1>4, <1>5, <1>6

LEMMA GoFacts ==
    ASSUME TypeOK, NEW r \in Requests, NEW s \in Frames, Go(r, s)
    PROVE  /\ req' \in [Requests -> Frames]
           /\ req'[r] = s
           /\ \A q \in Requests \ {r} : req'[q] = req[q]
BY DEF TypeOK, Go

LEMMA FrameOf ==
    ASSUME FramesInv, NEW r \in Requests
    PROVE  req[r] \in Frames /\ FrameShape(req[r]) /\ req[r].cmd \in Commands /\ StoreTypeOK
BY DEF FramesInv, TypeOK, Frames

\* A step of request r that leaves the store typed.
LEMMA FrameStep ==
    ASSUME FramesInv, NEW r \in Requests, NEW s \in Frames, Go(r, s), FrameShape(s),
           NEW F, Carries(req[r], s, F),
           UNCHANGED load, file' \in [Paths -> Documents \cup {NoDoc}],
           StoreTypeOK', Lane!TypeOK', LaneExclusive'
    PROVE  FramesInv' /\ Moves(r, F) /\ req'[r] = s
<1>1. /\ req' \in [Requests -> Frames] /\ req'[r] = s
      /\ \A q \in Requests \ {r} : req'[q] = req[q]
  BY GoFacts DEF FramesInv
<1>2. \A q \in Requests : FrameShape(req'[q])
  BY <1>1 DEF FramesInv
<1>3. TypeOK'
  BY <1>1 DEF FramesInv, TypeOK
<1> QED
  BY <1>1, <1>2, <1>3 DEF FramesInv, Moves

LEMMA StoreKept ==
    ASSUME FramesInv, UNCHANGED <<file, rows, tx>>
    PROVE  StoreTypeOK' /\ file' \in [Paths -> Documents \cup {NoDoc}]
BY DEF FramesInv, TypeOK, StoreTypeOK

LEMMA LaneKept ==
    ASSUME FramesInv, UNCHANGED lane
    PROVE  Lane!TypeOK' /\ LaneExclusive'
BY DEF FramesInv, TypeOK, Lane!TypeOK, LaneExclusive

\* ... that only moves on.
LEMMA FrameOnly ==
    ASSUME FramesInv, NEW r \in Requests, NEW s \in Frames, Go(r, s), FrameShape(s),
           NEW F, Carries(req[r], s, F), UNCHANGED <<load, file, rows, tx, lane>>
    PROVE  FramesInv' /\ Moves(r, F) /\ req'[r] = s
BY StoreKept, LaneKept, FrameStep

\* What a request that fails leaves behind.
Fails(r) == /\ Moves(r, {"pc", "ok", "errs"})
            /\ req'[r].pc = "leave" /\ ~req'[r].ok /\ req'[r].errs = {}

LEMMA FailFrame ==
    ASSUME FramesInv, NEW r \in Requests, Fail(r), req[r].pc \notin {"idle", "done"}
    PROVE  \E s \in Frames : /\ Go(r, s) /\ FrameShape(s) /\ s.pc = "leave" /\ ~s.ok
                             /\ s.errs = {} /\ Carries(req[r], s, {"pc", "ok", "errs"})
<1> DEFINE s == [req[r] EXCEPT !.pc = "leave", !.ok = FALSE, !.errs = {}]
<1>1. req[r] \in Frames /\ FrameShape(req[r])
  BY FrameOf
<1>2. s \in Frames
  BY <1>1 DEF Frames, Pcs
<1>3. Carries(req[r], s, {"pc", "ok", "errs"}) /\ s.pc = "leave" /\ s.ok = FALSE /\ s.errs = {}
  BY <1>1 DEF Frames, Carries
<1>4. Go(r, s)
  BY DEF Fail
<1> HIDE DEF s
<1>5. FrameShape(s)
  BY <1>1, <1>3 DEF FrameShape, Carries
<1> QED
  BY <1>2, <1>3, <1>4, <1>5

LEMMA FailStep ==
    ASSUME FramesInv, NEW r \in Requests, Fail(r), req[r].pc \notin {"idle", "done"},
           UNCHANGED <<load, file, rows, tx, lane>>
    PROVE  FramesInv' /\ Fails(r)
<1>1. PICK s \in Frames : /\ Go(r, s) /\ FrameShape(s) /\ s.pc = "leave" /\ ~s.ok
                          /\ s.errs = {} /\ Carries(req[r], s, {"pc", "ok", "errs"})
  BY FailFrame
<1> QED
  BY <1>1, FrameOnly DEF Fails


-----------------------------------------------------------------------------
(* FramesInv, step by step                                                 *)

LEMMA StartMoves ==
    ASSUME FramesInv, NEW r \in Requests, Start(r)
    PROVE  /\ FramesInv' /\ UNCHANGED <<load, file, rows, tx, lane>>
           /\ req[r].pc = "idle" /\ req'[r].pc \in {"enter", "locate", "source"}
           /\ \A q \in Requests \ {r} : req'[q] = req[q]
           /\ \E c \in load.commands : Carries([Idle EXCEPT !.cmd = c], req'[r], {"at", "token", "pc"})
<1>1. load \in Workloads /\ load.commands \subseteq Commands
  BY WorkloadsAssumption DEF FramesInv, TypeOK
<1>2. PICK c \in load.commands :
         /\ c.kind = "repair" => file[c.path] # NoDoc
         /\ Go(r, [Idle EXCEPT
                !.cmd = c, !.at = c.path,
                !.token = IF c.kind = "repair" THEN file[c.path] ELSE NoDoc,
                !.pc = CASE c.kind \in {"save", "reindex"} -> "enter"
                         [] c.kind \in {"archive", "supersede"} -> "locate"
                         [] c.kind = "repair" -> "source"])
  BY DEF Start
<1>3. UNCHANGED <<load, file, rows, tx, lane>> /\ req[r].pc = "idle"
  BY DEF Start
<1> DEFINE t == IF c.kind = "repair" THEN file[c.path] ELSE NoDoc
           k == CASE c.kind \in {"save", "reindex"} -> "enter"
                  [] c.kind \in {"archive", "supersede"} -> "locate"
                  [] c.kind = "repair" -> "source"
           s == [Idle EXCEPT !.cmd = c, !.at = c.path, !.token = t, !.pc = k]
<1>4. c \in Commands /\ c.path \in Paths \cup {0} /\ (c.kind = "repair" => c.path \in Paths)
  BY <1>1, CommandFields
<1>5. t \in Documents \cup {NoDoc} /\ (c.kind = "repair" => t \in Documents)
  BY <1>2, <1>4 DEF FramesInv, TypeOK
<1>6. /\ k \in {"enter", "locate", "source"}
      /\ k = "enter" => c.kind \in {"save", "reindex"}
      /\ k = "locate" => c.kind \in {"archive", "supersede"}
      /\ k = "source" => c.kind = "repair"
  BY <1>1, CommandFields
<1>7. Go(r, s)
  BY <1>2
<1> HIDE DEF t, k
<1>8. s \in Frames
  <2>1. Idle \in Frames
    BY IdleFrame
  <2>2. k \in Pcs
    BY <1>6 DEF Pcs
  <2>3. c \in Commands /\ c.path \in Paths \cup {0} /\ t \in Documents \cup {NoDoc}
    BY <1>4, <1>5
  <2> QED
    BY <2>1, <2>2, <2>3, ZenonT(60) DEF Frames
<1>9. s.pc = k /\ s.cmd = c /\ s.at = c.path /\ s.token = t /\ s.todo = {} /\ s.ok
      /\ s.seen = <<>> /\ s.claim = NoMark
  BY DEF Idle
<1>10. Carries([Idle EXCEPT !.cmd = c], s, {"at", "token", "pc"})
  BY DEF Idle, Carries
<1> HIDE DEF s
<1>11. FrameShape(s)
  BY <1>4, <1>5, <1>6, <1>9 DEF FrameShape
<1>12. Carries(req[r], s, {"pc", "cmd", "id", "at", "doc", "row", "foundAt", "edit", "token",
                           "seen", "errs", "todo", "marks", "claim", "gone", "ok"})
  BY DEF Carries
<1>13. FramesInv' /\ req'[r] = s /\ \A q \in Requests \ {r} : req'[q] = req[q]
  BY <1>3, <1>7, <1>8, <1>11, <1>12, FrameOnly DEF Moves
<1> QED
  BY <1>3, <1>6, <1>9, <1>10, <1>13

\* Who takes the lane, takes it as the lane allows.
LEMMA LaneTaken ==
    ASSUME FramesInv, NEW r \in Requests, Lane!GrantShared(r) \/ Lane!GrantExclusive(r)
    PROVE  Lane!TypeOK' /\ LaneExclusive'
BY DEF FramesInv, TypeOK, LaneExclusive, Lane!TypeOK, Lane!Modes, Lane!GrantShared,
       Lane!GrantExclusive

LEMMA EnterMoves ==
    ASSUME FramesInv, NEW r \in Requests, Enter(r)
    PROVE  /\ FramesInv' /\ Moves(r, {"pc"}) /\ UNCHANGED <<load, file, rows, tx>>
           /\ req[r].pc = "enter" /\ req'[r].pc = "lookup"
<1> DEFINE s == [req[r] EXCEPT !.pc = "lookup"]
<1>1. req[r] \in Frames /\ FrameShape(req[r])
  BY FrameOf
<1>2. Go(r, s) /\ req[r].pc = "enter" /\ req[r].cmd.kind = "save"
      /\ UNCHANGED <<load, file, rows, tx>>
      /\ (Lane!GrantShared(r) \/ Lane!GrantExclusive(r))
  BY DEF Enter
<1>3. s \in Frames
  BY <1>1 DEF Frames, Pcs
<1>4. Carries(req[r], s, {"pc"}) /\ s.pc = "lookup"
  BY <1>1 DEF Frames, Carries
<1> HIDE DEF s
<1>5. FrameShape(s)
  BY <1>1, <1>2, <1>4 DEF FrameShape, Carries
<1> QED
  BY <1>2, <1>3, <1>4, <1>5, LaneTaken, StoreKept, FrameStep

LEMMA LookupMoves ==
    ASSUME FramesInv, NEW r \in Requests, Lookup(r)
    PROVE  /\ FramesInv' /\ UNCHANGED <<load, file, rows, tx, lane>> /\ req[r].pc = "lookup"
           /\ \/ Fails(r)
              \/ /\ Moves(r, {"pc", "id", "row"}) /\ req'[r].pc = "fence"
                 /\ TokenFits(req[r].cmd, req'[r].row)
                 /\ req'[r].id = IdAt(View(r), req[r].at)
                 /\ req'[r].row = RowOf(View(r), IdAt(View(r), req[r].at))
<1> DEFINE c == req[r].cmd
           i == IdAt(View(r), c.path)
           row == RowOf(View(r), i)
           s == [req[r] EXCEPT !.pc = "fence", !.id = i, !.row = row]
<1>1. req[r] \in Frames /\ FrameShape(req[r]) /\ StoreTypeOK /\ c \in Commands
  BY FrameOf
<1>2. req[r].pc = "lookup" /\ UNCHANGED <<load, file, rows, tx, lane>>
      /\ ((Go(r, s) /\ TokenFits(c, row)) \/ Fail(r))
  BY DEF Lookup
<1>3. c.path \in Paths /\ c.path = req[r].at /\ c.kind = "save"
  BY <1>1, <1>2, CommandFields DEF FrameShape
<1>4. i \in RowIds \cup {NoId} /\ row \in Rows \cup {NoRow}
  BY <1>1, <1>3, ViewType, IdAtType
<1>5. i = IdAt(View(r), req[r].at) /\ row = RowOf(View(r), IdAt(View(r), req[r].at))
  BY <1>3
<1> HIDE DEF i, row
<1>6. s \in Frames
  BY <1>1, <1>4 DEF Frames, Pcs
<1>7. Carries(req[r], s, {"pc", "id", "row"}) /\ s.pc = "fence" /\ s.id = i /\ s.row = row
  BY <1>1 DEF Frames, Carries
<1> HIDE DEF s
<1>8. FrameShape(s)
  BY <1>1, <1>2, <1>3, <1>7 DEF FrameShape, Carries
<1>9. CASE Go(r, s) /\ TokenFits(c, row)
  BY <1>2, <1>5, <1>6, <1>7, <1>8, <1>9, FrameOnly
<1>10. CASE Fail(r)
  BY <1>2, <1>10, FailStep
<1> QED
  BY <1>2, <1>9, <1>10

LEMMA FenceMoves ==
    ASSUME FramesInv, NEW r \in Requests, Fence(r)
    PROVE  /\ FramesInv' /\ UNCHANGED <<load, file, rows, tx, lane>> /\ req[r].pc = "fence"
           /\ \/ Fails(r)
              \/ /\ Moves(r, {"pc", "id", "token"}) /\ req'[r].pc = "check"
                 /\ SourceFits(r)
                 /\ req[r].cmd.id = NoId \/ req[r].id \in {NoId, req[r].cmd.id}
                 /\ req'[r].id = NoteId(r) /\ req'[r].token = file[req[r].at]
<1> DEFINE i == NoteId(r)
           d == file[req[r].at]
           s == [req[r] EXCEPT !.pc = "check", !.id = i, !.token = d]
<1>1. req[r] \in Frames /\ FrameShape(req[r]) /\ req[r].cmd \in Commands
  BY FrameOf
<1>2. req[r].pc = "fence" /\ UNCHANGED <<load, file, rows, tx, lane>>
      /\ \/ Go(r, s) /\ SourceFits(r) /\ (req[r].cmd.id = NoId \/ req[r].id \in {NoId, req[r].cmd.id})
         \/ Fail(r)
  BY DEF Fence
<1>3. req[r].at \in Paths /\ req[r].cmd.id \in RowIds \cup {NoId}
      /\ req[r].id \in RowIds \cup {NoId} /\ req[r].cmd.kind = "save"
  BY <1>1, <1>2, CommandFields DEF FrameShape, Frames
<1>4. d \in Documents \cup {NoDoc}
  BY <1>3 DEF FramesInv, TypeOK
<1>5. i \in RowIds
  BY <1>3, <1>4, Ids, Sentinels DEF NoteId
<1> HIDE DEF i, d
<1>6. s \in Frames
  BY <1>1, <1>4, <1>5 DEF Frames, Pcs
<1>7. Carries(req[r], s, {"pc", "id", "token"}) /\ s.pc = "check" /\ s.id = i /\ s.token = d
  BY <1>1 DEF Frames, Carries
<1> HIDE DEF s
<1>8. FrameShape(s)
  BY <1>1, <1>2, <1>3, <1>5, <1>7 DEF FrameShape, Carries
<1>9. CASE Go(r, s) /\ SourceFits(r) /\ (req[r].cmd.id = NoId \/ req[r].id \in {NoId, req[r].cmd.id})
  BY <1>2, <1>6, <1>7, <1>8, <1>9, FrameOnly DEF i, d
<1>10. CASE Fail(r)
  BY <1>2, <1>10, FailStep
<1> QED
  BY <1>2, <1>9, <1>10


LEMMA CheckMoves ==
    ASSUME FramesInv, NEW r \in Requests, Check(r)
    PROVE  /\ FramesInv' /\ UNCHANGED <<load, file, rows, tx, lane>> /\ req[r].pc = "check"
           /\ \/ Fails(r)
              \/ Moves(r, {"pc"}) /\ req'[r].pc = "leave"
              \/ /\ Moves(r, {"pc", "doc", "marks"}) /\ req'[r].pc = "persist"
                 /\ req'[r].doc.id = req[r].id /\ req'[r].doc.status = "current"
                 /\ req'[r].doc.by = r
<1> DEFINE c == req[r].cmd
           id == req[r].id
           d == [id |-> id, body |-> c.body, status |-> "current",
                 supersedes |-> c.of, supersededBy |-> NoId, by |-> r]
           m == IF c.of = NoId THEN <<>> ELSE <<[old |-> c.of, new |-> id, path |-> c.path]>>
           s1 == [req[r] EXCEPT !.pc = "leave"]
           s2 == [req[r] EXCEPT !.pc = "persist", !.doc = d, !.marks = m]
<1>1. req[r] \in Frames /\ FrameShape(req[r]) /\ c \in Commands
  BY FrameOf
<1>2. req[r].pc = "check" /\ UNCHANGED <<load, file, rows, tx, lane>>
      /\ (Go(r, s1) \/ Go(r, s2) \/ Fail(r))
  BY DEF Check
<1>3. /\ c.kind = "save" /\ c.path \in Paths /\ c.body \in Bodies /\ c.of \in RowIds \cup {NoId}
      /\ id \in RowIds /\ req[r].at = c.path
  BY <1>1, <1>2, CommandFields DEF FrameShape
<1>4. d \in Documents
  BY <1>3, Ids DEF Documents
<1>5. m \in Seq(Marks)
  <2>1. ASSUME c.of # NoId
        PROVE  [old |-> c.of, new |-> id, path |-> c.path] \in Marks
    BY <1>3, <2>1 DEF Marks
  <2>2. ASSUME NEW x \in Marks
        PROVE  <<x>> \in Seq(Marks)
    OBVIOUS
  <2>3. <<>> \in Seq(Marks)
    OBVIOUS
  <2> QED
    BY <2>1, <2>2, <2>3
<1>6. d.id = id /\ d.status = "current" /\ d.by = r
  OBVIOUS
<1> HIDE DEF d, m
<1>7. s1 \in Frames /\ s2 \in Frames
  <2>1. s1 \in Frames
    BY <1>1 DEF Frames, Pcs
  <2>2. s2 \in Frames
    BY <1>1, <1>4, <1>5 DEF Frames, Pcs
  <2> QED
    BY <2>1, <2>2
<1>8. Carries(req[r], s1, {"pc"}) /\ s1.pc = "leave"
  BY <1>1 DEF Frames, Carries
<1>9. Carries(req[r], s2, {"pc", "doc", "marks"}) /\ s2.pc = "persist" /\ s2.doc = d
  BY <1>1 DEF Frames, Carries
<1> HIDE DEF s1, s2
<1>10. FrameShape(s1)
  BY <1>1, <1>2, <1>3, <1>8 DEF FrameShape, Carries
<1>11. FrameShape(s2)
  BY <1>1, <1>2, <1>3, <1>4, <1>9 DEF FrameShape, Carries
<1>12. CASE Go(r, s1)
  BY <1>2, <1>7, <1>8, <1>10, <1>12, FrameOnly
<1>13. CASE Go(r, s2)
  BY <1>2, <1>6, <1>7, <1>9, <1>11, <1>13, FrameOnly
<1>14. CASE Fail(r)
  BY <1>2, <1>14, FailStep
<1> QED
  BY <1>2, <1>12, <1>13, <1>14

LEMMA PersistMoves ==
    ASSUME FramesInv, NEW r \in Requests, Persist(r)
    PROVE  /\ FramesInv' /\ UNCHANGED <<load, rows, tx, lane>> /\ req[r].pc = "persist"
           /\ Moves(r, {"pc"}) /\ req'[r].pc = "parse"
           /\ file' = [file EXCEPT ![req[r].at] = req[r].doc]
<1> DEFINE s == [req[r] EXCEPT !.pc = "parse"]
<1>1. req[r] \in Frames /\ FrameShape(req[r]) /\ StoreTypeOK
  BY FrameOf
<1>2. Go(r, s) /\ req[r].pc = "persist" /\ UNCHANGED <<load, rows, tx, lane>>
      /\ file' = [file EXCEPT ![req[r].at] = req[r].doc]
  BY DEF Persist
<1>3. s \in Frames
  BY <1>1 DEF Frames, Pcs
<1>4. Carries(req[r], s, {"pc"}) /\ s.pc = "parse"
  BY <1>1 DEF Frames, Carries
<1> HIDE DEF s
<1>5. FrameShape(s)
  BY <1>1, <1>2, <1>4 DEF FrameShape, Carries
<1>6. file' \in [Paths -> Documents \cup {NoDoc}]
  BY <1>1, <1>2 DEF FrameShape, FramesInv, TypeOK
<1>7. StoreTypeOK'
  BY <1>1, <1>2 DEF StoreTypeOK
<1> QED
  BY <1>2, <1>3, <1>4, <1>5, <1>6, <1>7, LaneKept, FrameStep

LEMMA ParseMoves ==
    ASSUME FramesInv, NEW r \in Requests, Parse(r)
    PROVE  /\ FramesInv' /\ UNCHANGED <<load, file, rows, tx, lane>> /\ req[r].pc = "parse"
           /\ \/ Fails(r) /\ file[req[r].at] = NoDoc
              \/ /\ Moves(r, {"pc", "doc"}) /\ req'[r].pc = "load"
                 /\ req'[r].doc = file[req[r].at]
<1> DEFINE d == file[req[r].at]
           s == [req[r] EXCEPT !.pc = "load", !.doc = d]
<1>1. req[r] \in Frames /\ FrameShape(req[r])
  BY FrameOf
<1>2. req[r].pc = "parse" /\ UNCHANGED <<load, file, rows, tx, lane>>
      /\ ((Go(r, s) /\ d # NoDoc) \/ (Fail(r) /\ d = NoDoc))
  BY DEF Parse
<1>3. d \in Documents \cup {NoDoc}
  BY <1>1, <1>2 DEF FramesInv, TypeOK, FrameShape
<1> HIDE DEF d
<1>4. s \in Frames
  BY <1>1, <1>3 DEF Frames, Pcs
<1>5. Carries(req[r], s, {"pc", "doc"}) /\ s.pc = "load" /\ s.doc = d
  BY <1>1 DEF Frames, Carries
<1> HIDE DEF s
<1>6. CASE Go(r, s) /\ d # NoDoc
  <2>1. FrameShape(s)
    BY <1>1, <1>2, <1>3, <1>5, <1>6 DEF FrameShape, Carries
  <2> QED
    BY <1>2, <1>4, <1>5, <1>6, <2>1, FrameOnly DEF d
<1>7. CASE Fail(r) /\ d = NoDoc
  BY <1>2, <1>7, FailStep DEF d
<1> QED
  BY <1>2, <1>6, <1>7

LEMMA LoadMoves ==
    ASSUME FramesInv, NEW r \in Requests, Load(r)
    PROVE  /\ FramesInv' /\ UNCHANGED <<load, file, rows, tx, lane>> /\ req[r].pc = "load"
           /\ Moves(r, {"pc", "row", "foundAt"}) /\ req'[r].pc = "flush"
           /\ req'[r].row = View(r)[req[r].doc.id]
           /\ req'[r].foundAt = IdAt(View(r), req[r].at)
<1> DEFINE row == View(r)[req[r].doc.id]
           i == IdAt(View(r), req[r].at)
           s == [req[r] EXCEPT !.pc = "flush", !.row = row, !.foundAt = i]
<1>1. req[r] \in Frames /\ FrameShape(req[r]) /\ StoreTypeOK
  BY FrameOf
<1>2. req[r].pc = "load" /\ UNCHANGED <<load, file, rows, tx, lane>> /\ Go(r, s)
  BY DEF Load
<1>3. row \in Rows \cup {NoRow} /\ i \in RowIds \cup {NoId}
  BY <1>1, <1>2, ViewType, IdAtType, Sentinels DEF FrameShape
<1> HIDE DEF row, i
<1>4. s \in Frames
  BY <1>1, <1>3, ZenonT(60) DEF Frames, Pcs
<1>5. Carries(req[r], s, {"pc", "row", "foundAt"}) /\ s.pc = "flush" /\ s.row = row /\ s.foundAt = i
  BY <1>1 DEF Frames, Carries
<1> HIDE DEF s
<1>6. FrameShape(s)
  BY <1>1, <1>2, <1>5 DEF FrameShape, Carries
<1> QED
  BY <1>2, <1>4, <1>5, <1>6, FrameOnly DEF row, i


-----------------------------------------------------------------------------
(* The writes of a session                                                 *)

LEMMA UpsertFacts ==
    ASSUME StoreTypeOK, NEW r \in Requests, NEW d \in Documents, NEW p \in Paths,
           NEW l \in Rows \cup {NoRow}, NEW f \in RowIds \cup {NoId},
           l = NoRow <=> View(r)[d.id] = NoRow, Upsert(r, d, p, l, f), UNCHANGED rows
    PROVE  /\ StoreTypeOK'
           /\ \A q \in Requests \ {r} : tx'[q] = tx[q]
           /\ tx'[r][d.id] = Merge(d, p, l, View(r)[d.id]) /\ tx'[r][d.id] \in Rows
           /\ \A i \in RowIds \ {d.id} : tx'[r][i] = IF i = f THEN NoRow ELSE tx[r][i]
<1> DEFINE m == Merge(d, p, l, View(r)[d.id])
           t == [i \in RowIds |-> CASE i = d.id -> Merge(d, p, l, View(r)[i])
                                    [] i = f /\ i # d.id -> NoRow
                                    [] OTHER -> tx[r][i]]
<1>1. tx' = [tx EXCEPT ![r] = t]
  BY DEF Upsert
<1>2. d.id \in RowIds /\ View(r)[d.id] \in Rows \cup {NoRow}
  BY ViewType, Sentinels
<1>3. m \in Rows
  BY <1>2, MergeType
<1>4. tx \in [Requests -> [RowIds -> Rows \cup {NoRow, Same}]]
  BY DEF StoreTypeOK
<1>5. /\ \A i \in RowIds \ {d.id} : t[i] = IF i = f THEN NoRow ELSE tx[r][i]
      /\ t[d.id] = m
  BY <1>2
<1>6. t \in [RowIds -> Rows \cup {NoRow, Same}]
  <2>1. \A i \in RowIds : t[i] \in Rows \cup {NoRow, Same}
    BY <1>3, <1>4, <1>5
  <2> QED
    BY <2>1
<1> HIDE DEF t, m
<1>7. tx' \in [Requests -> [RowIds -> Rows \cup {NoRow, Same}]] /\ tx'[r] = t
      /\ \A q \in Requests \ {r} : tx'[q] = tx[q]
  BY <1>1, <1>4, <1>6
<1>8. StoreTypeOK'
  BY <1>7 DEF StoreTypeOK
<1> QED
  BY <1>3, <1>5, <1>7, <1>8 DEF m

LEMMA RecordErrorFacts ==
    ASSUME StoreTypeOK, NEW r \in Requests, NEW p \in Paths, RecordError(r, p), UNCHANGED rows
    PROVE  /\ StoreTypeOK'
           /\ \A q \in Requests \ {r} : tx'[q] = tx[q]
           /\ tx'[r][ErrorId(p)] = ErrorRow(p)
           /\ \A i \in RowIds \ {ErrorId(p)} :
                tx'[r][i] = IF i = IdAt(View(r), p) THEN NoRow ELSE tx[r][i]
<1> DEFINE f == IdAt(View(r), p)
           t == [i \in RowIds |-> CASE i = ErrorId(p) -> ErrorRow(p)
                                    [] i = f /\ i # ErrorId(p) -> NoRow
                                    [] OTHER -> tx[r][i]]
<1>1. tx' = [tx EXCEPT ![r] = t]
  BY DEF RecordError
<1>2. ErrorId(p) \in RowIds /\ ErrorRow(p) \in Rows
  BY Ids, RowTypes
<1>3. tx \in [Requests -> [RowIds -> Rows \cup {NoRow, Same}]]
  BY DEF StoreTypeOK
<1> HIDE DEF f
<1>4. /\ \A i \in RowIds \ {ErrorId(p)} : t[i] = IF i = f THEN NoRow ELSE tx[r][i]
      /\ t[ErrorId(p)] = ErrorRow(p)
  BY <1>2
<1>5. t \in [RowIds -> Rows \cup {NoRow, Same}]
  <2>1. \A i \in RowIds : t[i] \in Rows \cup {NoRow, Same}
    BY <1>2, <1>3, <1>4
  <2> QED
    BY <2>1
<1> HIDE DEF t
<1>6. tx' \in [Requests -> [RowIds -> Rows \cup {NoRow, Same}]] /\ tx'[r] = t
      /\ \A q \in Requests \ {r} : tx'[q] = tx[q]
  BY <1>1, <1>3, <1>5
<1>7. StoreTypeOK'
  BY <1>6 DEF StoreTypeOK
<1> QED
  BY <1>4, <1>6, <1>7 DEF f

LEMMA EndFacts ==
    ASSUME StoreTypeOK, NEW r \in Requests, Commit(r) \/ Rollback(r)
    PROVE  /\ StoreTypeOK'
           /\ \A q \in Requests \ {r} : tx'[q] = tx[q]
           /\ tx'[r] = Untouched /\ \A i \in RowIds : tx'[r][i] = Same
           /\ rows' = rows \/ (Commit(r) /\ rows' = View(r))
<1>1. Untouched \in [RowIds -> Rows \cup {NoRow, Same}] /\ \A i \in RowIds : Untouched[i] = Same
  BY DEF Untouched
<1>2. tx' = [tx EXCEPT ![r] = Untouched] /\ (rows' = rows \/ (Commit(r) /\ rows' = View(r)))
  BY DEF Commit, Rollback
<1>3. tx' \in [Requests -> [RowIds -> Rows \cup {NoRow, Same}]] /\ tx'[r] = Untouched
      /\ \A q \in Requests \ {r} : tx'[q] = tx[q]
  BY <1>1, <1>2 DEF StoreTypeOK
<1>4. rows' \in [RowIds -> Rows \cup {NoRow}]
  BY <1>2, ViewType DEF StoreTypeOK
<1> QED
  BY <1>1, <1>2, <1>3, <1>4 DEF StoreTypeOK

-----------------------------------------------------------------------------
(* FramesInv, from the row on                                              *)

LEMMA FlushMoves ==
    ASSUME FramesInv, NEW r \in Requests, Flush(r)
    PROVE  /\ FramesInv' /\ UNCHANGED <<load, file, rows, lane>> /\ req[r].pc = "flush"
           /\ Moves(r, {"pc", "claim", "marks"}) /\ req'[r].pc = "plan" /\ req'[r].claim = NoMark
           /\ ~UpsertStuck(r)
           /\ req[r].row = NoRow <=> View(r)[req[r].doc.id] = NoRow
           /\ Upsert(r, req[r].doc, req[r].at, req[r].row, req[r].foundAt)
<1> DEFINE o == req[r]
           mark == [old |-> o.doc.supersedes, new |-> o.doc.id, path |-> o.at]
           m == IF /\ o.cmd.kind = "reindex" /\ o.claim = NoMark /\ o.doc.supersedes # NoId
                THEN Append(o.marks, mark) ELSE o.marks
           s == [o EXCEPT !.pc = "plan", !.claim = NoMark, !.marks = m]
<1>1. o \in Frames /\ FrameShape(o) /\ StoreTypeOK
  BY FrameOf
<1>2. /\ o.pc = "flush" /\ ~UpsertStuck(r) /\ Upsert(r, o.doc, o.at, o.row, o.foundAt)
      /\ Go(r, s) /\ UNCHANGED <<load, file, rows, lane>>
  BY DEF Flush
<1>3. /\ o.at \in Paths /\ o.doc \in Documents /\ o.row \in Rows \cup {NoRow}
      /\ o.foundAt \in RowIds \cup {NoId} /\ o.marks \in Seq(Marks)
  BY <1>1, <1>2 DEF FrameShape, Frames
<1>4. o.doc.supersedes # NoId => mark \in Marks
  BY <1>3 DEF Documents, Marks
<1>5. m \in Seq(Marks)
  <2> HIDE DEF mark
  <2> QED
    BY <1>3, <1>4
<1>6. o.row = NoRow <=> View(r)[o.doc.id] = NoRow
  BY <1>2 DEF UpsertStuck, UpsertClashes
<1>7. StoreTypeOK'
  BY <1>1, <1>2, <1>3, <1>6, UpsertFacts
<1> HIDE DEF m
<1>8. s \in Frames
  BY <1>1, <1>5 DEF Frames, Pcs
<1>9. Carries(o, s, {"pc", "claim", "marks"}) /\ s.pc = "plan" /\ s.claim = NoMark
  BY <1>1 DEF Frames, Carries
<1> HIDE DEF s
<1>10. FrameShape(s)
  BY <1>1, <1>2, <1>9 DEF FrameShape, Carries
<1>11. file' \in [Paths -> Documents \cup {NoDoc}]
  BY <1>2 DEF FramesInv, TypeOK
<1> QED
  BY <1>2, <1>6, <1>7, <1>8, <1>9, <1>10, <1>11, LaneKept, FrameStep

LEMMA ErrorPathsType ==
    ASSUME NEW m \in Marks \cup {NoMark}
    PROVE  ErrorPaths(m) \subseteq Paths
BY DEF ErrorPaths, Marks

LEMMA FlushFailsMoves ==
    ASSUME FramesInv, NEW r \in Requests, FlushFails(r)
    PROVE  /\ FramesInv' /\ UNCHANGED <<load, file, rows, tx, lane>> /\ req[r].pc = "flush"
           /\ Moves(r, {"pc", "claim", "errs", "ok"}) /\ req'[r].pc = "plan"
           /\ req'[r].claim = NoMark /\ req[r].at \in req'[r].errs
           /\ req'[r].ok = (req[r].cmd.kind = "reindex")
<1> DEFINE o == req[r]
           e == {o.at} \cup ErrorPaths(o.claim)
           k == o.cmd.kind = "reindex"
           s == [o EXCEPT !.pc = "plan", !.claim = NoMark, !.errs = e, !.ok = k]
<1>1. o \in Frames /\ FrameShape(o)
  BY FrameOf
<1>2. o.pc = "flush" /\ Go(r, s) /\ UNCHANGED <<load, file, rows, tx, lane>>
  BY DEF FlushFails
<1>3. e \subseteq Paths /\ o.at \in e
  BY <1>1, <1>2, ErrorPathsType DEF FrameShape, Frames
<1>4. k \in BOOLEAN
  OBVIOUS
<1> HIDE DEF e, k
<1>5. s \in Frames
  BY <1>1, <1>3, <1>4 DEF Frames, Pcs
<1>6. Carries(o, s, {"pc", "claim", "errs", "ok"}) /\ s.pc = "plan" /\ s.claim = NoMark
      /\ s.errs = e /\ s.ok = k
  BY <1>1 DEF Frames, Carries
<1> HIDE DEF s
<1>7. FrameShape(s)
  BY <1>1, <1>2, <1>6 DEF FrameShape, Carries, k
<1> QED
  BY <1>2, <1>3, <1>5, <1>6, <1>7, FrameOnly DEF k

LEMMA FirstFacts ==
    ASSUME NEW S \in SUBSET Paths, S # {}
    PROVE  First(S) \in S
<1>1. S \in SUBSET Nat
  BY Ids
<1>2. PICK x \in S : \A y \in S : ~(<<y, x>> \in OpToRel(<, Nat))
  BY <1>1, NatLessThanWellFounded, WFMin, Zenon
<1>3. \A y \in S : ~(y < x)
  BY <1>1, <1>2 DEF OpToRel
<1>4. \A y \in S : x <= y
  BY <1>1, <1>3
<1> QED
  BY <1>4 DEF First

LEMMA RecordIndexErrorMoves ==
    ASSUME FramesInv, NEW r \in Requests, RecordIndexError(r)
    PROVE  /\ FramesInv' /\ UNCHANGED <<load, file, rows, lane>> /\ req[r].pc = "plan"
           /\ Moves(r, {"errs"}) /\ NextError(r) \in req[r].errs /\ NextError(r) \in Paths
           /\ req'[r].errs = req[r].errs \ {NextError(r)}
           /\ ~Blocked(r, ErrorKeys(r, NextError(r)), NextError(r))
           /\ RecordError(r, NextError(r))
<1> DEFINE o == req[r]
           p == NextError(r)
           s == [o EXCEPT !.errs = o.errs \ {p}]
<1>1. o \in Frames /\ FrameShape(o) /\ StoreTypeOK
  BY FrameOf
<1>2. /\ o.pc = "plan" /\ o.errs # {} /\ ~Blocked(r, ErrorKeys(r, p), p) /\ RecordError(r, p)
      /\ Go(r, s) /\ UNCHANGED <<load, file, rows, lane>>
  BY DEF RecordIndexError
<1>3. p \in o.errs /\ o.errs \subseteq Paths
  BY <1>1, <1>2, FirstFacts DEF NextError, Frames
<1> HIDE DEF p
<1>4. s \in Frames
  BY <1>1, <1>3 DEF Frames
<1>5. Carries(o, s, {"errs"}) /\ s.errs = o.errs \ {p}
  BY <1>1 DEF Frames, Carries
<1> HIDE DEF s
<1>6. FrameShape(s)
  BY <1>1, <1>2, <1>5 DEF FrameShape, Carries
<1>7. StoreTypeOK'
  BY <1>1, <1>2, <1>3, RecordErrorFacts
<1>8. file' \in [Paths -> Documents \cup {NoDoc}]
  BY <1>2 DEF FramesInv, TypeOK
<1> QED
  BY <1>2, <1>3, <1>4, <1>5, <1>6, <1>7, <1>8, LaneKept, FrameStep DEF p


LEMMA RecordFailsMoves ==
    ASSUME FramesInv, NEW r \in Requests, RecordFails(r) \/ Abort(r)
    PROVE  /\ FramesInv' /\ Fails(r) /\ req[r].pc = "plan"
           /\ UNCHANGED <<load, file, rows, tx, lane>>
BY FailStep DEF RecordFails, Abort

LEMMA PickUpsertMoves ==
    ASSUME FramesInv, NEW r \in Requests, PickUpsert(r)
    PROVE  /\ FramesInv' /\ UNCHANGED <<load, file, rows, tx, lane>>
           /\ req[r].pc = "plan" /\ req[r].ok /\ req[r].errs = {}
           /\ Moves(r, {"pc", "at", "doc", "todo"}) /\ req'[r].pc = "load"
           /\ req'[r].at \in req[r].todo /\ req'[r].doc = req[r].seen[req'[r].at]
           /\ req'[r].todo = req[r].todo \ {req'[r].at}
<1> DEFINE o == req[r]
           p == First(o.todo)
           d == o.seen[p]
           s == [o EXCEPT !.pc = "load", !.at = p, !.doc = d, !.todo = o.todo \ {p}]
<1>1. o \in Frames /\ FrameShape(o)
  BY FrameOf
<1>2. /\ o.pc = "plan" /\ o.ok /\ o.errs = {} /\ o.todo # {} /\ Go(r, s)
      /\ UNCHANGED <<load, file, rows, tx, lane>>
  BY DEF PickUpsert
<1>3. p \in o.todo /\ o.todo \subseteq Paths
  BY <1>1, <1>2, FirstFacts DEF Frames
<1>4. d \in Documents
  BY <1>1, <1>3 DEF FrameShape
<1> HIDE DEF p
<1>5. d = o.seen[p]
  OBVIOUS
<1> HIDE DEF d
<1>6. s \in Frames
  BY <1>1, <1>3, <1>4 DEF Frames, Pcs
<1>7. Carries(o, s, {"pc", "at", "doc", "todo"}) /\ s.pc = "load" /\ s.at = p /\ s.doc = d
      /\ s.todo = o.todo \ {p}
  BY <1>1 DEF Frames, Carries
<1> HIDE DEF s
<1>8. FrameShape(s)
  BY <1>1, <1>2, <1>3, <1>4, <1>7 DEF FrameShape, Carries
<1> QED
  BY <1>2, <1>3, <1>5, <1>6, <1>7, <1>8, FrameOnly

\* Relation m is given up: its error is to be recorded, and only a reindex goes on.
LEMMA GiveUpFacts ==
    ASSUME NEW s \in Frames, NEW m \in Marks \cup {NoMark}
    PROVE  /\ GiveUp(s, m) \in Frames /\ Carries(s, GiveUp(s, m), {"pc", "claim", "errs", "ok"})
           /\ GiveUp(s, m).pc = "plan" /\ GiveUp(s, m).claim = NoMark
           /\ GiveUp(s, m).ok = (s.cmd.kind = "reindex")
<1> DEFINE e == ErrorPaths(m)
           k == s.cmd.kind = "reindex"
           t == [s EXCEPT !.pc = "plan", !.claim = NoMark, !.errs = e, !.ok = k]
<1>1. e \subseteq Paths /\ k \in BOOLEAN /\ GiveUp(s, m) = t
  BY ErrorPathsType DEF GiveUp
<1> HIDE DEF e, k
<1>2. t \in Frames
  BY <1>1 DEF Frames, Pcs
<1>3. Carries(s, t, {"pc", "claim", "errs", "ok"}) /\ t.pc = "plan" /\ t.claim = NoMark /\ t.ok = k
  BY DEF Frames, Carries
<1> QED
  BY <1>1, <1>2, <1>3 DEF k

LEMMA MarkSupersededMoves ==
    ASSUME FramesInv, NEW r \in Requests, MarkSuperseded(r)
    PROVE  /\ FramesInv' /\ UNCHANGED <<load, file, rows, tx, lane>>
           /\ req[r].pc = "plan" /\ req[r].ok /\ req[r].errs = {} /\ req[r].todo = {}
           /\ \/ /\ Moves(r, {"pc", "claim", "errs", "ok", "marks"}) /\ req'[r].pc = "plan"
                 /\ req'[r].claim = NoMark /\ req'[r].ok = (req[r].cmd.kind = "reindex")
              \/ Moves(r, {"marks"})
              \/ /\ Moves(r, {"pc", "claim", "at", "edit", "marks"}) /\ req'[r].pc = "edit"
                 /\ \E m \in Marks :
                      LET row == View(r)[m.old] IN
                      /\ req'[r].claim = m /\ row # NoRow /\ req'[r].at = row.path
                      /\ row.source.supersededBy \in {NoId, m.new}
                      /\ ~(row.source.supersededBy = m.new /\ row.doc.status = "superseded")
                      /\ req'[r].edit = [status |-> "superseded", supersedes |-> NoId,
                                         supersededBy |-> m.new]
<1> DEFINE o == req[r]
           m == Head(o.marks)
           row == View(r)[m.old]
           rest == [o EXCEPT !.marks = Tail(o.marks)]
           e == [status |-> "superseded", supersedes |-> NoId, supersededBy |-> m.new]
           s == [rest EXCEPT !.pc = "edit", !.claim = m, !.at = row.path, !.edit = e]
<1>1. o \in Frames /\ FrameShape(o) /\ StoreTypeOK
  BY FrameOf
<1>2. /\ o.pc = "plan" /\ o.ok /\ o.errs = {} /\ o.todo = {} /\ o.marks # <<>>
      /\ UNCHANGED <<load, file, rows, tx, lane>>
  BY DEF MarkSuperseded
<1>3. \/ Go(r, GiveUp(rest, m))
      \/ Go(r, rest)
      \/ /\ Go(r, s) /\ row # NoRow /\ row.source.supersededBy \in {NoId, m.new}
         /\ ~(row.source.supersededBy = m.new /\ row.doc.status = "superseded")
  BY DEF MarkSuperseded
<1>4. m \in Marks /\ Tail(o.marks) \in Seq(Marks)
  BY <1>1, <1>2 DEF Frames
<1>5. m.old \in RowIds /\ m.new \in RowIds /\ row \in Rows \cup {NoRow}
  BY <1>1, <1>4, ViewType DEF Marks
<1>6. e \in Edits
  BY <1>5 DEF Edits
<1>7. rest \in Frames
  BY <1>1, <1>4 DEF Frames
<1>8. Carries(o, rest, {"marks"})
  BY <1>1 DEF Frames, Carries
<1>9. row # NoRow => row.path \in Paths
  BY <1>5, Sentinels
<1> HIDE DEF m, row, e
<1>10. ASSUME row # NoRow
       PROVE  /\ s \in Frames /\ Carries(rest, s, {"pc", "claim", "at", "edit"})
              /\ s.pc = "edit" /\ s.claim = m /\ s.at = row.path /\ s.edit = e
  <2> HIDE DEF rest
  <2>1. s \in Frames
    BY <1>4, <1>6, <1>7, <1>9, <1>10 DEF Frames, Pcs
  <2>2. Carries(rest, s, {"pc", "claim", "at", "edit"}) /\ s.pc = "edit" /\ s.claim = m
        /\ s.at = row.path /\ s.edit = e
    BY <1>7 DEF Frames, Carries
  <2> QED
    BY <2>1, <2>2
<1> HIDE DEF s, rest
<1>11. CASE Go(r, GiveUp(rest, m))
  <2> DEFINE g == GiveUp(rest, m)
  <2>1. /\ g \in Frames /\ Carries(rest, g, {"pc", "claim", "errs", "ok"})
        /\ g.pc = "plan" /\ g.claim = NoMark /\ g.ok = (rest.cmd.kind = "reindex")
    BY <1>4, <1>7, GiveUpFacts
  <2> HIDE DEF g
  <2>2. Carries(o, g, {"pc", "claim", "errs", "ok", "marks"}) /\ g.ok = (o.cmd.kind = "reindex")
    BY <1>8, <2>1 DEF Carries
  <2>3. FrameShape(g)
    BY <1>1, <1>2, <2>1, <2>2 DEF FrameShape, Carries
  <2>4. Go(r, g)
    BY <1>11 DEF g
  <2> QED
    BY <1>2, <2>1, <2>2, <2>3, <2>4, FrameOnly
<1>12. CASE Go(r, rest)
  <2>1. FrameShape(rest)
    BY <1>1, <1>2, <1>8 DEF FrameShape, Carries
  <2> QED
    BY <1>2, <1>7, <1>8, <1>12, <2>1, FrameOnly
<1>13. CASE Go(r, s) /\ row # NoRow /\ row.source.supersededBy \in {NoId, m.new}
            /\ ~(row.source.supersededBy = m.new /\ row.doc.status = "superseded")
  <2>1. Carries(o, s, {"pc", "claim", "at", "edit", "marks"})
    BY <1>8, <1>10, <1>13 DEF Carries
  <2>2. FrameShape(s)
    BY <1>1, <1>2, <1>6, <1>9, <1>10, <1>13, <2>1 DEF FrameShape, Carries
  <2>3. FramesInv' /\ Moves(r, {"pc", "claim", "at", "edit", "marks"}) /\ req'[r] = s
    BY <1>2, <1>10, <1>13, <2>1, <2>2, FrameOnly
  <2> QED
    BY <1>2, <1>4, <1>10, <1>13, <2>3 DEF row, e
<1> QED
  BY <1>3, <1>11, <1>12, <1>13

LEMMA EditOfType ==
    ASSUME NEW d \in Documents, NEW e \in Edits, NEW r \in Requests
    PROVE  /\ EditOf(d, e, r) \in Documents /\ EditOf(d, e, r).by = r
           /\ EditOf(d, e, r).id = d.id /\ EditOf(d, e, r).body = d.body
           /\ e.status # "" => EditOf(d, e, r).status = e.status
           /\ e.supersededBy # NoId => EditOf(d, e, r).supersededBy = e.supersededBy
<1>1. r \in 0 .. NRequests
  BY Ids
<1> QED
  BY <1>1 DEF EditOf, Edits, Documents

LEMMA UpdateScalarsMoves ==
    ASSUME FramesInv, NEW r \in Requests, UpdateScalars(r)
    PROVE  /\ FramesInv' /\ UNCHANGED <<load, file, rows, tx, lane>> /\ req[r].pc = "edit"
           /\ \/ /\ Moves(r, {"pc", "doc"}) /\ req'[r].pc = "persist"
                 /\ req[r].edit \in Edits /\ file[req[r].at] \in Documents
                 /\ req'[r].doc = EditOf(file[req[r].at], req[r].edit, r)
              \/ /\ Moves(r, {"pc", "claim", "errs", "ok"}) /\ req'[r].pc = "plan"
                 /\ file[req[r].at] = NoDoc
                 /\ req'[r].claim = NoMark /\ req'[r].ok = (req[r].cmd.kind = "reindex")
<1> DEFINE o == req[r]
           d == EditOf(file[o.at], o.edit, r)
           s == [o EXCEPT !.pc = "persist", !.doc = d]
<1>1. o \in Frames /\ FrameShape(o)
  BY FrameOf
<1>2. /\ o.pc = "edit" /\ UNCHANGED <<load, file, rows, tx, lane>>
      /\ (file[o.at] # NoDoc /\ Go(r, s)) \/ (file[o.at] = NoDoc /\ Go(r, GiveUp(o, o.claim)))
  BY DEF UpdateScalars
<1>3. o.edit \in Edits /\ o.at \in Paths /\ file[o.at] \in Documents \cup {NoDoc}
      /\ o.claim \in Marks \cup {NoMark}
  BY <1>1, <1>2 DEF FrameShape, FramesInv, TypeOK, Frames
<1>4. CASE file[o.at] # NoDoc /\ Go(r, s)
  <2>1. d \in Documents
    BY <1>3, <1>4, EditOfType
  <2> HIDE DEF d
  <2>2. s \in Frames
    BY <1>1, <2>1 DEF Frames, Pcs
  <2>3. Carries(o, s, {"pc", "doc"}) /\ s.pc = "persist" /\ s.doc = d
    BY <1>1 DEF Frames, Carries
  <2> HIDE DEF s
  <2>4. FrameShape(s)
    BY <1>1, <1>2, <2>1, <2>3 DEF FrameShape, Carries
  <2> QED
    BY <1>2, <1>3, <1>4, <2>2, <2>3, <2>4, FrameOnly DEF d
<1>5. CASE file[o.at] = NoDoc /\ Go(r, GiveUp(o, o.claim))
  <2> DEFINE g == GiveUp(o, o.claim)
  <2>1. /\ g \in Frames /\ Carries(o, g, {"pc", "claim", "errs", "ok"})
        /\ g.pc = "plan" /\ g.claim = NoMark /\ g.ok = (o.cmd.kind = "reindex")
    BY <1>1, <1>3, GiveUpFacts
  <2>2. Go(r, g)
    BY <1>5
  <2> HIDE DEF g
  <2>3. FrameShape(g)
    BY <1>1, <1>2, <2>1 DEF FrameShape, Carries
  <2> QED
    BY <1>2, <1>5, <2>1, <2>2, <2>3, FrameOnly
<1> QED
  BY <1>2, <1>4, <1>5


\* The rows at the paths of which the file is gone.
Dropped(r) == {i \in RowIds : View(r)[i].path \in req[r].gone}

LEMMA MarkStaleMoves ==
    ASSUME FramesInv, NEW r \in Requests, MarkStale(r)
    PROVE  /\ FramesInv' /\ UNCHANGED <<load, file, rows, lane>>
           /\ req[r].pc = "plan" /\ req[r].ok /\ req[r].errs = {} /\ req[r].todo = {}
           /\ \/ Fails(r) /\ UNCHANGED tx
              \/ /\ Moves(r, {"pc"}) /\ req'[r].pc = "leave"
                 /\ \A q \in Requests \ {r} : tx'[q] = tx[q]
                 /\ \A i \in RowIds : tx'[r][i] = IF i \in Dropped(r) THEN NoRow ELSE tx[r][i]
<1> DEFINE o == req[r]
           t == [i \in RowIds |-> IF i \in Dropped(r) THEN NoRow ELSE tx[r][i]]
           s == [o EXCEPT !.pc = "leave"]
<1>1. o \in Frames /\ FrameShape(o) /\ StoreTypeOK
  BY FrameOf
<1>2. /\ o.pc = "plan" /\ o.errs = {} /\ o.todo = {} /\ o.ok
      /\ UNCHANGED <<load, file, rows, lane>>
      /\ (Fail(r) /\ UNCHANGED tx) \/ (tx' = [tx EXCEPT ![r] = t] /\ Go(r, s))
  BY DEF MarkStale, Dropped
<1>3. CASE Fail(r) /\ UNCHANGED tx
  BY <1>2, <1>3, FailStep
<1>4. CASE tx' = [tx EXCEPT ![r] = t] /\ Go(r, s)
  <2>1. s \in Frames
    BY <1>1 DEF Frames, Pcs
  <2>2. Carries(o, s, {"pc"}) /\ s.pc = "leave"
    BY <1>1 DEF Frames, Carries
  <2> HIDE DEF s
  <2>3. FrameShape(s)
    BY <1>1, <1>2, <2>2 DEF FrameShape, Carries
  <2>4. t \in [RowIds -> Rows \cup {NoRow, Same}]
    BY <1>1 DEF StoreTypeOK
  <2>5. \A i \in RowIds : t[i] = IF i \in Dropped(r) THEN NoRow ELSE tx[r][i]
    OBVIOUS
  <2> HIDE DEF t
  <2>6. /\ tx' \in [Requests -> [RowIds -> Rows \cup {NoRow, Same}]] /\ tx'[r] = t
        /\ \A q \in Requests \ {r} : tx'[q] = tx[q]
    BY <1>1, <1>4, <2>4 DEF StoreTypeOK
  <2>7. StoreTypeOK' /\ file' \in [Paths -> Documents \cup {NoDoc}]
    BY <1>1, <1>2, <2>6 DEF StoreTypeOK, FramesInv, TypeOK
  <2> QED
    BY <1>2, <1>4, <2>1, <2>2, <2>3, <2>5, <2>6, <2>7, LaneKept, FrameStep
<1> QED
  BY <1>2, <1>3, <1>4

LEMMA NotePathType ==
    ASSUME FramesInv, NEW r \in Requests, NEW i \in RowIds
    PROVE  /\ NotePath(r, i) \in Paths \cup {0}
           /\ NotePath(r, i) # 0 => file[NotePath(r, i)] \in Documents
<1> DEFINE row == View(r)[i]
           holders == {p \in Paths : file[p].id = i}
<1>1. row \in Rows \cup {NoRow}
  BY ViewType DEF FramesInv, TypeOK
<1>2. \A p \in Paths : file[p] \in Documents \cup {NoDoc}
  BY DEF FramesInv, TypeOK
<1>3. NoDoc.id = NoId /\ i # NoId
  BY Ids DEF NoDoc
<1>4. CASE row # NoRow /\ file[row.path] # NoDoc
  BY <1>1, <1>2, <1>4, Sentinels DEF NotePath
<1>5. CASE ~(row # NoRow /\ file[row.path] # NoDoc)
  <2>1. CASE Cardinality(holders) = 1 /\ holders # {}
    <3>1. NotePath(r, i) = CHOOSE p \in holders : TRUE
      BY <1>5, <2>1 DEF NotePath
    <3>2. NotePath(r, i) \in holders
      BY <2>1, <3>1
    <3> QED
      BY <1>2, <1>3, <3>2
  <2>2. CASE holders = {}
    <3>1. Cardinality({}) = 0
      BY FS_EmptySet
    <3>2. NotePath(r, i) = 0
      BY <1>5, <2>2, <3>1 DEF NotePath
    <3> QED
      BY <3>2
  <2>3. CASE Cardinality(holders) # 1
    BY <1>5, <2>3 DEF NotePath
  <2> QED
    BY <2>1, <2>2, <2>3
<1> QED
  BY <1>4, <1>5

\* An edit, or the write of a whole text: archive, supersede and repair.
LEMMA ArchiveContextMoves ==
    ASSUME FramesInv, NEW r \in Requests, ArchiveContext(r)
    PROVE  /\ FramesInv' /\ UNCHANGED <<load, file, rows, tx, lane>> /\ req[r].pc = "locate"
           /\ req[r].cmd.kind = "archive"
           /\ Fails(r) \/ (Moves(r, {"pc", "at", "edit"}) /\ req'[r].pc = "edit")
<1> DEFINE o == req[r]
           p == NotePath(r, o.cmd.id)
           e == [status |-> "archived", supersedes |-> NoId, supersededBy |-> NoId]
           s == [o EXCEPT !.pc = "edit", !.at = p, !.edit = e]
<1>1. o \in Frames /\ FrameShape(o) /\ o.cmd \in Commands
  BY FrameOf
<1>2. /\ o.pc = "locate" /\ o.cmd.kind = "archive" /\ UNCHANGED <<load, file, rows, tx, lane>>
      /\ Fail(r) \/ (p # 0 /\ Go(r, s))
  BY DEF ArchiveContext
<1>3. p \in Paths \cup {0} /\ e \in Edits
  BY <1>1, <1>2, CommandFields, NotePathType DEF Edits
<1> HIDE DEF p, e
<1>4. s \in Frames
  BY <1>1, <1>3 DEF Frames, Pcs
<1>5. Carries(o, s, {"pc", "at", "edit"}) /\ s.pc = "edit" /\ s.at = p /\ s.edit = e
  BY <1>1 DEF Frames, Carries
<1> HIDE DEF s
<1>6. CASE Fail(r)
  BY <1>2, <1>6, FailStep
<1>7. CASE p # 0 /\ Go(r, s)
  <2>1. FrameShape(s)
    BY <1>1, <1>2, <1>3, <1>5, <1>7 DEF FrameShape, Carries
  <2> QED
    BY <1>2, <1>4, <1>5, <1>7, <2>1, FrameOnly
<1> QED
  BY <1>2, <1>6, <1>7

LEMMA SupersedeContextMoves ==
    ASSUME FramesInv, NEW r \in Requests, SupersedeContext(r)
    PROVE  /\ FramesInv' /\ UNCHANGED <<load, file, rows, tx, lane>> /\ req[r].pc = "locate"
           /\ req[r].cmd.kind = "supersede"
           /\ \/ Fails(r)
              \/ Moves(r, {"pc"}) /\ req'[r].pc = "leave"
              \/ Moves(r, {"pc", "at", "edit", "marks"}) /\ req'[r].pc \in {"edit", "plan"}
<1> DEFINE o == req[r]
           c == o.cmd
           q == NotePath(r, c.of)
           new == file[q]
           m == <<[old |-> c.id, new |-> c.of, path |-> 0]>>
           k == IF new.supersedes = NoId THEN "edit" ELSE "plan"
           e == [status |-> IF new.supersededBy = NoId THEN "current" ELSE "",
                 supersedes |-> c.id, supersededBy |-> NoId]
           s1 == [o EXCEPT !.pc = "leave"]
           s2 == [o EXCEPT !.marks = m, !.at = q, !.pc = k, !.edit = e]
<1>1. o \in Frames /\ FrameShape(o) /\ c \in Commands
  BY FrameOf
<1>2. /\ o.pc = "locate" /\ c.kind = "supersede" /\ UNCHANGED <<load, file, rows, tx, lane>>
      /\ Fail(r) \/ Go(r, s1) \/ (q # 0 /\ Go(r, s2))
  BY DEF SupersedeContext
<1>3. c.id \in RowIds /\ c.of \in RowIds
  BY <1>1, <1>2, CommandFields
<1>4. q \in Paths \cup {0}
  BY <1>3, NotePathType
<1>5. [old |-> c.id, new |-> c.of, path |-> 0] \in Marks
  BY <1>3 DEF Marks
<1>6. m \in Seq(Marks)
  BY <1>5
<1>7. e \in Edits /\ k \in {"edit", "plan"}
  BY <1>3 DEF Edits
<1> HIDE DEF q, e, k, m
<1>8. s1 \in Frames
  BY <1>1 DEF Frames, Pcs
<1>9. s2 \in Frames
  BY <1>1, <1>4, <1>6, <1>7, ZenonT(60) DEF Frames, Pcs
<1>10. Carries(o, s1, {"pc"}) /\ s1.pc = "leave"
  BY <1>1 DEF Frames, Carries
<1>11. Carries(o, s2, {"pc", "at", "edit", "marks"}) /\ s2.pc = k /\ s2.at = q /\ s2.edit = e
  BY <1>1 DEF Frames, Carries
<1> HIDE DEF s1, s2
<1>12. CASE Fail(r)
  BY <1>2, <1>12, FailStep
<1>13. CASE Go(r, s1)
  <2>1. FrameShape(s1)
    BY <1>1, <1>2, <1>10 DEF FrameShape, Carries
  <2> QED
    BY <1>2, <1>8, <1>10, <1>13, <2>1, FrameOnly
<1>14. CASE q # 0 /\ Go(r, s2)
  <2>1. FrameShape(s2)
    BY <1>1, <1>2, <1>4, <1>7, <1>11, <1>14 DEF FrameShape, Carries
  <2> QED
    BY <1>2, <1>7, <1>9, <1>11, <1>14, <2>1, FrameOnly
<1> QED
  BY <1>2, <1>12, <1>13, <1>14

LEMMA RepairNoteRawMoves ==
    ASSUME FramesInv, NEW r \in Requests, RepairNoteRaw(r)
    PROVE  /\ FramesInv' /\ UNCHANGED <<load, file, rows, tx, lane>> /\ req[r].pc = "source"
           /\ Fails(r) \/ (Moves(r, {"pc", "doc"}) /\ req'[r].pc = "persist")
<1> DEFINE o == req[r]
           d == [o.token EXCEPT !.body = o.cmd.body, !.by = r]
           s == [o EXCEPT !.pc = "persist", !.doc = d]
<1>1. o \in Frames /\ FrameShape(o) /\ o.cmd \in Commands
  BY FrameOf
<1>2. o.pc = "source" /\ UNCHANGED <<load, file, rows, tx, lane>> /\ (Fail(r) \/ Go(r, s))
  BY DEF RepairNoteRaw
<1>3. o.token \in Documents /\ o.cmd.body \in Bodies /\ o.at \in Paths /\ r \in 0 .. NRequests
  BY <1>1, <1>2, CommandFields, Ids DEF FrameShape
<1>4. d \in Documents
  BY <1>3 DEF Documents
<1> HIDE DEF d
<1>5. s \in Frames
  BY <1>1, <1>4 DEF Frames, Pcs
<1>6. Carries(o, s, {"pc", "doc"}) /\ s.pc = "persist" /\ s.doc = d
  BY <1>1 DEF Frames, Carries
<1> HIDE DEF s
<1>7. FrameShape(s)
  BY <1>1, <1>2, <1>4, <1>6 DEF FrameShape, Carries
<1>8. CASE Fail(r)
  BY <1>2, <1>8, FailStep
<1>9. CASE Go(r, s)
  BY <1>2, <1>5, <1>6, <1>7, <1>9, FrameOnly
<1> QED
  BY <1>2, <1>8, <1>9


LEMMA EnterReindexMoves ==
    ASSUME FramesInv, NEW r \in Requests, EnterReindex(r)
    PROVE  /\ FramesInv' /\ UNCHANGED <<load, file, rows, tx>>
           /\ req[r].pc = "enter" /\ req[r].cmd.kind = "reindex"
           /\ \/ Fails(r) /\ UNCHANGED lane
              \/ /\ Moves(r, {"pc"}) /\ req'[r].pc = "scan"
                 /\ Lane!GrantExclusive(r)
<1> DEFINE o == req[r]
           s == [o EXCEPT !.pc = "scan"]
<1>1. o \in Frames /\ FrameShape(o) /\ o.cmd = Reindex
  BY FrameOf, CommandFields DEF EnterReindex
<1>2. /\ o.pc = "enter" /\ o.cmd.kind = "reindex" /\ UNCHANGED <<load, file, rows, tx>>
      /\ (Fail(r) /\ UNCHANGED lane) \/ (Go(r, s) /\ Lane!GrantExclusive(r))
  BY DEF EnterReindex
<1>3. CASE Fail(r) /\ UNCHANGED lane
  BY <1>2, <1>3, FailStep
<1>4. CASE Go(r, s) /\ Lane!GrantExclusive(r)
  <2>1. s \in Frames
    BY <1>1 DEF Frames, Pcs
  <2>2. Carries(o, s, {"pc"}) /\ s.pc = "scan"
    BY <1>1 DEF Frames, Carries
  <2> HIDE DEF s
  <2>3. o.seen = <<>> /\ Len(<<>>) < NPaths
    BY <1>1, <1>2, Ids DEF FrameShape
  <2>4. FrameShape(s)
    BY <1>1, <1>2, <2>2, <2>3 DEF FrameShape, Carries
  <2> QED
    BY <1>2, <1>4, <2>1, <2>2, <2>4, LaneTaken, StoreKept, FrameStep
<1> QED
  BY <1>2, <1>3, <1>4

LEMMA ScanMoves ==
    ASSUME FramesInv, NEW r \in Requests, Scan(r)
    PROVE  /\ FramesInv' /\ UNCHANGED <<load, file, rows, tx, lane>> /\ req[r].pc = "scan"
           /\ Moves(r, {"pc", "seen"}) /\ req'[r].pc \in {"scan", "compile"}
           /\ Len(req[r].seen) + 1 \in Paths
           /\ req'[r].seen = Append(req[r].seen, file[Len(req[r].seen) + 1])
<1> DEFINE o == req[r]
           d == file[Len(o.seen) + 1]
           seen == Append(o.seen, d)
           k == IF Len(seen) = NPaths THEN "compile" ELSE "scan"
           s == [o EXCEPT !.seen = seen, !.pc = k]
<1>1. o \in Frames /\ FrameShape(o)
  BY FrameOf
<1>2. o.pc = "scan" /\ UNCHANGED <<load, file, rows, tx, lane>> /\ Go(r, s)
  BY DEF Scan
<1>3. o.seen \in Seq(Documents \cup {NoDoc}) /\ Len(o.seen) < NPaths /\ o.cmd.kind = "reindex"
  BY <1>1, <1>2 DEF Frames, FrameShape
<1>4. Len(o.seen) + 1 \in Paths
  BY <1>3, Ids DEF Paths
<1>5. d \in Documents \cup {NoDoc}
  BY <1>4 DEF FramesInv, TypeOK
<1> HIDE DEF d
<1>6. seen \in Seq(Documents \cup {NoDoc}) /\ Len(seen) = Len(o.seen) + 1
  BY <1>3, <1>5
<1>7. /\ k \in {"scan", "compile"}
      /\ k = "scan" => Len(seen) < NPaths
      /\ k = "compile" => Len(seen) = NPaths
  BY <1>3, <1>6, Ids
<1>8. seen = Append(o.seen, d)
  OBVIOUS
<1> HIDE DEF seen, k
<1>9. s \in Frames
  BY <1>1, <1>6, <1>7 DEF Frames, Pcs
<1>10. Carries(o, s, {"pc", "seen"}) /\ s.pc = k /\ s.seen = seen
  BY <1>1 DEF Frames, Carries
<1> HIDE DEF s
<1>11. FrameShape(s)
  BY <1>1, <1>2, <1>3, <1>7, <1>10 DEF FrameShape, Carries
<1> QED
  BY <1>2, <1>4, <1>7, <1>8, <1>9, <1>10, <1>11, FrameOnly DEF d

\* What the compile plan of a reindex has to do at path p.
LEMMA CompileMoves ==
    ASSUME FramesInv, NEW r \in Requests, Compile(r)
    PROVE  /\ FramesInv' /\ UNCHANGED <<load, file, rows, tx, lane>> /\ req[r].pc = "compile"
           /\ Moves(r, {"pc", "errs", "todo", "gone"}) /\ req'[r].pc = "plan"
           /\ \A p \in Paths : req[r].seen[p] # NoDoc /\ p \notin req'[r].errs \cup req'[r].todo
                               => Unchanged(View(r), p, req[r].seen[p])
           /\ \A p \in Paths :
                p \in req'[r].gone <=> req[r].seen[p] = NoDoc /\ IndexedAt(View(r), p) # {}
<1> DEFINE o == req[r]
           notes == Notes(o.seen)
           accepted == AcceptedNotes(notes, NoId)
           e == DOMAIN notes \ accepted
           t == Upserts(View(r), o.seen, accepted)
           g == Removals(View(r), notes)
           s == [o EXCEPT !.pc = "plan", !.errs = e, !.todo = t, !.gone = g]
<1>1. o \in Frames /\ FrameShape(o)
  BY FrameOf
<1>2. o.pc = "compile" /\ UNCHANGED <<load, file, rows, tx, lane>> /\ Go(r, s)
  BY DEF Compile
<1>3. DOMAIN notes = {p \in Paths : o.seen[p] # NoDoc}
  BY DEF Notes
<1>4. accepted \subseteq DOMAIN notes
  BY DEF AcceptedNotes, ValidNotes
<1> HIDE DEF accepted
<1>5. /\ e \subseteq Paths /\ t \subseteq Paths /\ g \subseteq Paths
      /\ \A p \in t : o.seen[p] # NoDoc
  BY <1>3, <1>4 DEF Upserts, Removals
<1>6. \A p \in Paths : o.seen[p] # NoDoc /\ p \notin e \cup t => Unchanged(View(r), p, o.seen[p])
  BY <1>3 DEF Upserts
<1>7. \A p \in Paths : p \in g <=> o.seen[p] = NoDoc /\ IndexedAt(View(r), p) # {}
  BY <1>3 DEF Removals
<1> HIDE DEF e, t, g
<1>8. s \in Frames
  BY <1>1, <1>5 DEF Frames, Pcs
<1>9. Carries(o, s, {"pc", "errs", "todo", "gone"}) /\ s.pc = "plan" /\ s.errs = e /\ s.todo = t
      /\ s.gone = g
  BY <1>1 DEF Frames, Carries
<1>10. Len(o.seen) = NPaths /\ \A p \in t : o.seen[p] \in Documents
  <2>1. o.seen \in Seq(Documents \cup {NoDoc}) /\ Len(o.seen) = NPaths
    BY <1>1, <1>2 DEF Frames, FrameShape
  <2>2. \A p \in Paths : o.seen[p] \in Documents \cup {NoDoc}
    BY <2>1 DEF Paths
  <2> QED
    BY <1>5, <2>1, <2>2
<1> HIDE DEF s
<1>11. FrameShape(s)
  BY <1>1, <1>2, <1>9, <1>10 DEF FrameShape, Carries
<1> QED
  BY <1>2, <1>6, <1>7, <1>8, <1>9, <1>11, FrameOnly

LEMMA LeaveLaneMoves ==
    ASSUME FramesInv, NEW r \in Requests, LeaveLane(r)
    PROVE  /\ FramesInv' /\ UNCHANGED <<load, file, rows, tx>> /\ req[r].pc = "leave"
           /\ Moves(r, {"pc"}) /\ req'[r].pc = "respond"
           /\ \A q \in Requests \ {r} : lane'[q] = lane[q]
<1> DEFINE o == req[r]
           s == [o EXCEPT !.pc = "respond"]
<1>1. o \in Frames /\ FrameShape(o)
  BY FrameOf
<1>2. o.pc = "leave" /\ UNCHANGED <<load, file, rows, tx>> /\ Go(r, s) /\ Lane!Leave({r})
  BY DEF LeaveLane
<1>3. s \in Frames
  BY <1>1 DEF Frames, Pcs
<1>4. Carries(o, s, {"pc"}) /\ s.pc = "respond"
  BY <1>1 DEF Frames, Carries
<1> HIDE DEF s
<1>5. FrameShape(s)
  BY <1>1, <1>2, <1>4 DEF FrameShape, Carries
<1>6. Lane!TypeOK' /\ LaneExclusive' /\ \A q \in Requests \ {r} : lane'[q] = lane[q]
  BY <1>2 DEF Lane!Leave, Lane!TypeOK, Lane!Modes, LaneExclusive, FramesInv, TypeOK
<1> QED
  BY <1>2, <1>3, <1>4, <1>5, <1>6, StoreKept, FrameStep

LEMMA RespondMoves ==
    ASSUME FramesInv, NEW r \in Requests, Respond(r)
    PROVE  /\ FramesInv' /\ UNCHANGED <<load, file, lane>> /\ req[r].pc = "respond"
           /\ req'[r].pc = "done" /\ Carries(Idle, req'[r], {"pc", "ok"})
           /\ \A q \in Requests \ {r} : req'[q] = req[q]
           /\ \A q \in Requests \ {r} : tx'[q] = tx[q]
           /\ tx'[r] = Untouched /\ \A i \in RowIds : tx'[r][i] = Same
           /\ rows' = rows \/ (req[r].ok /\ rows' = View(r))
<1> DEFINE k == req[r].ok
           s == [Idle EXCEPT !.pc = "done", !.ok = k]
<1>1. req[r] \in Frames /\ StoreTypeOK
  BY FrameOf
<1>2. k \in BOOLEAN
  BY <1>1 DEF Frames
<1>3. /\ req[r].pc = "respond" /\ UNCHANGED <<load, file, lane>> /\ Go(r, s)
      /\ (req[r].ok /\ Commit(r)) \/ Rollback(r)
  BY DEF Respond
<1>4. s \in Frames /\ FrameShape(s)
  BY <1>2, IdleFrame
<1>5. Carries(Idle, s, {"pc", "ok"}) /\ s.pc = "done"
  BY DEF Idle, Carries
<1> HIDE DEF s
<1>6. Carries(req[r], s, {"pc", "cmd", "id", "at", "doc", "row", "foundAt", "edit", "token",
                          "seen", "errs", "todo", "marks", "claim", "gone", "ok"})
  BY DEF Carries
<1>7. /\ StoreTypeOK' /\ \A q \in Requests \ {r} : tx'[q] = tx[q]
      /\ tx'[r] = Untouched /\ \A i \in RowIds : tx'[r][i] = Same
      /\ rows' = rows \/ (req[r].ok /\ rows' = View(r))
  BY <1>1, <1>3, EndFacts DEF Commit, Rollback
<1>8. file' \in [Paths -> Documents \cup {NoDoc}]
  BY <1>3 DEF FramesInv, TypeOK
<1>9. FramesInv' /\ req'[r] = s /\ \A q \in Requests \ {r} : req'[q] = req[q]
  BY <1>3, <1>4, <1>6, <1>7, <1>8, LaneKept, FrameStep DEF Moves
<1> QED
  BY <1>3, <1>5, <1>7, <1>9

LEMMA CrashMoves ==
    ASSUME FramesInv, Crash
    PROVE  /\ FramesInv' /\ UNCHANGED <<load, file, rows>>
           /\ \A r \in Requests :
                 /\ tx'[r] = Untouched /\ \A i \in RowIds : tx'[r][i] = Same
                 /\ \/ req'[r] = req[r] /\ ~Running(r)
                    \/ req'[r].pc = "done" /\ Carries(Idle, req'[r], {"pc", "ok"})
<1> DEFINE s == [Idle EXCEPT !.pc = "done", !.ok = FALSE]
<1>1. /\ req' = [r \in Requests |-> IF Running(r) THEN s ELSE req[r]]
      /\ tx' = [r \in Requests |-> Untouched] /\ lane' = [r \in Requests |-> "none"]
      /\ UNCHANGED <<load, file, rows>>
  BY DEF Crash
<1>2. s \in Frames /\ FrameShape(s)
  BY IdleFrame
<1>3. Carries(Idle, s, {"pc", "ok"}) /\ s.pc = "done"
  BY DEF Idle, Carries
<1> HIDE DEF s
<1>4. Untouched \in [RowIds -> Rows \cup {NoRow, Same}] /\ \A i \in RowIds : Untouched[i] = Same
  BY DEF Untouched
<1>5. StoreTypeOK' /\ \A r \in Requests : tx'[r] = Untouched
  BY <1>1, <1>4 DEF StoreTypeOK, FramesInv, TypeOK
<1>6. Lane!TypeOK' /\ LaneExclusive'
  BY <1>1 DEF Lane!TypeOK, Lane!Modes, LaneExclusive
<1>7. /\ req' \in [Requests -> Frames] /\ \A r \in Requests : FrameShape(req'[r])
      /\ \A r \in Requests : (req'[r] = req[r] /\ ~Running(r)) \/ req'[r] = s
  BY <1>1, <1>2 DEF FramesInv, TypeOK
<1>8. TypeOK'
  BY <1>1, <1>5, <1>6, <1>7 DEF FramesInv, TypeOK
<1> QED
  BY <1>1, <1>3, <1>4, <1>5, <1>6, <1>7, <1>8 DEF FramesInv

LEMMA RemoveMoves ==
    ASSUME FramesInv, NEW p \in load.removable, Remove(p)
    PROVE  /\ FramesInv' /\ UNCHANGED <<load, rows, tx, lane, req>> /\ MayHappen
           /\ p \in Paths /\ file' = [file EXCEPT ![p] = NoDoc]
<1>1. p \in Paths
  BY WorkloadsAssumption DEF FramesInv, TypeOK
<1>2. UNCHANGED <<load, rows, tx, lane, req>> /\ MayHappen /\ file' = [file EXCEPT ![p] = NoDoc]
  BY DEF Remove
<1>3. TypeOK'
  BY <1>1, <1>2 DEF FramesInv, TypeOK, StoreTypeOK, Lane!TypeOK
<1>4. LaneExclusive' /\ \A r \in Requests : FrameShape(req'[r])
  BY <1>2 DEF FramesInv, LaneExclusive
<1> QED
  BY <1>1, <1>2, <1>3, <1>4 DEF FramesInv


LEMMA StutterMoves ==
    ASSUME FramesInv, UNCHANGED vars
    PROVE  FramesInv'
<1>1. TypeOK'
  BY DEF vars, FramesInv, TypeOK, StoreTypeOK, Lane!TypeOK
<1>2. LaneExclusive' /\ \A r \in Requests : FrameShape(req'[r])
  BY DEF vars, FramesInv, LaneExclusive
<1> QED
  BY <1>1, <1>2 DEF FramesInv

LEMMA FirstNoteType ==
    ASSUME NEW p \in Paths, p \in Bodies
    PROVE  FirstNote(p) \in Documents
BY Ids DEF FirstNote, Documents

LEMMA InitFacts ==
    ASSUME Init
    PROVE  /\ load \in Workloads /\ load.initial \subseteq Paths \cap Bodies
           /\ \A p \in Paths : file[p] = IF p \in load.initial THEN FirstNote(p) ELSE NoDoc
           /\ \A i \in RowIds : rows[i] = IF i \in load.initial THEN NoteRow(i, FirstNote(i)) ELSE NoRow
           /\ \A r \in Requests : /\ req[r] = Idle /\ tx[r] = Untouched
                                  /\ \A i \in RowIds : tx[r][i] = Same
BY WorkloadsAssumption DEF Init, Untouched

LEMMA InitFrames == Init => FramesInv
<1> SUFFICES ASSUME Init PROVE FramesInv
  OBVIOUS
<1>1. /\ load \in Workloads /\ load.initial \subseteq Paths \cap Bodies
      /\ \A r \in Requests : req[r] = Idle
  BY InitFacts
<1>2. \A p \in load.initial : FirstNote(p) \in Documents /\ NoteRow(p, FirstNote(p)) \in Rows
  BY <1>1, FirstNoteType, RowTypes
<1>3. file \in [Paths -> Documents \cup {NoDoc}]
  BY <1>1, <1>2 DEF Init
<1>4. rows \in [RowIds -> Rows \cup {NoRow}]
  BY <1>1, <1>2 DEF Init
<1>5. tx \in [Requests -> [RowIds -> Rows \cup {NoRow, Same}]]
  BY DEF Init, Untouched
<1>6. Lane!TypeOK /\ LaneExclusive
  BY DEF Init, Lane!TypeOK, Lane!Modes, LaneExclusive
<1>7. req \in [Requests -> Frames] /\ \A r \in Requests : FrameShape(req[r])
  BY IdleFrame DEF Init
<1> QED
  BY <1>1, <1>3, <1>4, <1>5, <1>6, <1>7 DEF FramesInv, TypeOK, StoreTypeOK

LEMMA StepFrames ==
    ASSUME FramesInv, NEW r \in Requests, Step(r)
    PROVE  FramesInv'
<1>1. CASE Enter(r) \/ Lookup(r) \/ Fence(r) \/ Check(r)
  BY <1>1, EnterMoves, LookupMoves, FenceMoves, CheckMoves
<1>2. CASE Persist(r) \/ Parse(r) \/ Load(r) \/ Flush(r) \/ FlushFails(r)
  BY <1>2, PersistMoves, ParseMoves, LoadMoves, FlushMoves, FlushFailsMoves
<1>3. CASE RecordIndexError(r) \/ RecordFails(r) \/ PickUpsert(r) \/ MarkSuperseded(r)
  BY <1>3, RecordIndexErrorMoves, RecordFailsMoves, PickUpsertMoves, MarkSupersededMoves
<1>4. CASE UpdateScalars(r) \/ MarkStale(r) \/ Abort(r)
  BY <1>4, UpdateScalarsMoves, MarkStaleMoves, RecordFailsMoves
<1>5. CASE ArchiveContext(r) \/ SupersedeContext(r) \/ RepairNoteRaw(r)
  BY <1>5, ArchiveContextMoves, SupersedeContextMoves, RepairNoteRawMoves
<1>6. CASE EnterReindex(r) \/ Scan(r) \/ Compile(r)
  BY <1>6, EnterReindexMoves, ScanMoves, CompileMoves
<1>7. CASE LeaveLane(r) \/ Respond(r)
  BY <1>7, LeaveLaneMoves, RespondMoves
<1> QED
  BY <1>1, <1>2, <1>3, <1>4, <1>5, <1>6, <1>7 DEF Step

LEMMA NextFrames == FramesInv /\ [Next \/ Served]_vars => FramesInv'
<1> SUFFICES ASSUME FramesInv, [Next \/ Served]_vars PROVE FramesInv'
  OBVIOUS
<1>1. ASSUME NEW r \in Requests, Start(r) PROVE FramesInv'
  BY <1>1, StartMoves
<1>2. ASSUME NEW r \in Requests, Step(r) PROVE FramesInv'
  BY <1>2, StepFrames
<1>3. ASSUME Crash PROVE FramesInv'
  BY <1>3, CrashMoves
<1>4. ASSUME NEW p \in load.removable, Remove(p) PROVE FramesInv'
  BY <1>4, RemoveMoves
<1>5. CASE UNCHANGED vars
  BY <1>5, StutterMoves
<1> QED
  BY <1>1, <1>2, <1>3, <1>4, <1>5 DEF Next, Served

LEMMA FramesAlways == Spec => []FramesInv
BY InitFrames, NextFrames, PTL DEF Spec

\* Whatever requests, archives, repairs, deletions and crashes there are, files,
\* rows, sessions, the lane and the local state of the requests keep their types:
\* no step reads a note, a row or a relation that is not there.
THEOREM NoteTypeOK == Spec => []TypeOK
<1>1. FramesInv => TypeOK
  BY DEF FramesInv
<1> QED
  BY <1>1, FramesAlways, PTL


-----------------------------------------------------------------------------
(* Requests that serialize in the lane: rows and views                     *)

LEMMA NoteAt ==
    ASSUME NEW p \in Paths, NEW x, GoodRow(p, x), x # NoRow
    PROVE  /\ GoodDoc(p, x.doc) /\ x.doc \in Documents /\ x.doc # NoDoc
           /\ x = NoteRow(p, x.doc) /\ x.path = p /\ x.source = x.doc
           /\ x # Same
<1>1. GoodDoc(p, x.doc) /\ x = NoteRow(p, x.doc)
  BY Ids DEF GoodRow
<1>2. x.doc \in Documents
  BY <1>1 DEF GoodDoc
<1>3. NoteRow(p, x.doc).path = p /\ NoteRow(p, x.doc).source = x.doc
  BY <1>2, RowTypes
<1>4. NoteRow(p, x.doc) \in Rows
  BY <1>2, RowTypes
<1> QED
  BY <1>1, <1>2, <1>3, <1>4, Sentinels

LEMMA ErrorAt ==
    ASSUME NEW p \in Paths, NEW x, GoodRow(ErrorId(p), x), x # NoRow
    PROVE  x = ErrorRow(p)
BY Ids DEF GoodRow

LEMMA RowAt ==
    ASSUME NEW i \in RowIds, NEW x, GoodRow(i, x), x # NoRow, NEW p \in Paths, x.path = p
    PROVE  i \in {p, ErrorId(p)} /\ (x.doc # NoDoc => i = p)
<1>1. CASE i \in Paths
  BY <1>1, NoteAt
<1>2. CASE i \notin Paths
  <2>1. PICK q \in Paths : i = ErrorId(q) /\ x = ErrorRow(q)
    BY <1>2 DEF GoodRow
  <2> QED
    BY <2>1, RowTypes
<1> QED
  BY <1>1, <1>2

LEMMA GoodNote ==
    ASSUME NEW p \in Paths, NEW d, GoodDoc(p, d)
    PROVE  GoodRow(p, NoteRow(p, d)) /\ NoteRow(p, d) # NoRow
<1>1. d \in Documents /\ NoteRow(p, d) \in Rows /\ NoteRow(p, d).doc = d
  BY RowTypes DEF GoodDoc
<1> QED
  BY <1>1, Sentinels DEF GoodRow

LEMMA GoodViews ==
    ASSUME FramesInv, Stored
    PROVE  \A r \in Requests : \A i \in RowIds : GoodRow(i, View(r)[i])
<1>1. StoreTypeOK
  BY DEF FramesInv, TypeOK
<1> QED
  BY <1>1, ViewType DEF Stored

\* The row of a file in a view.
LEMMA PairedView ==
    ASSUME FramesInv, Stored, Paired, NEW r \in Requests, NEW p \in Paths, file[p] # NoDoc
    PROVE  /\ View(r)[p] # NoRow => IdAt(View(r), p) = p
           /\ View(r)[p] = NoRow => IdAt(View(r), p) = ErrorId(p)
<1>1. View(r) \in [RowIds -> Rows \cup {NoRow}]
  BY ViewType DEF FramesInv, TypeOK
<1>2. \A i \in RowIds : View(r)[i].path = p => i \in {p, ErrorId(p)} /\ View(r)[i] # NoRow
  BY GoodViews, RowAt, Sentinels, Ids
<1>3. View(r)[p] = NoRow <=> View(r)[ErrorId(p)] # NoRow
  BY DEF Paired, OneRow
<1>4. View(r)[p] # NoRow => View(r)[p].path = p
  BY GoodViews, NoteAt, Ids
<1>5. View(r)[ErrorId(p)] # NoRow => View(r)[ErrorId(p)].path = p
  BY GoodViews, ErrorAt, RowTypes, Ids
<1>6. IdAt(View(r), p) # NoId
  BY <1>1, <1>3, <1>4, <1>5, Ids, IdAtType
<1>7. IdAt(View(r), p) \in RowIds /\ View(r)[IdAt(View(r), p)].path = p
  BY <1>1, <1>6, IdAtType
<1> QED
  BY <1>2, <1>3, <1>7

LEMMA BodyAlone ==
    ASSUME FramesInv, SerialFacts, NEW r \in Requests, req[r].pc \in Body
    PROVE  /\ lane[r] = "exclusive"
           /\ \A q \in Requests \ {r} : req[q].pc \notin Body /\ \A p \in Paths : ~OnTheWay(q, p)
<1>1. \A q \in Requests : req[q].pc \in Body => lane[q] = "exclusive"
  BY DEF SerialFacts, SerialRequest, Serial
<1>2. \A q \in Requests \ {r} : req[q].pc \notin Body
  BY <1>1 DEF FramesInv, LaneExclusive
<1> QED
  BY <1>1, <1>2 DEF OnTheWay, Body

\* A step of request r that changes neither files nor rows, and adds nothing to what
\* the others rely on.
LEMMA OthersKept ==
    ASSUME SerialFacts, NEW r \in Requests, NEW q \in Requests \ {r},
           \A x \in Requests \ {r} : req'[x] = req[x] /\ lane'[x] = lane[x],
           req'[r].ok => req[r].ok, UNCHANGED <<file, rows, tx>>,
           req[q].pc \in {"idle", "enter"} \cup Body =>
               \A p \in DOMAIN req'[r].seen : req'[r].seen[p] # NoDoc => req'[r].seen[p].by # q
    PROVE  SerialRequest(q)'
<1>1. /\ Serial(q) /\ Unwritten(q) /\ Swapping(q) /\ Writing(q)
      /\ Indexing(q) /\ Seen(q) /\ Dealt(q) /\ Pending(q)
  BY DEF SerialFacts, SerialRequest
<1>2. \A x \in Requests : View(x)' = View(x)
  BY DEF View
<1>3. \A p \in Paths : OnTheWay(q, p)' <=> OnTheWay(q, p)
  BY DEF OnTheWay
<1>4. Serial(q)'
  BY <1>1 DEF Serial
<1>5. Unwritten(q)'
  BY <1>1 DEF Unwritten
<1>6. Swapping(q)'
  BY <1>1 DEF Swapping, Held
<1>7. Writing(q)'
  BY <1>1 DEF Writing, Held
<1>8. Indexing(q)'
  BY <1>1, <1>2 DEF Indexing
<1>9. Seen(q)'
  BY <1>1 DEF Seen
<1>10. Dealt(q)'
  BY <1>1, <1>2, <1>3 DEF Dealt
<1>11. Pending(q)'
  BY <1>1, <1>3 DEF Pending
<1> QED
  BY <1>4, <1>5, <1>6, <1>7, <1>8, <1>9, <1>10, <1>11 DEF SerialRequest

LEMMA StoredKept ==
    ASSUME Stored, Paired, UNCHANGED <<file, rows, tx>>
    PROVE  Stored' /\ Paired'
<1>1. Stored'
  BY DEF Stored
<1>2. \A q \in Requests : View(q)' = View(q)
  BY DEF View
<1>3. Paired'
  BY <1>2 DEF Paired, OneRow, Held
<1> QED
  BY <1>1, <1>3

LEMMA PrivateStep ==
    ASSUME SerialFacts, NEW r \in Requests, SerialRequest(r)',
           \A q \in Requests \ {r} : req'[q] = req[q] /\ lane'[q] = lane[q],
           req'[r].ok => req[r].ok, UNCHANGED <<file, rows, tx>>,
           \A q \in Requests \ {r} : req[q].pc \in {"idle", "enter"} \cup Body =>
               \A p \in DOMAIN req'[r].seen : req'[r].seen[p] # NoDoc => req'[r].seen[p].by # q
    PROVE  SerialFacts'
<1>1. Stored' /\ Paired'
  BY StoredKept DEF SerialFacts
<1>2. \A q \in Requests \ {r} : SerialRequest(q)'
  BY OthersKept
<1> QED
  BY <1>1, <1>2 DEF SerialFacts

\* ... and has seen nothing new.
LEMMA QuietStep ==
    ASSUME SerialFacts, NEW r \in Requests, SerialRequest(r)',
           \A q \in Requests \ {r} : req'[q] = req[q] /\ lane'[q] = lane[q],
           req'[r].ok => req[r].ok, UNCHANGED <<file, rows, tx>>,
           req'[r].seen = req[r].seen
    PROVE  SerialFacts'
<1>1. \A q \in Requests \ {r} : req[q].pc \in {"idle", "enter"} \cup Body =>
         \A p \in DOMAIN req[r].seen : req[r].seen[p] # NoDoc => req[r].seen[p].by # q
  BY DEF SerialFacts, SerialRequest, Unwritten
<1>2. \A q \in Requests \ {r} : req[q].pc \in {"idle", "enter"} \cup Body =>
         \A p \in DOMAIN req'[r].seen : req'[r].seen[p] # NoDoc => req'[r].seen[p].by # q
  BY <1>1
<1> QED
  BY <1>2, PrivateStep


-----------------------------------------------------------------------------
(* SerialFacts, step by step: what touches neither files nor rows          *)

LEMMA FailSerial ==
    ASSUME SerialFacts, NEW r \in Requests, Fails(r), UNCHANGED <<file, rows, tx>>,
           \A q \in Requests \ {r} : lane'[q] = lane[q]
    PROVE  SerialFacts'
<1>1. /\ req'[r].pc = "leave" /\ ~req'[r].ok /\ \A q \in Requests \ {r} : req'[q] = req[q]
      /\ req'[r].cmd = req[r].cmd /\ req'[r].gone = req[r].gone /\ req'[r].seen = req[r].seen
  BY DEF Fails, Moves, Carries
<1>2. Serial(r)'
  BY <1>1 DEF SerialFacts, SerialRequest, Serial, Body
<1>3. Unwritten(r)' /\ Swapping(r)' /\ Writing(r)' /\ Indexing(r)' /\ Seen(r)' /\ Dealt(r)'
      /\ Pending(r)'
  BY <1>1 DEF Unwritten, Swapping, Writing, Indexing, Seen, Dealt, Pending, Body
<1> QED
  BY <1>1, <1>2, <1>3, QuietStep DEF SerialRequest

LEMMA StartSerial ==
    ASSUME FramesInv, Serialized, SerialFacts, NEW r \in Requests, Start(r)
    PROVE  SerialFacts'
<1>1. /\ FramesInv' /\ UNCHANGED <<load, file, rows, tx, lane>>
      /\ req[r].pc = "idle" /\ req'[r].pc \in {"enter", "locate", "source"}
      /\ \A q \in Requests \ {r} : req'[q] = req[q]
  BY StartMoves
<1>2. PICK c \in load.commands : Carries([Idle EXCEPT !.cmd = c], req'[r], {"at", "token", "pc"})
  BY StartMoves
<1>3. req'[r].cmd = c /\ req'[r].gone = {} /\ req'[r].seen = <<>> /\ req'[r].ok
  BY <1>2 DEF Carries, Idle
<1>4. c.kind = "reindex" \/ (c.kind = "save" /\ c.token # NoToken)
  BY DEF Serialized
<1>5. req'[r].pc = "enter" /\ req[r].ok
  BY <1>1, <1>3, <1>4 DEF FramesInv, FrameShape
<1>6. Serial(r)'
  BY <1>1, <1>3, <1>4, <1>5 DEF Serial, Body
<1>7. Unwritten(r)'
  BY <1>1, <1>5 DEF SerialFacts, SerialRequest, Unwritten
<1>8. Swapping(r)' /\ Writing(r)' /\ Indexing(r)' /\ Seen(r)' /\ Dealt(r)'
  BY <1>5 DEF Swapping, Writing, Indexing, Seen, Dealt, Body, Past
<1>9. Pending(r)'
  BY <1>1, <1>5 DEF SerialFacts, SerialRequest, Pending, OnTheWay
<1>10. DOMAIN req'[r].seen = {}
  BY <1>3
<1> QED
  BY <1>1, <1>5, <1>6, <1>7, <1>8, <1>9, <1>10, PrivateStep DEF SerialRequest

LEMMA EnterSerial ==
    ASSUME FramesInv, SerialFacts, NEW r \in Requests, Enter(r)
    PROVE  SerialFacts'
<1>1. /\ UNCHANGED <<load, file, rows, tx>> /\ req[r].pc = "enter" /\ req'[r].pc = "lookup"
      /\ Moves(r, {"pc"})
  BY EnterMoves
<1>2. /\ \A q \in Requests \ {r} : req'[q] = req[q]
      /\ req'[r].cmd = req[r].cmd /\ req'[r].gone = req[r].gone /\ req'[r].seen = req[r].seen
      /\ req'[r].ok = req[r].ok
  BY <1>1 DEF Moves, Carries
<1>3. req[r].cmd.kind = "save" /\ req[r].cmd.token # NoToken
  BY DEF Enter, SerialFacts, SerialRequest, Serial
<1>4. lane'[r] = "exclusive" /\ \A q \in Requests \ {r} : lane'[q] = lane[q]
  BY <1>3 DEF Enter, Lane!GrantExclusive, FramesInv, TypeOK, Lane!TypeOK
<1>5. Serial(r)'
  BY <1>1, <1>2, <1>4 DEF SerialFacts, SerialRequest, Serial
<1>6. Unwritten(r)'
  BY <1>1, <1>2 DEF SerialFacts, SerialRequest, Unwritten
<1>7. Swapping(r)' /\ Writing(r)' /\ Indexing(r)' /\ Seen(r)' /\ Dealt(r)'
  BY <1>1, <1>2, <1>3 DEF Swapping, Writing, Indexing, Seen, Dealt
<1>8. Pending(r)'
  BY <1>1, <1>2 DEF SerialFacts, SerialRequest, Pending, OnTheWay
<1> QED
  BY <1>1, <1>2, <1>4, <1>5, <1>6, <1>7, <1>8, QuietStep DEF SerialRequest

LEMMA LookupSerial ==
    ASSUME FramesInv, SerialFacts, NEW r \in Requests, Lookup(r)
    PROVE  SerialFacts'
<1> DEFINE p == req[r].at
           i == IdAt(View(r), p)
<1>1. UNCHANGED <<load, file, rows, tx, lane>> /\ req[r].pc = "lookup"
  BY LookupMoves
<1>2. CASE Fails(r)
  BY <1>1, <1>2, FailSerial
<1>3. CASE /\ Moves(r, {"pc", "id", "row"}) /\ req'[r].pc = "fence"
           /\ TokenFits(req[r].cmd, req'[r].row)
           /\ req'[r].id = i /\ req'[r].row = RowOf(View(r), i)
  <2>1. /\ \A q \in Requests \ {r} : req'[q] = req[q]
        /\ req'[r].cmd = req[r].cmd /\ req'[r].gone = req[r].gone /\ req'[r].seen = req[r].seen
        /\ req'[r].ok = req[r].ok /\ req'[r].at = p
    BY <1>3 DEF Moves, Carries
  <2>2. req[r].cmd.kind = "save" /\ req[r].cmd.token # NoToken /\ p \in Paths
    BY <1>1, FrameOf, CommandFields DEF SerialFacts, SerialRequest, Serial, FrameShape
  <2>3. /\ req'[r].row # NoRow /\ req'[r].row.doc # NoDoc
        /\ req'[r].row.doc.body = req[r].cmd.token
    BY <1>3, <2>2 DEF TokenFits
  <2>4. View(r) \in [RowIds -> Rows \cup {NoRow}] /\ Stored /\ Paired
    BY ViewType DEF FramesInv, TypeOK, SerialFacts
  <2>5. i \in RowIds /\ req'[r].row = View(r)[i] /\ View(r)[i].path = p
    BY <1>3, <2>2, <2>3, <2>4, IdAtType DEF RowOf
  <2>6. i = p /\ GoodRow(p, req'[r].row)
    BY <2>2, <2>3, <2>4, <2>5, GoodViews, RowAt
  <2>7. View(r)[p] = IF tx[r][p] = Same THEN rows[p] ELSE tx[r][p]
    BY <2>2, Ids, ViewType DEF FramesInv, TypeOK
  <2>8. file[p] # NoDoc
    BY <2>2, <2>3, <2>4, <2>5, <2>6, <2>7 DEF Paired, Note
  <2>9. \A q \in Requests \ {r} : Held(q, p) => rows[p] = req'[r].row
    BY <2>2, <2>4, <2>5, <2>6, <2>7 DEF Paired, Held
  <2>10. Swapping(r)'
    BY <1>1, <1>3, <2>1, <2>2, <2>3, <2>6, <2>8, <2>9 DEF Swapping, Held
  <2>11. Serial(r)'
    BY <1>1, <1>3, <2>1 DEF SerialFacts, SerialRequest, Serial, Body
  <2>12. Unwritten(r)'
    BY <1>1, <1>3, <2>1 DEF SerialFacts, SerialRequest, Unwritten, Body
  <2>13. Writing(r)' /\ Indexing(r)' /\ Seen(r)' /\ Dealt(r)'
    BY <1>3, <2>1, <2>2 DEF Writing, Indexing, Seen, Dealt
  <2>14. Pending(r)'
    BY <1>1, <1>3, <2>1 DEF SerialFacts, SerialRequest, Pending, OnTheWay
  <2> QED
    BY <1>1, <2>1, <2>10, <2>11, <2>12, <2>13, <2>14, QuietStep DEF SerialRequest
<1> QED
  BY <1>2, <1>3, LookupMoves

LEMMA FenceSerial ==
    ASSUME FramesInv, SerialFacts, NEW r \in Requests, Fence(r)
    PROVE  SerialFacts'
<1> DEFINE p == req[r].at
<1>1. UNCHANGED <<load, file, rows, tx, lane>> /\ req[r].pc = "fence"
  BY FenceMoves
<1>2. CASE Fails(r)
  BY <1>1, <1>2, FailSerial
<1>3. CASE /\ Moves(r, {"pc", "id", "token"}) /\ req'[r].pc = "check" /\ SourceFits(r)
           /\ req[r].cmd.id = NoId \/ req[r].id \in {NoId, req[r].cmd.id}
           /\ req'[r].id = NoteId(r) /\ req'[r].token = file[p]
  <2>1. /\ \A q \in Requests \ {r} : req'[q] = req[q]
        /\ req'[r].cmd = req[r].cmd /\ req'[r].gone = req[r].gone /\ req'[r].seen = req[r].seen
        /\ req'[r].ok = req[r].ok /\ req'[r].at = p /\ req'[r].row = req[r].row
    BY <1>3 DEF Moves, Carries
  <2>2. req[r].cmd.kind = "save" /\ req[r].cmd.token # NoToken
    BY <1>1, FrameOf DEF SerialFacts, SerialRequest, Serial, FrameShape
  <2>3. /\ p \in Paths /\ req[r].id = p /\ req[r].row # NoRow /\ GoodRow(p, req[r].row)
        /\ req[r].row.doc.body = req[r].cmd.token /\ file[p] # NoDoc
        /\ \A q \in Requests \ {r} : Held(q, p) => rows[p] = req[r].row
    BY <1>1 DEF SerialFacts, SerialRequest, Swapping
  <2>4. file[p] = req[r].row.doc
    BY <1>3, <2>2, <2>3, NoteAt DEF SourceFits
  <2>5. req'[r].id = p
    BY <1>3, <2>3, Ids DEF NoteId, NoId
  <2>6. Swapping(r)'
    BY <1>1, <1>3, <2>1, <2>3, <2>4, <2>5 DEF Swapping, Held
  <2>7. Serial(r)'
    BY <1>1, <1>3, <2>1 DEF SerialFacts, SerialRequest, Serial, Body
  <2>8. Unwritten(r)'
    BY <1>1, <1>3, <2>1 DEF SerialFacts, SerialRequest, Unwritten, Body
  <2>9. Writing(r)' /\ Indexing(r)' /\ Seen(r)' /\ Dealt(r)'
    BY <1>3, <2>1, <2>2 DEF Writing, Indexing, Seen, Dealt
  <2>10. Pending(r)'
    BY <1>1, <1>3, <2>1 DEF SerialFacts, SerialRequest, Pending, OnTheWay
  <2> QED
    BY <1>1, <2>1, <2>6, <2>7, <2>8, <2>9, <2>10, QuietStep DEF SerialRequest
<1> QED
  BY <1>2, <1>3, FenceMoves

LEMMA CheckSerial ==
    ASSUME FramesInv, SerialFacts, NEW r \in Requests, Check(r)
    PROVE  SerialFacts'
<1> DEFINE p == req[r].at
<1>1. UNCHANGED <<load, file, rows, tx, lane>> /\ req[r].pc = "check" /\ FramesInv'
  BY CheckMoves
<1>2. CASE Fails(r)
  BY <1>1, <1>2, FailSerial
<1>3. req[r].cmd.kind = "save" /\ req[r].cmd.token # NoToken /\ req[r].claim = NoMark
  BY <1>1, FrameOf DEF SerialFacts, SerialRequest, Serial, FrameShape
<1>4. CASE Moves(r, {"pc"}) /\ req'[r].pc = "leave"
  <2>1. /\ \A q \in Requests \ {r} : req'[q] = req[q]
        /\ req'[r].cmd = req[r].cmd /\ req'[r].gone = req[r].gone /\ req'[r].seen = req[r].seen
        /\ req'[r].ok = req[r].ok
    BY <1>4 DEF Moves, Carries
  <2>2. Serial(r)'
    BY <1>1, <1>4, <2>1 DEF SerialFacts, SerialRequest, Serial, Body
  <2>3. Unwritten(r)' /\ Swapping(r)' /\ Writing(r)' /\ Indexing(r)' /\ Seen(r)' /\ Dealt(r)'
    BY <1>3, <1>4, <2>1 DEF Unwritten, Swapping, Writing, Indexing, Seen, Dealt, Body
  <2>4. Pending(r)'
    BY <1>1, <1>4, <2>1 DEF SerialFacts, SerialRequest, Pending, OnTheWay
  <2> QED
    BY <1>1, <2>1, <2>2, <2>3, <2>4, QuietStep DEF SerialRequest
<1>5. CASE /\ Moves(r, {"pc", "doc", "marks"}) /\ req'[r].pc = "persist"
           /\ req'[r].doc.id = req[r].id /\ req'[r].doc.status = "current"
           /\ req'[r].doc.by = r
  <2>1. /\ \A q \in Requests \ {r} : req'[q] = req[q]
        /\ req'[r].cmd = req[r].cmd /\ req'[r].gone = req[r].gone /\ req'[r].seen = req[r].seen
        /\ req'[r].ok = req[r].ok /\ req'[r].at = p /\ req'[r].row = req[r].row
        /\ req'[r].id = req[r].id /\ req'[r].token = req[r].token /\ req'[r].claim = req[r].claim
    BY <1>5 DEF Moves, Carries
  <2>2. req[r].id = p /\ file[p] # NoDoc
    BY <1>1 DEF SerialFacts, SerialRequest, Swapping
  <2>3. req'[r].doc \in Documents
    BY <1>1, <1>5 DEF FramesInv, FrameShape
  <2>4. GoodDoc(p, req'[r].doc)
    BY <1>5, <2>2, <2>3 DEF GoodDoc
  <2>5. Writing(r)'
    BY <1>1, <1>3, <1>5, <2>1, <2>2, <2>4 DEF Writing, GoodDoc
  <2>6. Swapping(r)'
    BY <1>1, <1>3, <1>5, <2>1 DEF SerialFacts, SerialRequest, Swapping, Held
  <2>7. Serial(r)'
    BY <1>1, <1>5, <2>1 DEF SerialFacts, SerialRequest, Serial, Body
  <2>8. Unwritten(r)'
    BY <1>1, <1>5, <2>1 DEF SerialFacts, SerialRequest, Unwritten, Body
  <2>9. Indexing(r)' /\ Seen(r)' /\ Dealt(r)'
    BY <1>3, <1>5, <2>1 DEF Indexing, Seen, Dealt
  <2>10. Pending(r)'
    BY <1>1, <1>5, <2>1 DEF SerialFacts, SerialRequest, Pending, OnTheWay
  <2> QED
    BY <1>1, <2>1, <2>5, <2>6, <2>7, <2>8, <2>9, <2>10, QuietStep DEF SerialRequest
<1> QED
  BY <1>2, <1>4, <1>5, CheckMoves

\* What request r keeps when it moves on.
LEMMA OnwardSerial ==
    ASSUME SerialFacts, NEW r \in Requests, NEW F, F \cap {"cmd", "gone", "seen"} = {},
           Moves(r, F), UNCHANGED <<file, rows, tx, lane>>,
           req[r].pc \in Body, req'[r].pc \in Body \cup {"leave"}
    PROVE  /\ Serial(r)' /\ Unwritten(r)'
           /\ \A q \in Requests \ {r} : req'[q] = req[q]
           /\ req'[r].cmd = req[r].cmd /\ req'[r].seen = req[r].seen
<1>1. /\ \A q \in Requests \ {r} : req'[q] = req[q]
      /\ req'[r].cmd = req[r].cmd /\ req'[r].gone = req[r].gone /\ req'[r].seen = req[r].seen
  BY DEF Moves, Carries
<1>2. Serial(r)'
  BY <1>1 DEF SerialFacts, SerialRequest, Serial, Body
<1>3. Unwritten(r)'
  BY <1>1 DEF SerialFacts, SerialRequest, Unwritten, Body
<1> QED
  BY <1>1, <1>2, <1>3

LEMMA ParseSerial ==
    ASSUME FramesInv, SerialFacts, NEW r \in Requests, Parse(r)
    PROVE  SerialFacts'
<1> DEFINE p == req[r].at
<1>1. UNCHANGED <<load, file, rows, tx, lane>> /\ req[r].pc = "parse"
  BY ParseMoves
<1>2. CASE Fails(r)
  BY <1>1, <1>2, FailSerial
<1>3. CASE Moves(r, {"pc", "doc"}) /\ req'[r].pc = "load" /\ req'[r].doc = file[p]
  <2>1. req'[r].ok = req[r].ok /\ req'[r].at = p /\ req'[r].todo = req[r].todo
    BY <1>3 DEF Moves, Carries
  <2>2. /\ Serial(r)' /\ Unwritten(r)' /\ \A q \in Requests \ {r} : req'[q] = req[q]
        /\ req'[r].cmd = req[r].cmd /\ req'[r].seen = req[r].seen
    BY <1>1, <1>3, OnwardSerial DEF Body
  <2>3. req[r].todo = {}
    BY <1>1, FrameOf DEF FrameShape
  <2>4. Swapping(r)' /\ Writing(r)' /\ Indexing(r)' /\ Seen(r)'
    BY <1>1, <1>3, <2>1, <2>3 DEF Swapping, Writing, Indexing, Seen
  <2>5. \A x \in Paths : OnTheWay(r, x)' <=> OnTheWay(r, x)
    BY <1>1, <1>3, <2>1 DEF OnTheWay
  <2>6. View(r)' = View(r)
    BY <1>1 DEF View
  <2>7. Dealt(r)'
    BY <1>1, <1>3, <2>1, <2>2, <2>5, <2>6, ZenonT(60) DEF SerialFacts, SerialRequest, Dealt, Past
  <2>8. Pending(r)'
    BY <1>1, <2>1, <2>2, <2>5 DEF SerialFacts, SerialRequest, Pending
  <2> QED
    BY <1>1, <2>1, <2>2, <2>4, <2>7, <2>8, QuietStep DEF SerialRequest
<1> QED
  BY <1>2, <1>3, ParseMoves

LEMMA LoadSerial ==
    ASSUME FramesInv, SerialFacts, NEW r \in Requests, Load(r)
    PROVE  SerialFacts'
<1> DEFINE p == req[r].at
<1>1. /\ UNCHANGED <<load, file, rows, tx, lane>> /\ req[r].pc = "load" /\ req'[r].pc = "flush"
      /\ Moves(r, {"pc", "row", "foundAt"})
      /\ req'[r].row = View(r)[req[r].doc.id] /\ req'[r].foundAt = IdAt(View(r), p)
  BY LoadMoves
<1>2. req'[r].ok = req[r].ok /\ req'[r].at = p /\ req'[r].todo = req[r].todo
      /\ req'[r].doc = req[r].doc
  BY <1>1 DEF Moves, Carries
<1>3. /\ Serial(r)' /\ Unwritten(r)' /\ \A q \in Requests \ {r} : req'[q] = req[q]
      /\ req'[r].cmd = req[r].cmd /\ req'[r].seen = req[r].seen
  BY <1>1, OnwardSerial DEF Body
<1>4. p \in Paths /\ req[r].doc = file[p] /\ file[p] \in Documents
  BY <1>1, FrameOf DEF FrameShape, SerialFacts, SerialRequest, Indexing
<1>5. file[p] # NoDoc /\ GoodDoc(p, file[p]) /\ req[r].doc.id = p
  BY <1>4, Sentinels DEF SerialFacts, Stored, GoodDoc
<1>6. req'[r].row = View(r)[p] /\ GoodRow(p, View(r)[p])
  BY <1>1, <1>4, <1>5, Ids, GoodViews DEF SerialFacts
<1>7. req'[r].foundAt = IF View(r)[p] = NoRow THEN ErrorId(p) ELSE p
  BY <1>1, <1>4, <1>5, PairedView DEF SerialFacts
<1>8. View(r)' = View(r)
  BY <1>1 DEF View
<1>9. ASSUME NEW q \in Requests \ {r}, req[q].ok, tx[r][p] = Same, Note(tx[q][p]), View(r)[p] # NoRow
      PROVE  MergeSafe(View(r)[p].doc, tx[q][p].doc, file[p])
  <2>1. View(r)[p] = rows[p]
    BY <1>4, <1>9, Ids, ViewType DEF FramesInv, TypeOK
  <2>2. ~OnTheWay(q, p)
    BY <1>1, <1>4, BodyAlone DEF Body
  <2> QED
    BY <1>4, <1>9, <2>1, <2>2 DEF SerialFacts, SerialRequest, Pending
<1>10. MergeSafe(View(r)[p].doc, View(r)[p].doc, file[p])
  BY DEF MergeSafe
<1>11. Indexing(r)'
  BY <1>1, <1>2, <1>3, <1>4, <1>6, <1>7, <1>8, <1>9, <1>10 DEF Indexing
<1>12. Swapping(r)' /\ Writing(r)'
  BY <1>1 DEF Swapping, Writing
<1>13. Seen(r)'
  BY <1>1, <1>2, <1>3 DEF SerialFacts, SerialRequest, Seen, Body
<1>14. \A x \in Paths : OnTheWay(r, x)' <=> OnTheWay(r, x)
  BY <1>1, <1>2 DEF OnTheWay
<1>15. Dealt(r)'
  BY <1>1, <1>2, <1>3, <1>8, <1>14, ZenonT(60) DEF SerialFacts, SerialRequest, Dealt, Past
<1>16. Pending(r)'
  BY <1>1, <1>2, <1>14 DEF SerialFacts, SerialRequest, Pending
<1> QED
  BY <1>1, <1>2, <1>3, <1>11, <1>12, <1>13, <1>15, <1>16, QuietStep DEF SerialRequest

LEMMA FlushFailsSerial ==
    ASSUME FramesInv, SerialFacts, NEW r \in Requests, FlushFails(r)
    PROVE  SerialFacts'
<1> DEFINE p == req[r].at
<1>1. /\ UNCHANGED <<load, file, rows, tx, lane>> /\ req[r].pc = "flush"
      /\ Moves(r, {"pc", "claim", "errs", "ok"}) /\ req'[r].pc = "plan"
      /\ p \in req'[r].errs
  BY FlushFailsMoves
<1>2. req'[r].at = p /\ req'[r].todo = req[r].todo /\ req[r].ok
  BY <1>1, FrameOf DEF Moves, Carries, FrameShape
<1>3. /\ Serial(r)' /\ Unwritten(r)' /\ \A q \in Requests \ {r} : req'[q] = req[q]
      /\ req'[r].cmd = req[r].cmd /\ req'[r].seen = req[r].seen
  BY <1>1, OnwardSerial DEF Body
<1>4. View(r)' = View(r)
  BY <1>1 DEF View
<1>5. Swapping(r)' /\ Writing(r)' /\ Indexing(r)'
  BY <1>1 DEF Swapping, Writing, Indexing
<1>6. Seen(r)'
  BY <1>1, <1>2, <1>3 DEF SerialFacts, SerialRequest, Seen, Body
<1>7. \A x \in Paths : OnTheWay(r, x) => OnTheWay(r, x)'
  BY <1>1, <1>2 DEF OnTheWay
<1>8. Dealt(r)'
  BY <1>1, <1>2, <1>3, <1>4, <1>7 DEF SerialFacts, SerialRequest, Dealt, Past
<1>9. Pending(r)'
  BY <1>1, <1>2, <1>7 DEF SerialFacts, SerialRequest, Pending
<1> QED
  BY <1>1, <1>2, <1>3, <1>5, <1>6, <1>8, <1>9, QuietStep DEF SerialRequest

LEMMA PickUpsertSerial ==
    ASSUME FramesInv, SerialFacts, NEW r \in Requests, PickUpsert(r)
    PROVE  SerialFacts'
<1> DEFINE p == req'[r].at
<1>1. /\ UNCHANGED <<load, file, rows, tx, lane>> /\ req[r].pc = "plan" /\ req[r].ok
      /\ req[r].errs = {} /\ Moves(r, {"pc", "at", "doc", "todo"}) /\ req'[r].pc = "load"
      /\ p \in req[r].todo /\ req'[r].doc = req[r].seen[p] /\ req'[r].todo = req[r].todo \ {p}
  BY PickUpsertMoves
<1>2. req'[r].ok = req[r].ok /\ req'[r].errs = req[r].errs
  BY <1>1 DEF Moves, Carries
<1>3. /\ Serial(r)' /\ Unwritten(r)' /\ \A q \in Requests \ {r} : req'[q] = req[q]
      /\ req'[r].cmd = req[r].cmd /\ req'[r].seen = req[r].seen
  BY <1>1, OnwardSerial DEF Body
<1>4. View(r)' = View(r)
  BY <1>1 DEF View
<1>5. req[r].cmd.kind = "reindex" /\ p \in Paths /\ Len(req[r].seen) = NPaths
  BY <1>1, FrameOf DEF FrameShape, Frames
<1>6. p \in DOMAIN req[r].seen
  BY <1>5, FrameOf DEF Frames, Paths
<1>7. \A x \in DOMAIN req[r].seen : req[r].seen[x] = file[x]
  BY <1>1, <1>5 DEF SerialFacts, SerialRequest, Seen, Body
<1>8. Swapping(r)' /\ Writing(r)'
  BY <1>1 DEF Swapping, Writing
<1>9. Indexing(r)'
  BY <1>1, <1>6, <1>7 DEF Indexing
<1>10. Seen(r)'
  BY <1>1, <1>3, <1>7 DEF Seen
<1>11. \A x \in Paths : ~OnTheWay(r, x) /\ (OnTheWay(r, x)' <=> x = p)
  BY <1>1, <1>2 DEF OnTheWay
<1>12. Dealt(r)'
  BY <1>1, <1>2, <1>3, <1>4, <1>11 DEF SerialFacts, SerialRequest, Dealt, Past
<1>13. Pending(r)'
  BY <1>1, <1>2, <1>11 DEF SerialFacts, SerialRequest, Pending
<1> QED
  BY <1>1, <1>2, <1>3, <1>8, <1>9, <1>10, <1>12, <1>13, QuietStep DEF SerialRequest

\* The row that a relation names shows whether its Context has been marked already.
LEMMA EditSafe ==
    ASSUME FramesInv, SerialFacts, NEW r \in Requests, NEW i \in RowIds, NEW n \in RowIds,
           View(r)[i] # NoRow, View(r)[i].source.supersededBy \in {NoId, n},
           ~(View(r)[i].source.supersededBy = n /\ View(r)[i].doc.status = "superseded"),
           NEW q \in Requests \ {r}, Held(q, View(r)[i].path), rows[View(r)[i].path] # NoRow
    PROVE  rows[View(r)[i].path].doc.status # "superseded"
<1> DEFINE p == View(r)[i].path
<1>1. Stored /\ Paired /\ StoreTypeOK
  BY DEF SerialFacts, FramesInv, TypeOK
<1>2. p \in Paths
  BY <1>1, ViewType, Sentinels
<1>3. i \in {p, ErrorId(p)}
  BY <1>1, <1>2, GoodViews, RowAt
<1>4. ~Held(r, p) /\ file[p] # NoDoc
  BY <1>1, <1>2 DEF Paired
<1>5. View(r)[p] = rows[p] /\ View(r)[ErrorId(p)] = rows[ErrorId(p)]
  BY <1>1, <1>2, <1>4, Ids, ViewType DEF Held
<1>6. OneRow(rows, p)
  BY <1>1, <1>2, <1>4 DEF Paired
<1>7. i = p
  BY <1>3, <1>5, <1>6 DEF OneRow
<1>8. GoodDoc(p, rows[p].doc) /\ rows[p].source = rows[p].doc
  BY <1>1, <1>2, Ids, NoteAt DEF Stored
<1> QED
  BY <1>5, <1>7, <1>8, Ids DEF GoodDoc

LEMMA MarkSupersededSerial ==
    ASSUME FramesInv, SerialFacts, NEW r \in Requests, MarkSuperseded(r)
    PROVE  SerialFacts'
<1>1. /\ UNCHANGED <<load, file, rows, tx, lane>> /\ req[r].pc = "plan" /\ req[r].ok
      /\ req[r].errs = {} /\ req[r].todo = {}
  BY MarkSupersededMoves
<1>2. \A x \in Paths : ~OnTheWay(r, x)
  BY <1>1 DEF OnTheWay
<1>3. View(r)' = View(r)
  BY <1>1 DEF View
<1>4. ASSUME NEW F, Moves(r, F), F \cap {"cmd", "gone", "seen", "todo"} = {},
             req'[r].pc \in {"plan", "edit"}, Swapping(r)', Writing(r)', Indexing(r)'
      PROVE  SerialFacts'
  <2>1. req'[r].todo = req[r].todo
    BY <1>4 DEF Moves, Carries
  <2>2. /\ Serial(r)' /\ Unwritten(r)' /\ \A q \in Requests \ {r} : req'[q] = req[q]
        /\ req'[r].cmd = req[r].cmd /\ req'[r].seen = req[r].seen
    BY <1>1, <1>4, OnwardSerial DEF Body
  <2>3. Seen(r)'
    BY <1>1, <1>4, <2>1 DEF Seen
  <2>4. Dealt(r)'
    BY <1>1, <1>2, <1>3, <1>4, <2>1, <2>2 DEF SerialFacts, SerialRequest, Dealt, Past
  <2>5. Pending(r)'
    BY <1>1, <1>2 DEF SerialFacts, SerialRequest, Pending
  <2> QED
    BY <1>1, <1>4, <2>2, <2>3, <2>4, <2>5, QuietStep DEF SerialRequest
<1>5. CASE Moves(r, {"pc", "claim", "errs", "ok", "marks"}) /\ req'[r].pc = "plan"
  <2>1. Swapping(r)' /\ Writing(r)' /\ Indexing(r)'
    BY <1>5 DEF Swapping, Writing, Indexing
  <2> QED
    BY <1>4, <1>5, <2>1
<1>6. CASE Moves(r, {"marks"})
  <2>1. req'[r].pc = "plan"
    BY <1>1, <1>6 DEF Moves, Carries
  <2>2. Swapping(r)' /\ Writing(r)' /\ Indexing(r)'
    BY <2>1 DEF Swapping, Writing, Indexing
  <2> QED
    BY <1>4, <1>6, <2>1, <2>2
<1>7. ASSUME Moves(r, {"pc", "claim", "at", "edit", "marks"}), req'[r].pc = "edit",
             NEW m \in Marks, req'[r].claim = m, View(r)[m.old] # NoRow,
             req'[r].at = View(r)[m.old].path,
             View(r)[m.old].source.supersededBy \in {NoId, m.new},
             ~(/\ View(r)[m.old].source.supersededBy = m.new
               /\ View(r)[m.old].doc.status = "superseded"),
             req'[r].edit = [status |-> "superseded", supersedes |-> NoId,
                             supersededBy |-> m.new]
      PROVE  SerialFacts'
  <2>1. m.old \in RowIds /\ m.new \in RowIds /\ m # NoMark
    BY Ids DEF Marks, NoMark
  <2>2. /\ req'[r].edit.status = "superseded" /\ req'[r].edit.supersededBy # NoId
        /\ req'[r].claim # NoMark
    BY <1>7, <2>1, Ids
  <2>3. \A q \in Requests \ {r} : Held(q, req'[r].at) /\ rows[req'[r].at] # NoRow =>
                                      rows[req'[r].at].doc.status # "superseded"
    BY <1>7, <2>1, EditSafe
  <2>4. Writing(r)'
    BY <1>1, <1>7, <2>2, <2>3 DEF Writing, Held
  <2>5. Swapping(r)' /\ Indexing(r)'
    BY <1>7 DEF Swapping, Indexing
  <2> QED
    BY <1>4, <1>7, <2>4, <2>5
<1> QED
  BY <1>5, <1>6, <1>7, MarkSupersededMoves

LEMMA UpdateScalarsSerial ==
    ASSUME FramesInv, SerialFacts, NEW r \in Requests, UpdateScalars(r)
    PROVE  SerialFacts'
<1> DEFINE p == req[r].at
<1>1. UNCHANGED <<load, file, rows, tx, lane>> /\ req[r].pc = "edit"
  BY UpdateScalarsMoves
<1>2. req[r].todo = {} /\ req[r].ok /\ p \in Paths
  BY <1>1, FrameOf DEF FrameShape
<1>3. \A x \in Paths : ~OnTheWay(r, x)
  BY <1>1 DEF OnTheWay
<1>4. View(r)' = View(r)
  BY <1>1 DEF View
<1>5. ASSUME NEW F, Moves(r, F), F \cap {"cmd", "gone", "seen", "todo"} = {},
             req'[r].pc \in {"plan", "persist"}, Swapping(r)', Writing(r)', Indexing(r)'
      PROVE  SerialFacts'
  <2>1. req'[r].todo = req[r].todo
    BY <1>5 DEF Moves, Carries
  <2>2. /\ Serial(r)' /\ Unwritten(r)' /\ \A q \in Requests \ {r} : req'[q] = req[q]
        /\ req'[r].cmd = req[r].cmd /\ req'[r].seen = req[r].seen
    BY <1>1, <1>5, OnwardSerial DEF Body
  <2>3. Seen(r)'
    BY <1>2, <1>5, <2>1 DEF Seen
  <2>4. Dealt(r)'
    BY <1>1, <1>2, <1>3, <1>4, <1>5, <2>1, <2>2 DEF SerialFacts, SerialRequest, Dealt, Past
  <2>5. Pending(r)'
    BY <1>1, <1>2, <1>3 DEF SerialFacts, SerialRequest, Pending
  <2> QED
    BY <1>1, <1>2, <1>5, <2>2, <2>3, <2>4, <2>5, QuietStep DEF SerialRequest
<1>6. CASE /\ Moves(r, {"pc", "doc"}) /\ req'[r].pc = "persist" /\ req[r].edit \in Edits
           /\ file[p] \in Documents /\ req'[r].doc = EditOf(file[p], req[r].edit, r)
  <2>1. req'[r].at = p /\ req'[r].claim = req[r].claim
    BY <1>6 DEF Moves, Carries
  <2>2. /\ req[r].edit.status = "superseded" /\ req[r].edit.supersededBy # NoId
        /\ req[r].claim # NoMark
        /\ \A q \in Requests \ {r} :
              Held(q, p) /\ rows[p] # NoRow => rows[p].doc.status # "superseded"
    BY <1>1 DEF SerialFacts, SerialRequest, Writing
  <2>3. file[p] # NoDoc /\ GoodDoc(p, file[p])
    BY <1>2, <1>6, Sentinels DEF SerialFacts, Stored
  <2>4. /\ req'[r].doc \in Documents /\ req'[r].doc.by = r /\ req'[r].doc.id = file[p].id
        /\ req'[r].doc.body = file[p].body /\ req'[r].doc.status = "superseded"
        /\ req'[r].doc.supersededBy # NoId
    <3> DEFINE d == EditOf(file[p], req[r].edit, r)
    <3>1. /\ d \in Documents /\ d.by = r /\ d.id = file[p].id /\ d.body = file[p].body
          /\ req[r].edit.status # "" => d.status = req[r].edit.status
          /\ req[r].edit.supersededBy # NoId => d.supersededBy = req[r].edit.supersededBy
      BY <1>6, EditOfType
    <3>2. req'[r].doc = d
      BY <1>6
    <3> HIDE DEF d
    <3> QED
      BY <2>2, <3>1, <3>2
  <2>5. GoodDoc(p, req'[r].doc)
    BY <2>3, <2>4 DEF GoodDoc
  <2>6. Writing(r)'
    BY <1>1, <1>6, <2>1, <2>2, <2>3, <2>4, <2>5 DEF Writing, Held
  <2>7. Swapping(r)' /\ Indexing(r)'
    BY <1>6, <2>1, <2>2 DEF Swapping, Indexing
  <2> QED
    BY <1>5, <1>6, <2>6, <2>7
<1>7. CASE Moves(r, {"pc", "claim", "errs", "ok"}) /\ req'[r].pc = "plan"
  <2>1. Swapping(r)' /\ Writing(r)' /\ Indexing(r)'
    BY <1>7 DEF Swapping, Writing, Indexing
  <2> QED
    BY <1>5, <1>7, <2>1
<1> QED
  BY <1>6, <1>7, UpdateScalarsMoves

LEMMA MarkStaleSerial ==
    ASSUME FramesInv, SerialFacts, NEW r \in Requests, MarkStale(r)
    PROVE  SerialFacts'
<1>1. /\ UNCHANGED <<load, file, rows, lane>> /\ FramesInv'
      /\ req[r].pc = "plan" /\ req[r].ok /\ req[r].errs = {} /\ req[r].todo = {}
  BY MarkStaleMoves
<1>2. CASE Fails(r) /\ UNCHANGED tx
  BY <1>1, <1>2, FailSerial
<1>3. CASE /\ Moves(r, {"pc"}) /\ req'[r].pc = "leave"
           /\ \A q \in Requests \ {r} : tx'[q] = tx[q]
           /\ \A i \in RowIds : tx'[r][i] = IF i \in Dropped(r) THEN NoRow ELSE tx[r][i]
  <2>1. req[r].gone = {}
    BY DEF SerialFacts, SerialRequest, Serial
  <2>2. \A i \in RowIds : tx'[r][i] = tx[r][i]
    BY <1>3, <2>1 DEF Dropped
  <2>3. tx'[r] = tx[r]
    BY <1>1, <2>2 DEF FramesInv, TypeOK, StoreTypeOK
  <2>4. tx' = tx
    BY <1>1, <1>3, <2>3 DEF FramesInv, TypeOK, StoreTypeOK
  <2>5. req'[r].todo = req[r].todo /\ req'[r].ok = req[r].ok
    BY <1>3 DEF Moves, Carries
  <2>6. /\ Serial(r)' /\ Unwritten(r)' /\ \A q \in Requests \ {r} : req'[q] = req[q]
        /\ req'[r].cmd = req[r].cmd /\ req'[r].seen = req[r].seen
    BY <1>1, <1>3, <2>4, OnwardSerial DEF Body
  <2>7. Swapping(r)' /\ Writing(r)' /\ Indexing(r)' /\ Seen(r)'
    BY <1>3 DEF Swapping, Writing, Indexing, Seen, Body
  <2>8. \A x \in Paths : ~OnTheWay(r, x)
    BY <1>1 DEF OnTheWay
  <2>9. View(r)' = View(r)
    BY <1>1, <2>4 DEF View
  <2>10. Dealt(r)'
    BY <1>1, <1>3, <2>4, <2>5, <2>6, <2>8, <2>9 DEF SerialFacts, SerialRequest, Dealt, Past
  <2>11. Pending(r)'
    BY <1>1, <2>4, <2>5, <2>8 DEF SerialFacts, SerialRequest, Pending
  <2> QED
    BY <1>1, <2>4, <2>5, <2>6, <2>7, <2>10, <2>11, QuietStep DEF SerialRequest
<1> QED
  BY <1>2, <1>3, MarkStaleMoves

LEMMA EnterReindexSerial ==
    ASSUME FramesInv, SerialFacts, NEW r \in Requests, EnterReindex(r)
    PROVE  SerialFacts'
<1>1. /\ UNCHANGED <<load, file, rows, tx>> /\ req[r].pc = "enter"
  BY EnterReindexMoves
<1>2. CASE Fails(r) /\ UNCHANGED lane
  BY <1>1, <1>2, FailSerial
<1>3. CASE Moves(r, {"pc"}) /\ req'[r].pc = "scan" /\ Lane!GrantExclusive(r)
  <2>1. /\ \A q \in Requests \ {r} : req'[q] = req[q]
        /\ req'[r].cmd = req[r].cmd /\ req'[r].gone = req[r].gone /\ req'[r].seen = req[r].seen
        /\ req'[r].ok = req[r].ok
    BY <1>3 DEF Moves, Carries
  <2>2. lane'[r] = "exclusive" /\ \A q \in Requests \ {r} : lane'[q] = lane[q]
    BY <1>3 DEF Lane!GrantExclusive, FramesInv, TypeOK, Lane!TypeOK
  <2>3. DOMAIN req'[r].seen = {}
    BY <1>1, <2>1, FrameOf DEF FrameShape
  <2>4. Serial(r)'
    BY <1>1, <1>3, <2>1, <2>2 DEF SerialFacts, SerialRequest, Serial
  <2>5. Unwritten(r)'
    BY <1>1, <1>3, <2>1 DEF SerialFacts, SerialRequest, Unwritten
  <2>6. Swapping(r)' /\ Writing(r)' /\ Indexing(r)' /\ Seen(r)' /\ Dealt(r)'
    BY <1>3, <2>3 DEF Swapping, Writing, Indexing, Seen, Dealt, Past
  <2>7. Pending(r)'
    BY <1>1, <1>3, <2>1 DEF SerialFacts, SerialRequest, Pending, OnTheWay
  <2> QED
    BY <1>1, <2>1, <2>2, <2>4, <2>5, <2>6, <2>7, QuietStep DEF SerialRequest
<1> QED
  BY <1>2, <1>3, EnterReindexMoves

LEMMA ScanSerial ==
    ASSUME FramesInv, SerialFacts, NEW r \in Requests, Scan(r)
    PROVE  SerialFacts'
<1> DEFINE p == Len(req[r].seen) + 1
<1>1. /\ UNCHANGED <<load, file, rows, tx, lane>> /\ req[r].pc = "scan"
      /\ Moves(r, {"pc", "seen"}) /\ req'[r].pc \in {"scan", "compile"}
      /\ p \in Paths /\ req'[r].seen = Append(req[r].seen, file[p])
  BY ScanMoves
<1>2. /\ \A q \in Requests \ {r} : req'[q] = req[q]
      /\ req'[r].cmd = req[r].cmd /\ req'[r].gone = req[r].gone /\ req'[r].ok = req[r].ok
  BY <1>1 DEF Moves, Carries
<1>3. req[r].seen \in Seq(Documents \cup {NoDoc}) /\ req[r].cmd.kind = "reindex"
      /\ file[p] \in Documents \cup {NoDoc}
  BY <1>1, FrameOf DEF Frames, FrameShape, FramesInv, TypeOK
<1>4. \A x \in DOMAIN req'[r].seen :
         (x \in DOMAIN req[r].seen /\ req'[r].seen[x] = req[r].seen[x])
         \/ (x = p /\ req'[r].seen[x] = file[p])
  BY <1>1, <1>3
<1>5. Serial(r)'
  BY <1>1, <1>2 DEF SerialFacts, SerialRequest, Serial, Body
<1>6. Unwritten(r)'
  BY <1>1, <1>2 DEF SerialFacts, SerialRequest, Unwritten, Body
<1>7. \A x \in DOMAIN req[r].seen : req[r].seen[x] = file[x]
  BY <1>1, <1>3 DEF SerialFacts, SerialRequest, Seen, Body
<1>8. Seen(r)'
  BY <1>1, <1>4, <1>7 DEF Seen
<1>9. Swapping(r)' /\ Writing(r)' /\ Indexing(r)' /\ Dealt(r)'
  BY <1>1 DEF Swapping, Writing, Indexing, Dealt, Past
<1>10. Pending(r)'
  BY <1>1, <1>2 DEF SerialFacts, SerialRequest, Pending, OnTheWay
<1>11. ASSUME NEW q \in Requests \ {r}, req[q].pc \in {"idle", "enter"} \cup Body,
              NEW x \in DOMAIN req'[r].seen, req'[r].seen[x] # NoDoc
       PROVE  req'[r].seen[x].by # q
  <2>1. req[q].pc \in {"idle", "enter"}
    BY <1>1, <1>11, BodyAlone DEF Body
  <2> QED
    BY <1>1, <1>4, <1>11, <2>1 DEF SerialFacts, SerialRequest, Unwritten
<1> QED
  BY <1>1, <1>2, <1>5, <1>6, <1>8, <1>9, <1>10, <1>11, PrivateStep DEF SerialRequest

LEMMA CompileSerial ==
    ASSUME FramesInv, SerialFacts, NEW r \in Requests, Compile(r)
    PROVE  SerialFacts'
<1>1. /\ UNCHANGED <<load, file, rows, tx, lane>> /\ req[r].pc = "compile"
      /\ Moves(r, {"pc", "errs", "todo", "gone"}) /\ req'[r].pc = "plan" /\ FramesInv'
      /\ \A p \in Paths : req[r].seen[p] # NoDoc /\ p \notin req'[r].errs \cup req'[r].todo
                          => Unchanged(View(r), p, req[r].seen[p])
      /\ \A p \in Paths :
           p \in req'[r].gone <=> req[r].seen[p] = NoDoc /\ IndexedAt(View(r), p) # {}
  BY CompileMoves
<1>2. /\ \A q \in Requests \ {r} : req'[q] = req[q]
      /\ req'[r].cmd = req[r].cmd /\ req'[r].seen = req[r].seen /\ req'[r].ok = req[r].ok
  BY <1>1 DEF Moves, Carries
<1>3. req[r].cmd.kind = "reindex" /\ DOMAIN req[r].seen = Paths
  BY <1>1, FrameOf DEF FrameShape, Frames, Paths
<1>4. \A p \in Paths : req[r].seen[p] = file[p]
  BY <1>1, <1>3 DEF SerialFacts, SerialRequest, Seen, Body
<1>5. Stored /\ Paired /\ StoreTypeOK /\ View(r)' = View(r)
  BY <1>1 DEF SerialFacts, FramesInv, TypeOK, View
<1>6. \A p \in Paths : \A i \in IndexedAt(View(r), p) : i = p /\ View(r)[p] # NoRow
  BY <1>5, GoodViews, RowAt, Sentinels, Ids DEF IndexedAt
<1>7. \A p \in Paths : file[p] = NoDoc =>
         View(r)[p] = NoRow /\ \A q \in Requests : ~Note(tx[q][p])
  BY <1>5, Ids, ViewType DEF Paired, Note
<1>8. req'[r].gone = {}
  <2>1. req'[r].gone \subseteq Paths
    BY <1>1 DEF FramesInv, TypeOK, Frames
  <2> QED
    BY <1>1, <1>4, <1>6, <1>7, <2>1
<1>9. Serial(r)'
  BY <1>1, <1>2, <1>8 DEF SerialFacts, SerialRequest, Serial, Body
<1>10. Unwritten(r)'
  BY <1>1, <1>2 DEF SerialFacts, SerialRequest, Unwritten, Body
<1>11. Seen(r)' /\ Swapping(r)' /\ Writing(r)' /\ Indexing(r)'
  BY <1>1, <1>2, <1>3, <1>4 DEF Seen, Swapping, Writing, Indexing
<1>12. Pending(r)'
  BY <1>1, <1>2 DEF SerialFacts, SerialRequest, Pending, OnTheWay
<1>13. ASSUME NEW p \in Paths, ~OnTheWay(r, p)', p \notin req'[r].todo
       PROVE  /\ View(r)[p] # NoRow => View(r)[p] = NoteRow(p, file[p])
              /\ \A q \in Requests \ {r} :
                    req[q].ok /\ tx[r][p] = Same /\ Note(tx[q][p]) =>
                        tx[q][p] = NoteRow(p, file[p])
  <2>1. CASE file[p] = NoDoc
    BY <1>7, <2>1
  <2>2. CASE file[p] # NoDoc
    <3>1. p \notin req'[r].errs
      BY <1>1, <1>13 DEF OnTheWay
    <3>2. View(r)[p] # NoRow /\ View(r)[p].source = file[p]
      BY <1>1, <1>4, <1>6, <1>13, <2>2, <3>1 DEF Unchanged
    <3>3. View(r)[p] = NoteRow(p, file[p]) /\ View(r)[p].doc = file[p]
      BY <1>5, <3>2, GoodViews, NoteAt, Ids
    <3>4. ASSUME NEW q \in Requests \ {r}, req[q].ok, tx[r][p] = Same, Note(tx[q][p])
          PROVE  tx[q][p] = NoteRow(p, file[p])
      <4>1. rows[p] = View(r)[p]
        BY <1>5, <3>4, Ids, ViewType
      <4>2. ~OnTheWay(q, p)
        BY <1>1, BodyAlone DEF Body
      <4> QED
        BY <3>2, <3>3, <3>4, <4>1, <4>2 DEF SerialFacts, SerialRequest, Pending
    <3> QED
      BY <3>3, <3>4
  <2> QED
    BY <2>1, <2>2
<1>14. Dealt(r)'
  BY <1>1, <1>2, <1>5, <1>13 DEF Dealt
<1> QED
  BY <1>1, <1>2, <1>9, <1>10, <1>11, <1>12, <1>14, QuietStep DEF SerialRequest

LEMMA LeaveLaneSerial ==
    ASSUME FramesInv, SerialFacts, NEW r \in Requests, LeaveLane(r)
    PROVE  SerialFacts'
<1>1. /\ UNCHANGED <<load, file, rows, tx>> /\ req[r].pc = "leave" /\ Moves(r, {"pc"})
      /\ req'[r].pc = "respond" /\ \A q \in Requests \ {r} : lane'[q] = lane[q]
  BY LeaveLaneMoves
<1>2. /\ \A q \in Requests \ {r} : req'[q] = req[q]
      /\ req'[r].cmd = req[r].cmd /\ req'[r].gone = req[r].gone /\ req'[r].seen = req[r].seen
      /\ req'[r].ok = req[r].ok /\ req'[r].todo = req[r].todo
  BY <1>1 DEF Moves, Carries
<1>3. Serial(r)'
  BY <1>1, <1>2 DEF SerialFacts, SerialRequest, Serial, Body
<1>4. Unwritten(r)' /\ Swapping(r)' /\ Writing(r)' /\ Indexing(r)' /\ Seen(r)'
  BY <1>1 DEF Unwritten, Swapping, Writing, Indexing, Seen, Body
<1>5. View(r)' = View(r) /\ \A x \in Paths : ~OnTheWay(r, x)
  BY <1>1 DEF View, OnTheWay
<1>6. Dealt(r)'
  BY <1>1, <1>2, <1>5, ZenonT(60) DEF SerialFacts, SerialRequest, Dealt, Past
<1>7. Pending(r)'
  BY <1>1, <1>2, <1>5 DEF SerialFacts, SerialRequest, Pending
<1> QED
  BY <1>1, <1>2, <1>3, <1>4, <1>6, <1>7, QuietStep DEF SerialRequest

-----------------------------------------------------------------------------
(* SerialFacts, step by step: files and rows                               *)

LEMMA PersistSerial ==
    ASSUME FramesInv, SerialFacts, NEW r \in Requests, Persist(r)
    PROVE  SerialFacts'
<1> DEFINE p == req[r].at
           d == req[r].doc
<1>1. /\ UNCHANGED <<load, rows, tx, lane>> /\ req[r].pc = "persist"
      /\ Moves(r, {"pc"}) /\ req'[r].pc = "parse" /\ file' = [file EXCEPT ![p] = d]
  BY PersistMoves
<1>2. /\ \A q \in Requests \ {r} : req'[q] = req[q]
      /\ req'[r].cmd = req[r].cmd /\ req'[r].seen = req[r].seen /\ req'[r].gone = req[r].gone
      /\ req'[r].ok = req[r].ok /\ req'[r].at = p /\ req'[r].todo = req[r].todo
  BY <1>1 DEF Moves, Carries
<1>3. /\ p \in Paths /\ req[r].todo = {} /\ GoodDoc(p, d) /\ d.by = r /\ file[p] # NoDoc
      /\ d # NoDoc
  BY <1>1, FrameOf, Sentinels DEF FrameShape, SerialFacts, SerialRequest, Writing, GoodDoc
<1>4. file'[p] = d /\ \A x \in Paths \ {p} : file'[x] = file[x]
  BY <1>1, <1>3 DEF FramesInv, TypeOK
<1>5. \A q \in Requests : View(q)' = View(q)
  BY <1>1 DEF View
<1>6. Stored'
  BY <1>1, <1>3, <1>4 DEF SerialFacts, Stored
<1>7. Paired'
  BY <1>1, <1>3, <1>4, <1>5 DEF SerialFacts, Paired, OneRow, Held
<1>8. /\ \A q \in Requests \ {r} : \A x \in Paths :
            rows[x] # NoRow => rows[x].doc.by # r
      /\ \A q \in Requests \ {r} : \A x \in DOMAIN req[q].seen :
            req[q].seen[x] # NoDoc => req[q].seen[x].by # r
  BY <1>1 DEF SerialFacts, SerialRequest, Unwritten, Body
<1>9. SerialRequest(r)'
  <2>1. Serial(r)'
    BY <1>1, <1>2 DEF SerialFacts, SerialRequest, Serial, Body
  <2>2. Unwritten(r)'
    BY <1>1, <1>2 DEF SerialFacts, SerialRequest, Unwritten, Body
  <2>3. Swapping(r)' /\ Writing(r)' /\ Indexing(r)' /\ Seen(r)'
    BY <1>1, <1>2, <1>3, <1>4 DEF Swapping, Writing, Indexing, Seen
  <2>4. \A x \in Paths : ~OnTheWay(r, x) /\ (OnTheWay(r, x)' <=> x = p)
    BY <1>1, <1>2 DEF OnTheWay
  <2>5. Dealt(r)'
    <3> SUFFICES ASSUME req[r].cmd.kind = "reindex", req[r].ok,
                        NEW x \in Paths \ {p}, x \notin req[r].todo,
                        file[x] = req[r].seen[x] \/ (file[x] # NoDoc /\ file[x].by = r)
                 PROVE  /\ View(r)[x] # NoRow => View(r)[x] = NoteRow(x, file[x])
                        /\ \A z \in Requests \ {r} :
                              req[z].ok /\ tx[r][x] = Same /\ Note(tx[z][x]) =>
                                  tx[z][x] = NoteRow(x, file[x])
      BY <1>1, <1>2, <1>4, <1>5, <2>4 DEF Dealt
    <3> QED
      BY <1>1, <2>4 DEF SerialFacts, SerialRequest, Dealt, Past
  <2>6. Pending(r)'
    BY <1>1, <1>2, <1>4, <2>4, ZenonT(60) DEF SerialFacts, SerialRequest, Pending
  <2> QED
    BY <2>1, <2>2, <2>3, <2>5, <2>6 DEF SerialRequest
<1>10. ASSUME NEW q \in Requests \ {r} PROVE SerialRequest(q)'
  <2>1. req'[q] = req[q] /\ req[q].pc \notin Body
    BY <1>1, <1>2, BodyAlone DEF Body
  <2>2. Serial(q)'
    BY <1>1, <2>1 DEF SerialFacts, SerialRequest, Serial
  <2>3. Unwritten(q)'
    BY <1>1, <1>2, <1>3, <1>4, <2>1 DEF SerialFacts, SerialRequest, Unwritten
  <2>4. Swapping(q)' /\ Writing(q)' /\ Indexing(q)' /\ Seen(q)'
    BY <2>1 DEF Swapping, Writing, Indexing, Seen, Body
  <2>5. \A x \in Paths : OnTheWay(q, x)' <=> OnTheWay(q, x)
    BY <2>1 DEF OnTheWay
  <2>6. Dealt(q)'
    <3> SUFFICES ASSUME req[q].cmd.kind = "reindex", req[q].ok, req[q].pc \in Past,
                        NEW x \in Paths, ~OnTheWay(q, x), x \notin req[q].todo,
                        file'[x] = req[q].seen[x] \/ (file'[x] # NoDoc /\ file'[x].by = q)
                 PROVE  /\ View(q)[x] # NoRow => View(q)[x] = NoteRow(x, file'[x])
                        /\ \A z \in Requests \ {q} :
                              req[z].ok /\ tx[q][x] = Same /\ Note(tx[z][x]) =>
                                  tx[z][x] = NoteRow(x, file'[x])
      BY <1>1, <1>2, <1>5, <2>1, <2>5 DEF Dealt
    <3>1. DOMAIN req[q].seen = Paths
      BY FrameOf DEF FrameShape, Frames, Past, Paths
    <3>2. x # p
      BY <1>3, <1>4, <1>8, <3>1
    <3> QED
      BY <1>4, <3>2 DEF SerialFacts, SerialRequest, Dealt
  <2>7. ASSUME req[q].ok, ~OnTheWay(q, p), Note(tx[q][p]), rows[p] # NoRow
        PROVE  MergeSafe(rows[p].doc, tx[q][p].doc, d) /\ rows[p].doc # d
    <3>1. /\ MergeSafe(rows[p].doc, tx[q][p].doc, file[p])
          /\ rows[p].doc = file[p] => tx[q][p] = rows[p]
      BY <1>3, <2>7 DEF SerialFacts, SerialRequest, Pending
    <3>2. Held(q, p)
      BY <2>7 DEF Held, Note
    <3>3. CASE req[r].claim = NoMark
      <4>1. tx[q][p] = rows[p]
        BY <1>1, <3>1, <3>2, <3>3 DEF SerialFacts, SerialRequest, Swapping
      <4> QED
        BY <1>3, <1>8, <2>7, <4>1 DEF MergeSafe
    <3>4. CASE req[r].claim # NoMark
      <4>1. /\ d.body = file[p].body /\ d.status = "superseded"
            /\ rows[p].doc.status # "superseded"
        BY <1>1, <2>7, <3>2, <3>4 DEF SerialFacts, SerialRequest, Writing
      <4> QED
        BY <1>3, <1>8, <2>7, <3>1, <4>1 DEF MergeSafe
    <3> QED
      BY <3>3, <3>4
  <2>8. Pending(q)'
    BY <1>1, <1>3, <1>4, <2>1, <2>5, <2>7 DEF SerialFacts, SerialRequest, Pending
  <2> QED
    BY <2>2, <2>3, <2>4, <2>6, <2>8 DEF SerialRequest
<1> QED
  BY <1>6, <1>7, <1>9, <1>10 DEF SerialFacts

\* The session of request r, which is in the lane, has written the pair of keys of
\* path p, and nobody else has.
Writes(r, p) ==
    /\ UNCHANGED <<file, rows, lane>>
    /\ \A q \in Requests \ {r} : tx'[q] = tx[q] /\ req'[q] = req[q] /\ ~Held(q, p)
    /\ \A i \in RowIds \ {p, ErrorId(p)} : tx'[r][i] = tx[r][i]
    /\ tx'[r][p] = Same \/ GoodRow(p, tx'[r][p])
    /\ tx'[r][ErrorId(p)] = Same \/ GoodRow(ErrorId(p), tx'[r][ErrorId(p)])
    /\ tx'[r][p] = NoRow => tx'[r][ErrorId(p)] # Same
    /\ tx'[r][ErrorId(p)] = NoRow => tx'[r][p] # Same
    /\ Note(tx'[r][p]) => file[p] # NoDoc /\ tx'[r][p] = NoteRow(p, file[p])
    /\ file[p] # NoDoc => OneRow(View(r)', p)

LEMMA WritesKeys ==
    ASSUME NEW r \in Requests, NEW p \in Paths, Writes(r, p), NEW x \in Paths \ {p}
    PROVE  tx'[r][x] = tx[r][x] /\ tx'[r][ErrorId(x)] = tx[r][ErrorId(x)]
<1>1. /\ x \in RowIds \ {p, ErrorId(p)} /\ ErrorId(x) \in RowIds
      /\ ErrorId(x) # p /\ ErrorId(x) # ErrorId(p)
  BY Ids
<1> QED
  BY <1>1 DEF Writes

LEMMA WritesStored ==
    ASSUME FramesInv, FramesInv', SerialFacts, NEW r \in Requests, NEW p \in Paths, Writes(r, p)
    PROVE  Stored' /\ Paired' /\ \A q \in Requests \ {r} : View(q)' = View(q)
<1>1. StoreTypeOK /\ StoreTypeOK' /\ Stored /\ Paired
  BY DEF FramesInv, TypeOK, SerialFacts
<1>2. \A q \in Requests \ {r} : View(q)' = View(q)
  BY DEF View, Writes
<1>3. Stored'
  <2>1. \A i \in RowIds : tx'[r][i] = Same \/ GoodRow(i, tx'[r][i])
    BY <1>1 DEF Writes, Stored
  <2>2. \A q \in Requests \ {r} : \A i \in RowIds : tx'[q][i] = Same \/ GoodRow(i, tx'[q][i])
    BY <1>1 DEF Writes, Stored
  <2> QED
    BY <1>1, <2>1, <2>2 DEF Writes, Stored
<1>4. \A i \in RowIds : View(r)'[i] = IF tx'[r][i] = Same THEN rows'[i] ELSE tx'[r][i]
  BY DEF View
<1>5. ASSUME NEW x \in Paths \ {p} PROVE View(r)'[x] = View(r)[x] /\ View(r)'[ErrorId(x)] = View(r)[ErrorId(x)]
  BY <1>1, <1>4, WritesKeys, ViewType, Ids DEF Writes
<1>6. ASSUME NEW x \in Paths
      PROVE  /\ file'[x] # NoDoc => OneRow(rows', x) /\ \A q \in Requests : OneRow(View(q)', x)
             /\ file'[x] = NoDoc => rows'[x] = NoRow /\ \A q \in Requests : ~Note(tx'[q][x])
  <2>1. CASE x = p
    BY <1>1, <1>2, <2>1 DEF Paired, OneRow, Writes
  <2>2. CASE x # p
    BY <1>1, <1>2, <1>5, <2>2, WritesKeys DEF Paired, OneRow, Writes
  <2> QED
    BY <2>1, <2>2
<1>7. ASSUME NEW x \in Paths, NEW q \in Requests
      PROVE  /\ tx'[q][x] = NoRow => tx'[q][ErrorId(x)] # Same
             /\ tx'[q][ErrorId(x)] = NoRow => tx'[q][x] # Same
  <2>1. CASE q = r /\ x = p
    BY <2>1 DEF Writes
  <2>2. CASE q = r /\ x # p
    BY <1>1, <2>2, WritesKeys DEF Paired
  <2>3. CASE q # r
    BY <1>1, <2>3 DEF Paired, Writes
  <2> QED
    BY <2>1, <2>2, <2>3
<1>8. \A x \in Paths \ {p} : \A q \in Requests : Held(q, x)' <=> Held(q, x)
  BY WritesKeys DEF Held, Writes
<1>9. \A q \in Requests \ {r} : ~Held(q, p)'
  BY DEF Held, Writes
<1>10. ASSUME NEW x \in Paths, NEW q \in Requests, NEW z \in Requests, q # z, Held(q, x)'
       PROVE  ~Held(z, x)'
  BY <1>1, <1>8, <1>9, <1>10 DEF Paired
<1>11. Paired'
  BY <1>6, <1>7, <1>10 DEF Paired
<1> QED
  BY <1>2, <1>3, <1>11

LEMMA WritesOthers ==
    ASSUME FramesInv, SerialFacts, NEW r \in Requests, NEW p \in Paths, Writes(r, p),
           req[r].pc \in Body, req'[r].ok => req[r].ok, req'[r].seen = req[r].seen,
           NEW q \in Requests \ {r}
    PROVE  SerialRequest(q)'
<1>1. req'[q] = req[q] /\ req[q].pc \notin Body /\ tx'[q] = tx[q] /\ UNCHANGED <<file, rows, lane>>
  BY BodyAlone DEF Writes
<1>2. View(q)' = View(q)
  BY <1>1 DEF View
<1>3. Serial(q)'
  BY <1>1 DEF SerialFacts, SerialRequest, Serial
<1>4. \A x \in Paths : Note(tx'[r][x]) =>
         tx'[r][x] = tx[r][x] \/ (x = p /\ file[p] # NoDoc /\ tx'[r][p] = NoteRow(p, file[p]))
  BY WritesKeys DEF Writes
<1>5. file[p] # NoDoc => NoteRow(p, file[p]).doc = file[p]
  BY RowTypes DEF FramesInv, TypeOK
<1>6. Unwritten(q)'
  <2>1. ASSUME req[q].pc \in {"idle", "enter"}, NEW x \in Paths, Note(tx'[r][x])
        PROVE  tx'[r][x].doc.by # q
    BY <1>4, <1>5, <2>1 DEF SerialFacts, SerialRequest, Unwritten
  <2> QED
    BY <1>1, <2>1 DEF SerialFacts, SerialRequest, Unwritten, Writes
<1>7. Swapping(q)' /\ Writing(q)' /\ Indexing(q)' /\ Seen(q)'
  BY <1>1 DEF Swapping, Writing, Indexing, Seen, Body
<1>8. \A x \in Paths : OnTheWay(q, x)' <=> OnTheWay(q, x)
  BY <1>1 DEF OnTheWay
<1>9. Dealt(q)'
  <2> SUFFICES ASSUME req[q].cmd.kind = "reindex", req[q].ok, req[q].pc \in Past,
                      NEW x \in Paths, ~OnTheWay(q, x), x \notin req[q].todo,
                      file[x] = req[q].seen[x] \/ (file[x] # NoDoc /\ file[x].by = q)
               PROVE  /\ View(q)[x] # NoRow => View(q)[x] = NoteRow(x, file[x])
                      /\ \A z \in Requests \ {q} :
                            req'[z].ok /\ tx[q][x] = Same /\ Note(tx'[z][x]) =>
                                tx'[z][x] = NoteRow(x, file[x])
    BY <1>1, <1>2, <1>8 DEF Dealt
  <2>1. /\ View(q)[x] # NoRow => View(q)[x] = NoteRow(x, file[x])
        /\ \A z \in Requests \ {q} :
              req[z].ok /\ tx[q][x] = Same /\ Note(tx[z][x]) => tx[z][x] = NoteRow(x, file[x])
    BY DEF SerialFacts, SerialRequest, Dealt
  <2>2. \A z \in Requests \ {q, r} : req'[z] = req[z] /\ tx'[z] = tx[z]
    BY DEF Writes
  <2> QED
    BY <1>4, <2>1, <2>2
<1>10. Pending(q)'
  BY <1>1, <1>8 DEF SerialFacts, SerialRequest, Pending
<1> QED
  BY <1>3, <1>6, <1>7, <1>9, <1>10 DEF SerialRequest

\* The merge writes the document as it is.
LEMMA MergeExact ==
    ASSUME NEW d \in Documents, NEW p, NEW l, NEW n,
           l = NoRow \/ l.doc = NoDoc \/ n.doc = NoDoc \/ MergeSafe(l.doc, n.doc, d)
    PROVE  Merge(d, p, l, n) = NoteRow(p, d)
<1>1. CASE l = NoRow \/ l.doc = NoDoc \/ n.doc = NoDoc
  BY <1>1 DEF Merge
<1>2. CASE ~(l = NoRow \/ l.doc = NoDoc \/ n.doc = NoDoc)
  <2> DEFINE b == IF d.body = l.doc.body THEN n.doc.body ELSE d.body
             s == IF d.status = l.doc.status THEN n.doc.status ELSE d.status
  <2>1. b = d.body /\ s = d.status
    BY <1>2 DEF MergeSafe
  <2>2. Merge(d, p, l, n) = [path |-> p, source |-> d,
                             doc |-> [d EXCEPT !.body = b, !.status = s]]
    BY <1>2 DEF Merge
  <2>3. d.body \in Bodies /\ d.status \in {"current", "archived", "superseded"}
    BY DEF Documents
  <2>4. [d EXCEPT !.body = d.body, !.status = d.status] = d
    BY <2>3, DocumentFields
  <2> HIDE DEF b, s
  <2> QED
    BY <2>1, <2>2, <2>4 DEF NoteRow
<1> QED
  BY <1>1, <1>2

\* A statement that is not blocked meets nobody else's writes at the path.
LEMMA NotHeld ==
    ASSUME FramesInv, SerialFacts, NEW r \in Requests, NEW p \in Paths, NEW keys,
           p \in keys \/ ErrorId(p) \in keys, ~Blocked(r, keys, p), NEW q \in Requests \ {r}
    PROVE  ~Held(q, p)
<1>1. Stored /\ Paired
  BY DEF SerialFacts
<1>2. p \in RowIds /\ ErrorId(p) \in RowIds
  BY Ids
<1>3. \A i \in RowIds : tx[q][i] # Same => i \notin keys /\ tx[q][i].path # p
  BY DEF Blocked
<1>4. tx[q][p] \in {Same, NoRow}
  BY <1>1, <1>2, <1>3, NoteAt DEF Stored
<1>5. tx[q][ErrorId(p)] \in {Same, NoRow}
  BY <1>1, <1>2, <1>3, ErrorAt, RowTypes DEF Stored
<1> QED
  BY <1>1, <1>2, <1>3, <1>4, <1>5, Sentinels DEF Paired, Held

LEMMA FlushSerial ==
    ASSUME FramesInv, SerialFacts, NEW r \in Requests, Flush(r)
    PROVE  SerialFacts'
<1> DEFINE p == req[r].at
           d == req[r].doc
           l == req[r].row
           f == req[r].foundAt
<1>1. /\ FramesInv' /\ UNCHANGED <<load, file, rows, lane>> /\ req[r].pc = "flush"
      /\ Moves(r, {"pc", "claim", "marks"}) /\ req'[r].pc = "plan"
      /\ ~UpsertStuck(r) /\ (l = NoRow <=> View(r)[d.id] = NoRow) /\ Upsert(r, d, p, l, f)
  BY FlushMoves
<1>2. /\ \A q \in Requests \ {r} : req'[q] = req[q]
      /\ req'[r].cmd = req[r].cmd /\ req'[r].seen = req[r].seen /\ req'[r].gone = req[r].gone
      /\ req'[r].ok = req[r].ok /\ req'[r].at = p /\ req'[r].todo = req[r].todo
  BY <1>1 DEF Moves, Carries
<1>3. /\ p \in Paths /\ d \in Documents /\ l \in Rows \cup {NoRow} /\ f \in RowIds \cup {NoId}
      /\ StoreTypeOK /\ StoreTypeOK'
  BY <1>1, FrameOf DEF FrameShape, Frames, FramesInv, TypeOK
<1>4. /\ d = file[p] /\ f = (IF l = NoRow THEN ErrorId(p) ELSE p) /\ GoodRow(p, l)
      /\ l # NoRow /\ View(r)[p] # NoRow => MergeSafe(l.doc, View(r)[p].doc, d)
  BY <1>1 DEF SerialFacts, SerialRequest, Indexing
<1>5. Stored /\ Paired /\ file[p] # NoDoc /\ GoodDoc(p, file[p]) /\ d.id = p
  BY <1>3, <1>4, Sentinels DEF SerialFacts, Stored, GoodDoc
<1>6. p \in RowIds /\ ErrorId(p) \in RowIds /\ ErrorId(p) # p
  BY <1>3, Ids
<1>7. /\ \A q \in Requests \ {r} : tx'[q] = tx[q]
      /\ tx'[r][p] = Merge(d, p, l, View(r)[p])
      /\ \A i \in RowIds \ {p} : tx'[r][i] = IF i = f THEN NoRow ELSE tx[r][i]
  <2>1. UNCHANGED rows
    BY <1>1
  <2>2. /\ \A q \in Requests \ {r} : tx'[q] = tx[q]
        /\ tx'[r][d.id] = Merge(d, p, l, View(r)[d.id])
        /\ \A i \in RowIds \ {d.id} : tx'[r][i] = IF i = f THEN NoRow ELSE tx[r][i]
    <3> HIDE DEF p, d, l, f
    <3> QED
      BY <1>1, <1>3, <2>1, UpsertFacts
  <2> QED
    BY <1>5, <2>2
<1>8. tx'[r][p] = NoteRow(p, file[p])
  BY <1>1, <1>3, <1>4, <1>5, <1>7, MergeExact
<1>9. /\ NoteRow(p, file[p]) # NoRow /\ NoteRow(p, file[p]) # Same
      /\ NoteRow(p, file[p]).doc = file[p] /\ GoodRow(p, NoteRow(p, file[p]))
  BY <1>3, <1>4, <1>5, GoodNote, NoteAt, RowTypes
<1>10. ~Blocked(r, UpsertKeys(d, f), p) /\ p \in UpsertKeys(d, f)
  BY <1>1, <1>5 DEF UpsertStuck, UpsertKeys
<1>11. \A q \in Requests \ {r} : ~Held(q, p)
  BY <1>3, <1>10, NotHeld
<1>12. \A i \in RowIds : View(r)'[i] = IF tx'[r][i] = Same THEN rows[i] ELSE tx'[r][i]
  BY <1>1 DEF View
<1>13. View(r)'[p] = NoteRow(p, file[p])
  BY <1>6, <1>8, <1>9, <1>12
<1>14. View(r)'[ErrorId(p)] = NoRow
  <2>1. CASE l = NoRow
    BY <1>4, <1>6, <1>7, <1>12, <2>1, Sentinels
  <2>2. CASE l # NoRow
    <3>1. View(r)[p] # NoRow
      BY <1>1, <1>5, <2>2
    <3>2. View(r)[ErrorId(p)] = NoRow
      BY <1>3, <1>5, <3>1 DEF Paired, OneRow
    <3>3. tx'[r][ErrorId(p)] = tx[r][ErrorId(p)]
      BY <1>4, <1>6, <1>7, <2>2
    <3> QED
      BY <1>3, <1>6, <1>12, <3>2, <3>3, ViewType
  <2> QED
    BY <2>1, <2>2
<1>15. tx'[r][ErrorId(p)] \in {NoRow, tx[r][ErrorId(p)]}
  BY <1>6, <1>7
<1>16. Writes(r, p)
  <2>1. \A i \in RowIds \ {p, ErrorId(p)} : tx'[r][i] = tx[r][i]
    BY <1>4, <1>7
  <2>2. tx'[r][ErrorId(p)] = Same \/ GoodRow(ErrorId(p), tx'[r][ErrorId(p)])
    BY <1>5, <1>6, <1>15 DEF GoodRow, Stored
  <2> QED
    BY <1>1, <1>2, <1>5, <1>7, <1>8, <1>9, <1>11, <1>13, <1>14, <2>1, <2>2 DEF Writes, OneRow
<1>17. Stored' /\ Paired' /\ \A q \in Requests \ {r} : View(q)' = View(q)
  BY <1>1, <1>3, <1>16, WritesStored
<1>18. \A q \in Requests \ {r} : SerialRequest(q)'
  BY <1>1, <1>2, <1>3, <1>16, WritesOthers DEF Body
<1>19. SerialRequest(r)'
  <2>1. Serial(r)'
    BY <1>1, <1>2 DEF SerialFacts, SerialRequest, Serial, Body
  <2>2. Unwritten(r)'
    BY <1>1, <1>2, <1>7 DEF SerialFacts, SerialRequest, Unwritten, Body
  <2>3. Swapping(r)' /\ Writing(r)' /\ Indexing(r)'
    BY <1>1 DEF Swapping, Writing, Indexing
  <2>4. Seen(r)'
    BY <1>1, <1>2 DEF SerialFacts, SerialRequest, Seen, Body
  <2>5. \A x \in Paths \ {p} : ~OnTheWay(r, x)
    BY <1>1 DEF OnTheWay
  <2>6. \A x \in Paths \ {p} : tx'[r][x] = tx[r][x] /\ View(r)'[x] = View(r)[x]
    BY <1>3, <1>12, <1>16, WritesKeys, ViewType, Ids
  <2>7. Dealt(r)'
    <3> SUFFICES ASSUME req[r].cmd.kind = "reindex", req[r].ok,
                        NEW x \in Paths, x \notin req[r].todo,
                        file[x] = req[r].seen[x] \/ (file[x] # NoDoc /\ file[x].by = r)
                 PROVE  /\ View(r)'[x] # NoRow => View(r)'[x] = NoteRow(x, file[x])
                        /\ \A z \in Requests \ {r} :
                              req[z].ok /\ tx'[r][x] = Same /\ Note(tx[z][x]) =>
                                  tx[z][x] = NoteRow(x, file[x])
      BY <1>1, <1>2, <1>7 DEF Dealt
    <3>1. CASE x = p
      BY <1>8, <1>9, <1>13, <3>1
    <3>2. CASE x # p
      BY <1>1, <2>5, <2>6, <3>2 DEF SerialFacts, SerialRequest, Dealt, Past
    <3> QED
      BY <3>1, <3>2
  <2>8. Pending(r)'
    <3> SUFFICES ASSUME NEW x \in Paths, req[r].ok, Note(tx'[r][x]), rows[x] # NoRow
                 PROVE  /\ MergeSafe(rows[x].doc, tx'[r][x].doc, file[x])
                        /\ rows[x].doc = file[x] => tx'[r][x] = rows[x]
      BY <1>1, <1>2 DEF Pending
    <3>1. CASE x = p
      <4>1. rows[p] = NoteRow(p, rows[p].doc)
        BY <1>5, <1>6, <3>1, NoteAt DEF Stored
      <4> QED
        BY <1>8, <1>9, <3>1, <4>1 DEF MergeSafe
    <3>2. CASE x # p
      BY <1>1, <2>5, <2>6, <3>2 DEF SerialFacts, SerialRequest, Pending
    <3> QED
      BY <3>1, <3>2
  <2> QED
    BY <2>1, <2>2, <2>3, <2>4, <2>7, <2>8 DEF SerialRequest
<1> QED
  BY <1>17, <1>18, <1>19 DEF SerialFacts

LEMMA RecordIndexErrorSerial ==
    ASSUME FramesInv, SerialFacts, NEW r \in Requests, RecordIndexError(r)
    PROVE  SerialFacts'
<1> DEFINE p == NextError(r)
           f == IdAt(View(r), p)
<1>1. /\ FramesInv' /\ UNCHANGED <<load, file, rows, lane>> /\ req[r].pc = "plan"
      /\ Moves(r, {"errs"}) /\ p \in req[r].errs /\ p \in Paths /\ req'[r].errs = req[r].errs \ {p}
      /\ ~Blocked(r, ErrorKeys(r, p), p) /\ RecordError(r, p)
  BY RecordIndexErrorMoves
<1> HIDE DEF p
<1>2. /\ \A q \in Requests \ {r} : req'[q] = req[q]
      /\ req'[r].cmd = req[r].cmd /\ req'[r].seen = req[r].seen /\ req'[r].gone = req[r].gone
      /\ req'[r].ok = req[r].ok /\ req'[r].pc = "plan" /\ req'[r].todo = req[r].todo
  BY <1>1 DEF Moves, Carries
<1>3. Stored /\ Paired /\ StoreTypeOK /\ StoreTypeOK' /\ View(r) \in [RowIds -> Rows \cup {NoRow}]
  BY <1>1, ViewType DEF SerialFacts, FramesInv, TypeOK
<1>4. p \in RowIds /\ ErrorId(p) \in RowIds /\ ErrorId(p) # p
  BY <1>1, Ids
<1>5. /\ \A q \in Requests \ {r} : tx'[q] = tx[q]
      /\ tx'[r][ErrorId(p)] = ErrorRow(p)
      /\ \A i \in RowIds \ {ErrorId(p)} : tx'[r][i] = IF i = f THEN NoRow ELSE tx[r][i]
  BY <1>1, <1>3, RecordErrorFacts
<1>6. f \in {NoId, p, ErrorId(p)}
  <2>1. CASE f # NoId
    <3>1. f \in RowIds /\ View(r)[f].path = p
      BY <1>1, <1>3, <2>1, IdAtType
    <3>2. View(r)[f] # NoRow /\ GoodRow(f, View(r)[f])
      BY <1>1, <1>3, <3>1, GoodViews, Sentinels, Ids
    <3> QED
      BY <1>1, <3>1, <3>2, RowAt
  <2> QED
    BY <2>1
<1>7. \A q \in Requests \ {r} : ~Held(q, p)
  BY <1>1, NotHeld DEF ErrorKeys
<1>8. \A i \in RowIds : View(r)'[i] = IF tx'[r][i] = Same THEN rows[i] ELSE tx'[r][i]
  BY <1>1 DEF View
<1>9. ErrorRow(p) # NoRow /\ ErrorRow(p) # Same
  BY <1>1, RowTypes, Sentinels
<1>10. View(r)[p] # NoRow => f = p
  <2>1. CASE file[p] # NoDoc
    BY <1>1, <1>3, <2>1, PairedView
  <2>2. CASE file[p] = NoDoc
    BY <1>1, <1>3, <1>4, <2>2, ViewType DEF Paired, Note
  <2> QED
    BY <2>1, <2>2
<1>11. View(r)'[p] = NoRow /\ View(r)'[ErrorId(p)] # NoRow
  <2>1. tx'[r][p] = IF f = p THEN NoRow ELSE tx[r][p]
    BY <1>4, <1>5
  <2> QED
    BY <1>3, <1>4, <1>5, <1>8, <1>9, <1>10, <2>1, ViewType, Sentinels
<1>12. ~Note(tx'[r][p])
  BY <1>4, <1>8, <1>11 DEF Note
<1>13. Writes(r, p)
  <2>1. \A i \in RowIds \ {p, ErrorId(p)} : tx'[r][i] = tx[r][i]
    BY <1>5, <1>6, Ids
  <2>2. tx'[r][p] = Same \/ GoodRow(p, tx'[r][p])
    BY <1>12 DEF Note, GoodRow
  <2>3. GoodRow(ErrorId(p), tx'[r][ErrorId(p)])
    BY <1>1, <1>5 DEF GoodRow
  <2> QED
    BY <1>1, <1>2, <1>5, <1>7, <1>9, <1>11, <1>12, <2>1, <2>2, <2>3 DEF Writes, OneRow
<1>14. Stored' /\ Paired'
  BY <1>1, <1>13, WritesStored
<1>15. \A q \in Requests \ {r} : SerialRequest(q)'
  BY <1>1, <1>2, <1>13, WritesOthers DEF Body
<1>16. SerialRequest(r)'
  <2>1. Serial(r)'
    BY <1>1, <1>2 DEF SerialFacts, SerialRequest, Serial, Body
  <2>2. Unwritten(r)'
    BY <1>1, <1>2, <1>5 DEF SerialFacts, SerialRequest, Unwritten, Body
  <2>3. Swapping(r)' /\ Writing(r)' /\ Indexing(r)'
    BY <1>2 DEF Swapping, Writing, Indexing
  <2>4. Seen(r)'
    BY <1>1, <1>2 DEF SerialFacts, SerialRequest, Seen, Body
  <2>5. \A x \in Paths \ {p} : OnTheWay(r, x)' <=> OnTheWay(r, x)
    BY <1>1, <1>2 DEF OnTheWay
  <2>6. \A x \in Paths \ {p} : tx'[r][x] = tx[r][x] /\ View(r)'[x] = View(r)[x]
    BY <1>1, <1>3, <1>8, <1>13, WritesKeys, ViewType, Ids
  <2>7. Dealt(r)'
    <3> SUFFICES ASSUME req[r].cmd.kind = "reindex", req[r].ok, NEW x \in Paths,
                        ~OnTheWay(r, x)', x \notin req[r].todo,
                        file[x] = req[r].seen[x] \/ (file[x] # NoDoc /\ file[x].by = r)
                 PROVE  /\ View(r)'[x] # NoRow => View(r)'[x] = NoteRow(x, file[x])
                        /\ \A z \in Requests \ {r} :
                              req[z].ok /\ tx'[r][x] = Same /\ Note(tx[z][x]) =>
                                  tx[z][x] = NoteRow(x, file[x])
      BY <1>1, <1>2, <1>5 DEF Dealt
    <3>1. CASE x = p
      BY <1>7, <1>11, <3>1 DEF Held, Note
    <3>2. CASE x # p
      BY <1>1, <2>5, <2>6, <3>2 DEF SerialFacts, SerialRequest, Dealt, Past
    <3> QED
      BY <3>1, <3>2
  <2>8. Pending(r)'
    <3> SUFFICES ASSUME NEW x \in Paths, req[r].ok, ~OnTheWay(r, x)', Note(tx'[r][x]),
                        rows[x] # NoRow
                 PROVE  /\ MergeSafe(rows[x].doc, tx'[r][x].doc, file[x])
                        /\ rows[x].doc = file[x] => tx'[r][x] = rows[x]
      BY <1>1, <1>2 DEF Pending
    <3>1. x # p
      BY <1>12
    <3> QED
      BY <1>1, <2>5, <2>6, <3>1 DEF SerialFacts, SerialRequest, Pending
  <2> QED
    BY <2>1, <2>2, <2>3, <2>4, <2>7, <2>8 DEF SerialRequest
<1> QED
  BY <1>14, <1>15, <1>16 DEF SerialFacts

LEMMA RespondSerial ==
    ASSUME FramesInv, SerialFacts, NEW r \in Requests, Respond(r)
    PROVE  SerialFacts'
<1>1. /\ FramesInv' /\ UNCHANGED <<load, file, lane>> /\ req[r].pc = "respond"
      /\ req'[r].pc = "done" /\ Carries(Idle, req'[r], {"pc", "ok"})
      /\ \A q \in Requests \ {r} : req'[q] = req[q] /\ tx'[q] = tx[q]
      /\ \A i \in RowIds : tx'[r][i] = Same
      /\ rows' = rows \/ (req[r].ok /\ rows' = View(r))
  BY RespondMoves
<1>2. req'[r].cmd.kind = "reindex" /\ req'[r].gone = {} /\ DOMAIN req'[r].seen = {}
  BY <1>1 DEF Carries, Idle, Reindex, Command
<1>3. Stored /\ Paired /\ StoreTypeOK
  BY DEF SerialFacts, FramesInv, TypeOK
<1>4. \A i \in RowIds : View(r)[i] = IF tx[r][i] = Same THEN rows[i] ELSE tx[r][i]
  BY <1>3, ViewType
<1>5. /\ \A i \in RowIds : View(r)'[i] = rows'[i]
      /\ \A q \in Requests \ {r} : \A i \in RowIds :
            View(q)'[i] = IF tx[q][i] = Same THEN rows'[i] ELSE tx[q][i]
  BY <1>1 DEF View
<1>6. \A q \in Requests : \A i \in RowIds : View(q)[i] = IF tx[q][i] = Same THEN rows[i] ELSE tx[q][i]
  BY <1>3, ViewType
<1>7. \A i \in RowIds : rows'[i] = rows[i] \/ (req[r].ok /\ tx[r][i] # Same /\ rows'[i] = tx[r][i])
  BY <1>1, <1>4
<1>8. \A p \in Paths : \A q \in Requests \ {r} : Held(q, p) =>
         rows'[p] = rows[p] /\ rows'[ErrorId(p)] = rows[ErrorId(p)]
  <2>1. \A p \in Paths : \A q \in Requests \ {r} : Held(q, p) => ~Held(r, p)
    BY <1>3 DEF Paired
  <2> QED
    BY <1>7, <2>1, Ids DEF Held
<1>9. \A p \in Paths : ~Held(r, p)' /\ \A q \in Requests \ {r} : Held(q, p)' <=> Held(q, p)
  BY <1>1, Ids DEF Held
<1>10. Stored'
  <2>1. \A i \in RowIds : GoodRow(i, rows'[i])
    BY <1>3, <1>7 DEF Stored
  <2> QED
    BY <1>1, <1>3, <2>1 DEF Stored
<1>11. Paired'
  <2>1. ASSUME NEW p \in Paths, file[p] # NoDoc
        PROVE  OneRow(rows', p) /\ \A q \in Requests : OneRow(View(q)', p)
    <3>1. OneRow(rows', p)
      BY <1>1, <1>3, <2>1 DEF Paired
    <3>2. ASSUME NEW q \in Requests \ {r}, ~Held(q, p) PROVE OneRow(View(q)', p)
      BY <1>5, <3>1, <3>2, Ids DEF OneRow, Held
    <3>3. ASSUME NEW q \in Requests \ {r}, Held(q, p) PROVE OneRow(View(q)', p)
      <4>1. OneRow(View(q), p)
        BY <1>3, <2>1 DEF Paired
      <4>2. View(q)'[p] = View(q)[p] /\ View(q)'[ErrorId(p)] = View(q)[ErrorId(p)]
        BY <1>5, <1>6, <1>8, <3>3, Ids
      <4> QED
        BY <4>1, <4>2 DEF OneRow
    <3>4. OneRow(View(r)', p)
      BY <1>5, <3>1, Ids DEF OneRow
    <3> QED
      BY <3>1, <3>2, <3>3, <3>4
  <2>2. ASSUME NEW p \in Paths, file[p] = NoDoc
        PROVE  rows'[p] = NoRow /\ \A q \in Requests : ~Note(tx'[q][p])
    BY <1>1, <1>3, <1>7, <2>2, Ids DEF Paired, Note
  <2>3. ASSUME NEW p \in Paths, NEW q \in Requests
        PROVE  /\ tx'[q][p] = NoRow => tx'[q][ErrorId(p)] # Same
               /\ tx'[q][ErrorId(p)] = NoRow => tx'[q][p] # Same
    BY <1>1, <1>3, Ids, Sentinels DEF Paired
  <2>4. ASSUME NEW p \in Paths, NEW q \in Requests, NEW z \in Requests, q # z, Held(q, p)'
        PROVE  ~Held(z, p)'
    BY <1>3, <1>9, <2>4 DEF Paired
  <2> QED
    BY <1>1, <2>1, <2>2, <2>3, <2>4 DEF Paired
<1>12. SerialRequest(r)'
  <2>1. Serial(r)'
    BY <1>1, <1>2 DEF Serial, Body
  <2>2. Unwritten(r)' /\ Swapping(r)' /\ Writing(r)' /\ Indexing(r)' /\ Seen(r)' /\ Dealt(r)'
    BY <1>1 DEF Unwritten, Swapping, Writing, Indexing, Seen, Dealt, Body, Past
  <2>3. Pending(r)'
    BY <1>1, Ids DEF Pending, Note
  <2> QED
    BY <2>1, <2>2, <2>3 DEF SerialRequest
<1>13. ASSUME NEW q \in Requests \ {r} PROVE SerialRequest(q)'
  <2>1. /\ Serial(q) /\ Unwritten(q) /\ Swapping(q) /\ Writing(q)
        /\ Indexing(q) /\ Seen(q) /\ Dealt(q) /\ Pending(q) /\ req'[q] = req[q] /\ tx'[q] = tx[q]
    BY <1>1 DEF SerialFacts, SerialRequest
  <2>2. \A x \in Paths : OnTheWay(q, x)' <=> OnTheWay(q, x)
    BY <2>1 DEF OnTheWay
  <2>3. Serial(q)' /\ Seen(q)'
    BY <1>1, <2>1 DEF Serial, Seen
  <2>4. Unwritten(q)'
    <3>1. ASSUME req[q].pc \in {"idle", "enter"} \cup Body, NEW x \in Paths, rows'[x] # NoRow
          PROVE  rows'[x].doc.by # q
      BY <1>7, <2>1, <3>1, Ids DEF Unwritten, Note
    <3>2. \A z \in Requests \ {q} : \A x \in Paths :
             Note(tx'[z][x]) => z # r /\ tx'[z][x] = tx[z][x]
      BY <1>1, Ids DEF Note
    <3>3. \A z \in Requests \ {q} : \A x \in DOMAIN req'[z].seen : z # r /\ req'[z] = req[z]
      BY <1>1, <1>2
    <3> QED
      BY <1>1, <2>1, <3>1, <3>2, <3>3 DEF Unwritten
  <2>5. \A x \in Paths : \A z \in Requests \ {q} : Held(z, x)' => Held(z, x) /\ rows'[x] = rows[x]
    BY <1>8, <1>9
  <2>6. Swapping(q)'
    BY <1>1, <2>1, <2>5 DEF Swapping
  <2>7. Writing(q)'
    <3>1. req[q].pc \in {"persist", "edit"} => req[q].at \in Paths
      BY FrameOf DEF FrameShape
    <3> QED
      BY <1>1, <2>1, <2>5, <3>1 DEF Writing
  <2>8. \A x \in Paths : \A z \in Requests \ {q} : Note(tx'[z][x]) =>
           z # r /\ tx'[z][x] = tx[z][x] /\ req'[z] = req[z]
    BY <1>1, Ids DEF Note
  <2>9. \A x \in Paths : View(q)'[x] # NoRow =>
           \/ View(q)'[x] = View(q)[x]
           \/ req[r].ok /\ tx[q][x] = Same /\ Note(tx[r][x]) /\ View(q)'[x] = tx[r][x]
    BY <1>5, <1>6, <1>7, Ids DEF Note
  <2>10. Indexing(q)'
    <3>1. CASE req[q].pc = "flush"
      <4> DEFINE p == req[q].at
                 l == req[q].row
      <4>1. p \in Paths
        BY <3>1, FrameOf DEF FrameShape
      <4>2. /\ req[q].doc = file[p] /\ req[q].foundAt = (IF l = NoRow THEN ErrorId(p) ELSE p)
            /\ GoodRow(p, l)
            /\ l # NoRow =>
                  /\ View(q)[p] # NoRow => MergeSafe(l.doc, View(q)[p].doc, req[q].doc)
                  /\ \A z \in Requests \ {q} :
                        req[z].ok /\ tx[q][p] = Same /\ Note(tx[z][p]) =>
                            MergeSafe(l.doc, tx[z][p].doc, req[q].doc)
        BY <2>1, <3>1 DEF Indexing
      <4>3. ASSUME l # NoRow, View(q)'[p] # NoRow
            PROVE  MergeSafe(l.doc, View(q)'[p].doc, req[q].doc)
        BY <2>9, <4>1, <4>2, <4>3
      <4>4. ASSUME l # NoRow, NEW z \in Requests \ {q}, req'[z].ok, tx[q][p] = Same, Note(tx'[z][p])
            PROVE  MergeSafe(l.doc, tx'[z][p].doc, req[q].doc)
        BY <2>8, <4>1, <4>2, <4>4
      <4> QED
        BY <1>1, <2>1, <4>2, <4>3, <4>4 DEF Indexing
    <3>2. CASE req[q].pc # "flush"
      BY <1>1, <2>1, <3>2 DEF Indexing
    <3> QED
      BY <3>1, <3>2
  <2>11. Dealt(q)'
    <3> SUFFICES ASSUME req[q].cmd.kind = "reindex", req[q].ok, req[q].pc \in Past,
                        NEW x \in Paths, ~OnTheWay(q, x), x \notin req[q].todo,
                        file[x] = req[q].seen[x] \/ (file[x] # NoDoc /\ file[x].by = q)
                 PROVE  /\ View(q)'[x] # NoRow => View(q)'[x] = NoteRow(x, file[x])
                        /\ \A z \in Requests \ {q} :
                              req'[z].ok /\ tx[q][x] = Same /\ Note(tx'[z][x]) =>
                                  tx'[z][x] = NoteRow(x, file[x])
      BY <1>1, <2>1, <2>2 DEF Dealt
    <3>1. /\ View(q)[x] # NoRow => View(q)[x] = NoteRow(x, file[x])
          /\ \A z \in Requests \ {q} :
                req[z].ok /\ tx[q][x] = Same /\ Note(tx[z][x]) => tx[z][x] = NoteRow(x, file[x])
      BY <2>1 DEF Dealt
    <3> QED
      BY <2>8, <2>9, <3>1
  <2>12. Pending(q)'
    <3>1. \A x \in Paths : Note(tx[q][x]) => rows'[x] = rows[x]
      BY <1>8 DEF Held, Note
    <3> QED
      BY <1>1, <2>1, <2>2, <3>1 DEF Pending
  <2> QED
    BY <2>3, <2>4, <2>6, <2>7, <2>10, <2>11, <2>12 DEF SerialRequest
<1> QED
  BY <1>10, <1>11, <1>12, <1>13 DEF SerialFacts

LEMMA CrashSerial ==
    ASSUME FramesInv, SerialFacts, Crash
    PROVE  SerialFacts'
<1>1. /\ UNCHANGED <<load, file, rows>>
      /\ \A r \in Requests :
            /\ \A i \in RowIds : tx'[r][i] = Same
            /\ \/ req'[r] = req[r] /\ ~Running(r)
               \/ req'[r].pc = "done" /\ Carries(Idle, req'[r], {"pc", "ok"})
  BY CrashMoves
<1>2. \A r \in Requests :
         \/ req'[r] = req[r]
         \/ /\ req'[r].pc = "done" /\ req'[r].cmd.kind = "reindex" /\ req'[r].gone = {}
            /\ DOMAIN req'[r].seen = {}
  BY <1>1 DEF Carries, Idle, Reindex, Command
<1>3. \A r \in Requests : req'[r].pc \in {"idle", "done"}
  BY <1>1 DEF Running
<1>4. Stored /\ Paired
  BY DEF SerialFacts
<1>5. \A r \in Requests : \A i \in RowIds : View(r)'[i] = rows[i]
  BY <1>1 DEF View
<1>6. Stored'
  BY <1>1, <1>4 DEF Stored
<1>7. \A p \in Paths : \A q \in Requests :
         tx'[q][p] = Same /\ tx'[q][ErrorId(p)] = Same /\ ~Note(tx'[q][p]) /\ ~Held(q, p)'
         /\ (OneRow(View(q)', p) <=> OneRow(rows, p))
  BY <1>1, <1>5, Ids DEF Note, Held, OneRow
<1>8. Paired'
  BY <1>1, <1>4, <1>7, Sentinels DEF Paired
<1>9. ASSUME NEW r \in Requests PROVE SerialRequest(r)'
  <2>1. Serial(r) /\ Unwritten(r)
    BY DEF SerialFacts, SerialRequest
  <2>2. Serial(r)'
    BY <1>2, <1>3, <2>1 DEF Serial, Body
  <2>3. Unwritten(r)'
    <3>1. CASE req'[r].pc = "done"
      BY <3>1 DEF Unwritten, Body
    <3>2. CASE req'[r].pc = "idle"
      <4>1. req[r].pc = "idle"
        BY <1>2, <3>2
      <4>2. \A q \in Requests \ {r} : \A p \in DOMAIN req'[q].seen : req'[q] = req[q]
        BY <1>2
      <4> QED
        BY <1>1, <1>7, <2>1, <4>1, <4>2 DEF Unwritten
    <3> QED
      BY <1>3, <3>1, <3>2
  <2>4. Swapping(r)' /\ Writing(r)' /\ Indexing(r)' /\ Seen(r)' /\ Dealt(r)'
    BY <1>3 DEF Swapping, Writing, Indexing, Seen, Dealt, Body, Past
  <2>5. Pending(r)'
    BY <1>7 DEF Pending
  <2> QED
    BY <2>2, <2>3, <2>4, <2>5 DEF SerialRequest
<1> QED
  BY <1>6, <1>8, <1>9 DEF SerialFacts

LEMMA InitSerial == Init => SerialInv
<1> SUFFICES ASSUME Init PROVE SerialFacts
  BY DEF SerialInv
<1>1. /\ load.initial \subseteq Paths \cap Bodies
      /\ \A p \in Paths : file[p] = IF p \in load.initial THEN FirstNote(p) ELSE NoDoc
      /\ \A i \in RowIds : rows[i] = IF i \in load.initial THEN NoteRow(i, FirstNote(i)) ELSE NoRow
      /\ \A r \in Requests : req[r] = Idle /\ \A i \in RowIds : tx[r][i] = Same
  BY InitFacts
<1>2. \A p \in load.initial : /\ FirstNote(p) \in Documents /\ FirstNote(p).by = 0
                              /\ FirstNote(p).id = p /\ FirstNote(p).status = "current"
  <2>1. \A p : FirstNote(p).by = 0 /\ FirstNote(p).id = p /\ FirstNote(p).status = "current"
    BY DEF FirstNote
  <2> QED
    BY <1>1, <2>1, FirstNoteType
<1>3. \A p \in load.initial :
         /\ GoodDoc(p, FirstNote(p)) /\ FirstNote(p) # NoDoc
         /\ GoodRow(p, NoteRow(p, FirstNote(p))) /\ NoteRow(p, FirstNote(p)) # NoRow
         /\ NoteRow(p, FirstNote(p)).doc = FirstNote(p)
  <2>1. \A p \in load.initial : GoodDoc(p, FirstNote(p)) /\ FirstNote(p) # NoDoc
    BY <1>2, Sentinels DEF GoodDoc
  <2> QED
    BY <1>1, <1>2, <2>1, GoodNote, RowTypes
<1>4. Stored
  BY <1>1, <1>3 DEF Stored, GoodRow
<1>5. \A p \in Paths : /\ rows[ErrorId(p)] = NoRow
                       /\ rows[p] = NoRow <=> p \notin load.initial
                       /\ file[p] = NoDoc <=> p \notin load.initial
  BY <1>1, <1>3, Ids
<1>6. \A q \in Requests : \A i \in RowIds : View(q)[i] = rows[i]
  BY <1>1 DEF View
<1>7. \A p \in Paths : \A q \in Requests :
         tx[q][p] = Same /\ tx[q][ErrorId(p)] = Same /\ ~Note(tx[q][p]) /\ ~Held(q, p)
         /\ (OneRow(View(q), p) <=> OneRow(rows, p))
  BY <1>1, <1>6, Ids DEF Note, Held, OneRow
<1>8. Paired
  <2>1. \A p \in Paths : file[p] # NoDoc => OneRow(rows, p)
    BY <1>5 DEF OneRow
  <2> QED
    BY <1>5, <1>7, <2>1, Sentinels DEF Paired
<1>9. /\ Idle.pc = "idle" /\ Idle.cmd.kind = "reindex" /\ Idle.gone = {} /\ DOMAIN Idle.seen = {}
  BY DEF Idle, Reindex, Command
<1>10. ASSUME NEW r \in Requests PROVE SerialRequest(r)
  <2>1. Serial(r)
    BY <1>1, <1>9 DEF Serial, Body
  <2>2. Unwritten(r)
    BY <1>1, <1>2, <1>3, <1>5, <1>7, <1>9, Ids DEF Unwritten
  <2>3. Swapping(r) /\ Writing(r) /\ Indexing(r) /\ Seen(r) /\ Dealt(r)
    BY <1>1, <1>9 DEF Swapping, Writing, Indexing, Seen, Dealt, Body, Past
  <2>4. Pending(r)
    BY <1>7 DEF Pending
  <2> QED
    BY <2>1, <2>2, <2>3, <2>4 DEF SerialRequest
<1> QED
  BY <1>4, <1>8, <1>10 DEF SerialFacts

LEMMA StepSerial ==
    ASSUME FramesInv, SerialFacts, NEW r \in Requests, Step(r)
    PROVE  SerialFacts'
<1>1. req[r].pc \notin {"locate", "source"}
  BY DEF SerialFacts, SerialRequest, Serial
<1>2. CASE Enter(r) \/ Lookup(r) \/ Fence(r) \/ Check(r)
  BY <1>2, EnterSerial, LookupSerial, FenceSerial, CheckSerial
<1>3. CASE Persist(r) \/ Parse(r) \/ Load(r) \/ Flush(r) \/ FlushFails(r)
  BY <1>3, PersistSerial, ParseSerial, LoadSerial, FlushSerial, FlushFailsSerial
<1>4. CASE RecordIndexError(r) \/ PickUpsert(r) \/ MarkSuperseded(r) \/ UpdateScalars(r) \/ MarkStale(r)
  BY <1>4, RecordIndexErrorSerial, PickUpsertSerial, MarkSupersededSerial, UpdateScalarsSerial,
     MarkStaleSerial
<1>5. CASE RecordFails(r) \/ Abort(r)
  BY <1>5, RecordFailsMoves, FailSerial
<1>6. CASE ArchiveContext(r) \/ SupersedeContext(r) \/ RepairNoteRaw(r)
  BY <1>1, <1>6 DEF ArchiveContext, SupersedeContext, RepairNoteRaw
<1>7. CASE EnterReindex(r) \/ Scan(r) \/ Compile(r)
  BY <1>7, EnterReindexSerial, ScanSerial, CompileSerial
<1>8. CASE LeaveLane(r) \/ Respond(r)
  BY <1>8, LeaveLaneSerial, RespondSerial
<1> QED
  BY <1>2, <1>3, <1>4, <1>5, <1>6, <1>7, <1>8 DEF Step

LEMMA StutterSerial ==
    ASSUME SerialFacts, UNCHANGED <<file, rows, tx, lane, req>>
    PROVE  SerialFacts'
<1>1. Stored' /\ Paired'
  BY StoredKept DEF SerialFacts
<1>2. ASSUME NEW r \in Requests PROVE SerialRequest(r)'
  <2>1. /\ Serial(r) /\ Unwritten(r) /\ Swapping(r) /\ Writing(r)
        /\ Indexing(r) /\ Seen(r) /\ Dealt(r) /\ Pending(r)
    BY DEF SerialFacts, SerialRequest
  <2>2. View(r)' = View(r) /\ \A x \in Paths : OnTheWay(r, x)' <=> OnTheWay(r, x)
    BY DEF View, OnTheWay
  <2>3. Serial(r)' /\ Unwritten(r)' /\ Seen(r)'
    BY <2>1 DEF Serial, Unwritten, Seen
  <2>4. Swapping(r)' /\ Writing(r)'
    BY <2>1 DEF Swapping, Writing, Held
  <2>5. Indexing(r)' /\ Pending(r)'
    BY <2>1, <2>2 DEF Indexing, Pending
  <2>6. Dealt(r)'
    BY <2>1, <2>2 DEF Dealt
  <2> QED
    BY <2>3, <2>4, <2>5, <2>6 DEF SerialRequest
<1> QED
  BY <1>1, <1>2 DEF SerialFacts

\* The workload never changes.
LEMMA LoadKept ==
    ASSUME FramesInv, [Next \/ Served]_vars
    PROVE  UNCHANGED load
<1>1. ASSUME NEW r \in Requests, Start(r) \/ Step(r) PROVE UNCHANGED load
  BY <1>1 DEF Start, Step, Enter, Lookup, Fence, Check, Persist, Parse, Load, Flush, FlushFails,
              RecordIndexError, RecordFails, PickUpsert, MarkSuperseded, UpdateScalars, MarkStale,
              Abort, ArchiveContext, SupersedeContext, RepairNoteRaw, EnterReindex, Scan, Compile,
              LeaveLane, Respond
<1> QED
  BY <1>1 DEF Next, Served, Crash, Remove, vars

LEMMA NextSerial == FramesInv /\ SerialInv /\ [Next \/ Served]_vars => SerialInv'
<1> SUFFICES ASSUME FramesInv, SerialInv, [Next \/ Served]_vars, Serialized'
             PROVE  SerialFacts'
  BY DEF SerialInv
<1>1. Serialized /\ SerialFacts
  BY LoadKept DEF Serialized, SerialInv
<1>2. ASSUME NEW r \in Requests, Start(r) PROVE SerialFacts'
  BY <1>1, <1>2, StartSerial
<1>3. ASSUME NEW r \in Requests, Step(r) PROVE SerialFacts'
  BY <1>1, <1>3, StepSerial
<1>4. ASSUME Crash PROVE SerialFacts'
  BY <1>1, <1>4, CrashSerial
<1>5. CASE UNCHANGED vars
  BY <1>1, <1>5, StutterSerial DEF vars
<1>6. load.removable = {}
  BY <1>1 DEF Serialized
<1> QED
  BY <1>2, <1>3, <1>4, <1>5, <1>6 DEF Next, Served

LEMMA SerialAlways == Spec => []SerialInv
BY InitSerial, NextSerial, FramesAlways, PTL DEF Spec



-----------------------------------------------------------------------------
(* Requests made one after the other                                       *)

\* A request that runs is the only one, and so what the step has to keep is its own.
LEMMA SoloStep ==
    ASSUME SoloFacts, NEW r \in Requests, \A q \in Requests \ {r} : ~Running(q),
           \A q \in Requests \ {r} : req'[q] = req[q] /\ tx'[q] = tx[q],
           Honest(rows') /\ PathsUnique(rows'), Honest(View(r)') /\ PathsUnique(View(r)'),
           ~Running(r)' => tx'[r] = Untouched,
           Undisturbed(r)', Seen(r)', Progress(r)'
    PROVE  SoloFacts'
<1>1. ASSUME NEW q \in Requests \ {r} PROVE Alone(q)' /\ Undisturbed(q)' /\ Seen(q)' /\ Progress(q)'
  <2>1. req'[q] = req[q] /\ ~Running(q) /\ ~Running(q)'
    BY DEF Running
  <2>2. tx'[q] = Untouched
    BY <2>1 DEF SoloFacts, Alone
  <2>3. \A i \in RowIds : View(q)'[i] = rows'[i]
    BY <2>2 DEF View, Untouched
  <2>4. Honest(View(q)') /\ PathsUnique(View(q)')
    BY <2>3 DEF Honest, PathsUnique
  <2>5. req'[q].pc \in {"idle", "done"}
    BY <2>1 DEF Running
  <2>6. Undisturbed(q)' /\ Seen(q)' /\ Progress(q)'
    BY <2>5 DEF Undisturbed, Seen, Progress, Body, Past
  <2> QED
    BY <2>1, <2>2, <2>4, <2>6 DEF Alone
<1>2. \A q \in Requests \ {r} : ~Running(q)'
  BY DEF Running
<1>3. Alone(r)'
  BY <1>2 DEF Alone
<1> QED
  BY <1>1, <1>3 DEF SoloFacts

\* A step that writes no row.
LEMMA SoloKeeps ==
    ASSUME SoloFacts, NEW r \in Requests, Running(r), Running(r)', UNCHANGED <<rows, tx>>,
           \A q \in Requests \ {r} : req'[q] = req[q],
           Undisturbed(r)', Seen(r)', Progress(r)'
    PROVE  SoloFacts'
<1>1. \A q \in Requests \ {r} : ~Running(q)
  BY DEF SoloFacts, Alone
<1>2. View(r)' = View(r)
  BY DEF View
<1>3. Honest(rows') /\ PathsUnique(rows') /\ Honest(View(r)') /\ PathsUnique(View(r)')
  BY <1>2 DEF SoloFacts, Alone
<1> QED
  BY <1>1, <1>3, SoloStep

LEMMA FailSolo ==
    ASSUME SoloFacts, NEW r \in Requests, Running(r), Fails(r), UNCHANGED <<rows, tx>>
    PROVE  SoloFacts'
<1>1. req'[r].pc = "leave" /\ ~req'[r].ok /\ \A q \in Requests \ {r} : req'[q] = req[q]
  BY DEF Fails, Moves
<1>2. Undisturbed(r)' /\ Seen(r)' /\ Progress(r)' /\ Running(r)'
  BY <1>1 DEF Undisturbed, Seen, Progress, Body, Running
<1> QED
  BY <1>1, <1>2, SoloKeeps

LEMMA StartSolo ==
    ASSUME FramesInv, SoloFacts, ~load.overlap, NEW r \in Requests, Start(r)
    PROVE  SoloFacts'
<1>1. /\ UNCHANGED <<load, file, rows, tx, lane>> /\ req[r].pc = "idle"
      /\ req'[r].pc \in {"enter", "locate", "source"}
      /\ \A q \in Requests \ {r} : req'[q] = req[q]
  BY StartMoves
<1>2. \A q \in Requests : ~Running(q)
  BY DEF Start, MayHappen
<1>3. View(r)' = View(r)
  BY <1>1 DEF View
<1>4. Honest(rows') /\ PathsUnique(rows') /\ Honest(View(r)') /\ PathsUnique(View(r)')
  BY <1>1, <1>3 DEF SoloFacts, Alone
<1>5. Undisturbed(r)' /\ Seen(r)' /\ Progress(r)' /\ Running(r)'
  BY <1>1 DEF Undisturbed, Seen, Progress, Body, Past, Running
<1> QED
  BY <1>1, <1>2, <1>4, <1>5, SoloStep

\* The steps of save_note up to the file.
LEMMA SaveSolo ==
    ASSUME FramesInv, SoloFacts, NEW r \in Requests,
           Enter(r) \/ Lookup(r) \/ Fence(r) \/ Check(r)
    PROVE  SoloFacts'
<1>1. req[r].cmd.kind = "save" /\ Running(r) /\ UNCHANGED <<file, rows, tx>>
      /\ req[r].pc \in {"enter", "lookup", "fence", "check"}
  <2>1. UNCHANGED <<file, rows, tx>> /\ req[r].pc \in {"enter", "lookup", "fence", "check"}
        /\ (req[r].pc = "enter" => req[r].cmd.kind = "save")
    BY DEF Enter, Lookup, Fence, Check
  <2> QED
    BY <2>1, FrameOf DEF FrameShape, Running
<1>2. CASE Fails(r)
  BY <1>1, <1>2, FailSolo
<1>3. ASSUME NEW F, Moves(r, F), "cmd" \notin F, Undisturbed(r)', Running(r)'
      PROVE  SoloFacts'
  <2>1. req'[r].cmd.kind = "save" /\ \A q \in Requests \ {r} : req'[q] = req[q]
    BY <1>1, <1>3 DEF Moves, Carries
  <2>2. Seen(r)' /\ Progress(r)'
    BY <2>1 DEF Seen, Progress
  <2> QED
    BY <1>1, <1>3, <2>1, <2>2, SoloKeeps
<1>4. CASE Enter(r)
  <2>1. Moves(r, {"pc"}) /\ req'[r].pc = "lookup"
    BY <1>4, EnterMoves
  <2>2. Undisturbed(r)' /\ Running(r)'
    BY <2>1 DEF Undisturbed, Running
  <2> QED
    BY <1>3, <2>1, <2>2
<1>5. CASE Lookup(r)
  <2> DEFINE i == IdAt(View(r), req[r].at)
  <2>1. CASE /\ Moves(r, {"pc", "id", "row"}) /\ req'[r].pc = "fence"
             /\ TokenFits(req[r].cmd, req'[r].row) /\ req'[r].row = RowOf(View(r), i)
    <3>1. req'[r].cmd = req[r].cmd
      BY <2>1 DEF Moves, Carries
    <3>2. req[r].at \in Paths
      BY <1>5, <1>1, FrameOf, CommandFields DEF FrameShape
    <3>3. i \in RowIds \cup {NoId}
      BY <3>2, FrameOf, ViewType, IdAtType
    <3>4. req[r].cmd.token # NoToken =>
             /\ req'[r].row # NoRow /\ req'[r].row.doc = req'[r].row.source
             /\ req'[r].row.doc # NoDoc /\ req'[r].row.doc.body = req[r].cmd.token
      BY <2>1, <3>3 DEF TokenFits, RowOf, SoloFacts, Alone, Honest
    <3>5. Undisturbed(r)' /\ Running(r)'
      BY <2>1, <3>1, <3>4 DEF Undisturbed, Running
    <3> QED
      BY <1>3, <2>1, <3>5
  <2> QED
    BY <1>2, <1>5, <2>1, LookupMoves
<1>6. CASE Fence(r)
  <2>1. CASE /\ Moves(r, {"pc", "id", "token"}) /\ req'[r].pc = "check" /\ SourceFits(r)
             /\ req'[r].token = file[req[r].at]
    <3>1. req'[r].cmd = req[r].cmd /\ req'[r].at = req[r].at /\ req[r].pc = "fence"
      BY <1>6, <2>1 DEF Moves, Carries, Fence
    <3>2. req[r].cmd.token # NoToken => file[req[r].at].body = req[r].cmd.token
      BY <2>1, <3>1 DEF SourceFits, SoloFacts, Undisturbed
    <3>3. Undisturbed(r)' /\ Running(r)'
      BY <1>1, <2>1, <3>1, <3>2 DEF Undisturbed, Running
    <3> QED
      BY <1>3, <2>1, <3>3
  <2> QED
    BY <1>2, <1>6, <2>1, FenceMoves
<1>7. CASE Check(r)
  <2>1. CASE Moves(r, {"pc"}) /\ req'[r].pc = "leave"
    <3>1. Undisturbed(r)' /\ Running(r)'
      BY <2>1 DEF Undisturbed, Running
    <3> QED
      BY <1>3, <2>1, <3>1
  <2>2. CASE Moves(r, {"pc", "doc", "marks"}) /\ req'[r].pc = "persist"
    <3>1. /\ req'[r].cmd = req[r].cmd /\ req'[r].at = req[r].at /\ req[r].pc = "check"
          /\ req'[r].token = req[r].token
      BY <1>7, <2>2 DEF Moves, Carries, Check
    <3>2. Undisturbed(r)' /\ Running(r)'
      BY <1>1, <2>2, <3>1 DEF Undisturbed, Running, SoloFacts
    <3> QED
      BY <1>3, <2>2, <3>2
  <2> QED
    BY <1>2, <1>7, <2>1, <2>2, CheckMoves
<1> QED
  BY <1>4, <1>5, <1>6, <1>7

LEMMA PersistSolo ==
    ASSUME FramesInv, SoloFacts, NEW r \in Requests, Persist(r)
    PROVE  SoloFacts'
<1> DEFINE p == req[r].at
<1>1. /\ UNCHANGED <<load, rows, tx, lane>> /\ req[r].pc = "persist"
      /\ Moves(r, {"pc"}) /\ req'[r].pc = "parse" /\ file' = [file EXCEPT ![p] = req[r].doc]
  BY PersistMoves
<1>2. /\ \A q \in Requests \ {r} : req'[q] = req[q]
      /\ req'[r].cmd = req[r].cmd /\ req'[r].todo = req[r].todo /\ req'[r].gone = req[r].gone
      /\ req'[r].ok = req[r].ok /\ req'[r].at = p
  BY <1>1 DEF Moves, Carries
<1>3. p \in Paths /\ req[r].todo = {} /\ Running(r) /\ Running(r)'
  BY <1>1, FrameOf DEF FrameShape, Running
<1>4. \A x \in Paths \ {p} : file'[x] = file[x]
  BY <1>1, <1>3 DEF FramesInv, TypeOK
<1>5. Undisturbed(r)' /\ Seen(r)'
  BY <1>1, <1>2, <1>3 DEF Undisturbed, Seen
<1>6. View(r)' = View(r)
  BY <1>1 DEF View
<1>7. \A x \in Paths : ~OnTheWay(r, x) /\ (OnTheWay(r, x)' <=> x = p)
  BY <1>1, <1>2 DEF OnTheWay
<1>8. \A x \in Paths \ {p} : UpToDate(r, x) => UpToDate(r, x)'
  BY <1>4, <1>6 DEF UpToDate, IndexedAt
<1>9. Progress(r)'
  BY <1>1, <1>2, <1>7, <1>8 DEF Progress, Past, SoloFacts
<1> QED
  BY <1>1, <1>2, <1>3, <1>5, <1>9, SoloKeeps

\* A step of a request that writes no file and no row and is past the plan: what it
\* has dealt with stays dealt with.
LEMMA ProgressKept ==
    ASSUME SoloFacts, NEW r \in Requests, UNCHANGED <<file, rows, tx>>,
           req[r].pc \in Past, req'[r].pc \notin {"leave", "respond"} \/ req[r].pc = "leave",
           req'[r].cmd = req[r].cmd, req'[r].gone = req[r].gone, req'[r].ok => req[r].ok,
           \A x \in Paths : OnTheWay(r, x) \/ x \in req[r].todo =>
                                OnTheWay(r, x)' \/ x \in req'[r].todo
    PROVE  Progress(r)'
<1>1. View(r)' = View(r)
  BY DEF View
<1>2. \A x \in Paths : UpToDate(r, x)' <=> UpToDate(r, x)
  BY <1>1 DEF UpToDate, IndexedAt
<1> QED
  BY <1>2 DEF SoloFacts, Progress

\* The steps that write no file and no row, after the file of a note has been written.
LEMMA ReadSolo ==
    ASSUME FramesInv, SoloFacts, NEW r \in Requests,
           Parse(r) \/ Load(r) \/ FlushFails(r) \/ PickUpsert(r)
    PROVE  SoloFacts'
<1>1. req[r].pc \in {"parse", "load", "flush", "plan"} /\ UNCHANGED <<file, rows, tx>> /\ req[r].ok
  <2>1. UNCHANGED <<file, rows, tx>> /\ req[r].pc \in {"parse", "load", "flush", "plan"}
        /\ (req[r].pc = "plan" => req[r].ok)
    BY DEF Parse, Load, FlushFails, PickUpsert
  <2> QED
    BY <2>1, FrameOf DEF FrameShape
<1>2. Running(r) /\ req[r].pc \in Past /\ View(r)' = View(r)
  BY <1>1 DEF Running, Past, View
<1>3. CASE Fails(r)
  BY <1>1, <1>2, <1>3, FailSolo
<1>4. ASSUME NEW F, Moves(r, F), F \cap {"cmd", "gone", "seen"} = {},
             req'[r].pc \in {"load", "flush", "plan"}, Undisturbed(r)', Seen(r)',
             \A x \in Paths : OnTheWay(r, x) \/ x \in req[r].todo =>
                                  OnTheWay(r, x)' \/ x \in req'[r].todo
      PROVE  SoloFacts'
  <2>1. /\ \A q \in Requests \ {r} : req'[q] = req[q]
        /\ req'[r].cmd = req[r].cmd /\ req'[r].gone = req[r].gone
    BY <1>4 DEF Moves, Carries
  <2>2. Progress(r)'
    BY <1>1, <1>2, <1>4, <2>1, ProgressKept
  <2>3. Running(r)'
    BY <1>4 DEF Running
  <2> QED
    BY <1>1, <1>2, <1>4, <2>1, <2>2, <2>3, SoloKeeps
<1>5. CASE Parse(r)
  <2>1. CASE Moves(r, {"pc", "doc"}) /\ req'[r].pc = "load" /\ req'[r].doc = file[req[r].at]
    <3>1. req'[r].at = req[r].at /\ req'[r].todo = req[r].todo /\ req[r].pc = "parse"
      BY <1>5, <2>1 DEF Moves, Carries, Parse
    <3>2. req[r].todo = {}
      BY <3>1, FrameOf DEF FrameShape
    <3>3. Undisturbed(r)' /\ Seen(r)'
      BY <1>1, <2>1, <3>1, <3>2 DEF Undisturbed, Seen
    <3>4. \A x \in Paths : OnTheWay(r, x) => OnTheWay(r, x)'
      BY <2>1, <3>1 DEF OnTheWay
    <3> QED
      BY <1>4, <2>1, <3>1, <3>3, <3>4
  <2> QED
    BY <1>3, <1>5, <2>1, ParseMoves
<1>6. CASE Load(r)
  <2>1. /\ Moves(r, {"pc", "row", "foundAt"}) /\ req'[r].pc = "flush" /\ req[r].pc = "load"
        /\ req'[r].row = View(r)[req[r].doc.id] /\ req'[r].foundAt = IdAt(View(r), req[r].at)
    BY <1>6, LoadMoves
  <2>2. /\ req'[r].at = req[r].at /\ req'[r].todo = req[r].todo /\ req'[r].doc = req[r].doc
        /\ req'[r].cmd = req[r].cmd /\ req'[r].seen = req[r].seen
    BY <2>1 DEF Moves, Carries
  <2>3. Undisturbed(r)'
    BY <1>1, <1>2, <2>1, <2>2 DEF Undisturbed, SoloFacts
  <2>4. Seen(r)'
    BY <1>1, <2>1, <2>2 DEF Seen, SoloFacts, Body
  <2>5. \A x \in Paths : OnTheWay(r, x) => OnTheWay(r, x)'
    BY <2>1, <2>2 DEF OnTheWay
  <2> QED
    BY <1>4, <2>1, <2>2, <2>3, <2>4, <2>5
<1>7. CASE FlushFails(r)
  <2>1. /\ Moves(r, {"pc", "claim", "errs", "ok"}) /\ req'[r].pc = "plan" /\ req[r].pc = "flush"
        /\ req[r].at \in req'[r].errs
    BY <1>7, FlushFailsMoves
  <2>2. req'[r].todo = req[r].todo /\ req'[r].cmd = req[r].cmd /\ req'[r].seen = req[r].seen
    BY <2>1 DEF Moves, Carries
  <2>3. Undisturbed(r)'
    BY <2>1 DEF Undisturbed
  <2>4. Seen(r)'
    BY <1>1, <2>1, <2>2 DEF Seen, SoloFacts, Body
  <2>5. \A x \in Paths : OnTheWay(r, x) => OnTheWay(r, x)'
    BY <2>1 DEF OnTheWay
  <2> QED
    BY <1>4, <2>1, <2>2, <2>3, <2>4, <2>5
<1>8. CASE PickUpsert(r)
  <2> DEFINE p == req'[r].at
  <2>1. /\ req[r].pc = "plan" /\ req[r].errs = {} /\ Moves(r, {"pc", "at", "doc", "todo"})
        /\ req'[r].pc = "load" /\ p \in req[r].todo /\ req'[r].doc = req[r].seen[p]
        /\ req'[r].todo = req[r].todo \ {p}
    BY <1>8, PickUpsertMoves
  <2>2. req'[r].cmd = req[r].cmd /\ req'[r].seen = req[r].seen
    BY <2>1 DEF Moves, Carries
  <2>3. req[r].cmd.kind = "reindex" /\ DOMAIN req[r].seen = Paths /\ p \in Paths
    BY <2>1, FrameOf DEF FrameShape, Frames, Paths
  <2>4. \A x \in DOMAIN req[r].seen : req[r].seen[x] = file[x]
    BY <2>1, <2>3 DEF SoloFacts, Seen, Body
  <2>5. Undisturbed(r)' /\ Seen(r)'
    BY <1>1, <2>1, <2>2, <2>3, <2>4 DEF Undisturbed, Seen
  <2>6. \A x \in Paths : ~OnTheWay(r, x) /\ (OnTheWay(r, x)' <=> x = p)
    BY <2>1 DEF OnTheWay
  <2> QED
    BY <1>4, <2>1, <2>5, <2>6
<1> QED
  BY <1>5, <1>6, <1>7, <1>8

\* The supersede relations.
LEMMA MarkSolo ==
    ASSUME FramesInv, SoloFacts, NEW r \in Requests, MarkSuperseded(r) \/ UpdateScalars(r)
    PROVE  SoloFacts'
<1>1. /\ req[r].pc \in {"plan", "edit"} /\ UNCHANGED <<file, rows, tx>> /\ req[r].ok
      /\ req[r].todo = {} /\ \A x \in Paths : ~OnTheWay(r, x)
  <2>1. UNCHANGED <<file, rows, tx>>
        /\ ((req[r].pc = "plan" /\ req[r].ok /\ req[r].todo = {} /\ req[r].errs = {}) \/ req[r].pc = "edit")
    BY DEF MarkSuperseded, UpdateScalars
  <2> QED
    BY <2>1, FrameOf DEF FrameShape, OnTheWay
<1>2. Running(r) /\ req[r].pc \in Past
  BY <1>1 DEF Running, Past
<1>3. ASSUME NEW F, Moves(r, F), F \cap {"cmd", "gone", "seen", "todo"} = {},
             req'[r].pc \in {"edit", "persist", "plan"}, Undisturbed(r)'
      PROVE  SoloFacts'
  <2>1. /\ \A q \in Requests \ {r} : req'[q] = req[q]
        /\ req'[r].cmd = req[r].cmd /\ req'[r].gone = req[r].gone /\ req'[r].todo = req[r].todo
    BY <1>3 DEF Moves, Carries
  <2>2. Progress(r)'
    BY <1>1, <1>2, <1>3, <2>1, ProgressKept
  <2>3. Running(r)' /\ Seen(r)'
    BY <1>1, <1>3, <2>1 DEF Running, Seen
  <2> QED
    BY <1>1, <1>2, <1>3, <2>1, <2>2, <2>3, SoloKeeps
<1>4. CASE MarkSuperseded(r)
  <2>1. CASE Moves(r, {"pc", "claim", "errs", "ok", "marks"}) /\ req'[r].pc = "plan"
    <3>1. Undisturbed(r)'
      BY <2>1 DEF Undisturbed
    <3> QED
      BY <1>3, <2>1, <3>1
  <2>2. CASE Moves(r, {"marks"})
    <3>1. req'[r].pc = "plan"
      BY <1>4, <2>2, MarkSupersededMoves DEF Moves, Carries
    <3>2. Undisturbed(r)'
      BY <3>1 DEF Undisturbed
    <3> QED
      BY <1>3, <2>2, <3>1, <3>2
  <2>3. CASE /\ Moves(r, {"pc", "claim", "at", "edit", "marks"}) /\ req'[r].pc = "edit"
             /\ \E m \in Marks : req'[r].claim = m
    <3>1. req'[r].claim # NoMark
      BY <2>3, Ids DEF Marks, NoMark
    <3>2. Undisturbed(r)'
      BY <2>3, <3>1 DEF Undisturbed
    <3> QED
      BY <1>3, <2>3, <3>2
  <2> QED
    BY <1>4, <2>1, <2>2, <2>3, MarkSupersededMoves
<1>5. CASE UpdateScalars(r)
  <2>1. CASE Moves(r, {"pc", "doc"}) /\ req'[r].pc = "persist"
    <3>1. req'[r].claim = req[r].claim /\ req'[r].cmd = req[r].cmd /\ req[r].pc = "edit"
      BY <1>5, <2>1 DEF Moves, Carries, UpdateScalars
    <3>2. Undisturbed(r)'
      BY <2>1, <3>1 DEF Undisturbed, SoloFacts
    <3> QED
      BY <1>3, <2>1, <3>2
  <2>2. CASE Moves(r, {"pc", "claim", "errs", "ok"}) /\ req'[r].pc = "plan"
    <3>1. Undisturbed(r)'
      BY <2>2 DEF Undisturbed
    <3> QED
      BY <1>3, <2>2, <3>1
  <2> QED
    BY <1>5, <2>1, <2>2, UpdateScalarsMoves
<1> QED
  BY <1>4, <1>5

\* Archive, supersede and repair are no compare-and-swaps, and no reindexes.
LEMMA ContextSolo ==
    ASSUME FramesInv, SoloFacts, NEW r \in Requests,
           ArchiveContext(r) \/ SupersedeContext(r) \/ RepairNoteRaw(r)
    PROVE  SoloFacts'
<1>1. /\ UNCHANGED <<file, rows, tx>> /\ Running(r)
      /\ req[r].cmd.kind \in {"archive", "supersede", "repair"}
  <2>1. /\ UNCHANGED <<file, rows, tx>> /\ req[r].pc \in {"locate", "source"}
        /\ req[r].pc = "locate" => req[r].cmd.kind \in {"archive", "supersede"}
    BY DEF ArchiveContext, SupersedeContext, RepairNoteRaw
  <2> QED
    BY <2>1, FrameOf DEF FrameShape, Running
<1>2. req[r].cmd.token = NoToken
  BY <1>1, FrameOf DEF Commands, Archive, Supersede, Repair, Reindex, Command
<1>3. CASE Fails(r)
  BY <1>1, <1>3, FailSolo
<1>4. ASSUME NEW F, Moves(r, F), "cmd" \notin F, req'[r].pc \in {"edit", "plan", "leave", "persist"}
      PROVE  SoloFacts'
  <2>1. req'[r].cmd = req[r].cmd /\ \A q \in Requests \ {r} : req'[q] = req[q]
    BY <1>4 DEF Moves, Carries
  <2>2. Undisturbed(r)' /\ Seen(r)' /\ Progress(r)' /\ Running(r)'
    BY <1>1, <1>2, <1>4, <2>1 DEF Undisturbed, Seen, Progress, Running
  <2> QED
    BY <1>1, <2>1, <2>2, SoloKeeps
<1>5. CASE ArchiveContext(r)
  <2>1. Fails(r) \/ (Moves(r, {"pc", "at", "edit"}) /\ req'[r].pc = "edit")
    BY <1>5, ArchiveContextMoves
  <2> QED
    BY <1>3, <1>4, <2>1
<1>6. CASE SupersedeContext(r)
  <2>1. \/ Fails(r)
        \/ Moves(r, {"pc"}) /\ req'[r].pc = "leave"
        \/ Moves(r, {"pc", "at", "edit", "marks"}) /\ req'[r].pc \in {"edit", "plan"}
    BY <1>6, SupersedeContextMoves
  <2> QED
    BY <1>3, <1>4, <2>1
<1>7. CASE RepairNoteRaw(r)
  <2>1. Fails(r) \/ (Moves(r, {"pc", "doc"}) /\ req'[r].pc = "persist")
    BY <1>7, RepairNoteRawMoves
  <2> QED
    BY <1>3, <1>4, <2>1
<1> QED
  BY <1>5, <1>6, <1>7

LEMMA ScanSolo ==
    ASSUME FramesInv, SoloFacts, NEW r \in Requests, EnterReindex(r) \/ Scan(r)
    PROVE  SoloFacts'
<1>1. UNCHANGED <<file, rows, tx>> /\ Running(r) /\ req[r].pc \in {"enter", "scan"}
  BY DEF EnterReindex, Scan, Running
<1>2. CASE Fails(r)
  BY <1>1, <1>2, FailSolo
<1>3. ASSUME NEW F, Moves(r, F), req'[r].pc \in {"scan", "compile"}, Seen(r)'
      PROVE  SoloFacts'
  <2>1. \A q \in Requests \ {r} : req'[q] = req[q]
    BY <1>3 DEF Moves
  <2>2. Undisturbed(r)' /\ Progress(r)' /\ Running(r)'
    BY <1>3 DEF Undisturbed, Progress, Past, Running
  <2> QED
    BY <1>1, <1>3, <2>1, <2>2, SoloKeeps
<1>4. CASE EnterReindex(r)
  <2>1. CASE Moves(r, {"pc"}) /\ req'[r].pc = "scan"
    <3>1. DOMAIN req'[r].seen = {}
      BY <1>4, <2>1, FrameOf DEF FrameShape, Moves, Carries, EnterReindex
    <3>2. Seen(r)'
      BY <3>1 DEF Seen
    <3> QED
      BY <1>3, <2>1, <3>2
  <2> QED
    BY <1>2, <1>4, <2>1, EnterReindexMoves
<1>5. CASE Scan(r)
  <2> DEFINE p == Len(req[r].seen) + 1
  <2>1. /\ Moves(r, {"pc", "seen"}) /\ req'[r].pc \in {"scan", "compile"} /\ req[r].pc = "scan"
        /\ p \in Paths /\ req'[r].seen = Append(req[r].seen, file[p])
    BY <1>5, ScanMoves
  <2>2. req[r].seen \in Seq(Documents \cup {NoDoc}) /\ req[r].cmd.kind = "reindex"
        /\ file[p] \in Documents \cup {NoDoc}
    BY <2>1, FrameOf DEF Frames, FrameShape, FramesInv, TypeOK
  <2>3. \A x \in DOMAIN req'[r].seen :
           (x \in DOMAIN req[r].seen /\ req'[r].seen[x] = req[r].seen[x])
           \/ (x = p /\ req'[r].seen[x] = file[p])
    BY <2>1, <2>2
  <2>4. \A x \in DOMAIN req[r].seen : req[r].seen[x] = file[x]
    BY <2>1, <2>2 DEF SoloFacts, Seen, Body
  <2>5. Seen(r)'
    BY <1>1, <2>1, <2>3, <2>4 DEF Seen
  <2> QED
    BY <1>3, <2>1, <2>5
<1> QED
  BY <1>4, <1>5

LEMMA CompileSolo ==
    ASSUME FramesInv, SoloFacts, NEW r \in Requests, Compile(r)
    PROVE  SoloFacts'
<1>1. /\ UNCHANGED <<load, file, rows, tx, lane>> /\ req[r].pc = "compile"
      /\ Moves(r, {"pc", "errs", "todo", "gone"}) /\ req'[r].pc = "plan"
      /\ \A p \in Paths : req[r].seen[p] # NoDoc /\ p \notin req'[r].errs \cup req'[r].todo
                          => Unchanged(View(r), p, req[r].seen[p])
      /\ \A p \in Paths :
           p \in req'[r].gone <=> req[r].seen[p] = NoDoc /\ IndexedAt(View(r), p) # {}
  BY CompileMoves
<1>2. /\ \A q \in Requests \ {r} : req'[q] = req[q]
      /\ req'[r].cmd = req[r].cmd /\ req'[r].seen = req[r].seen
  BY <1>1 DEF Moves, Carries
<1>3. req[r].cmd.kind = "reindex" /\ DOMAIN req[r].seen = Paths
  BY <1>1, FrameOf DEF FrameShape, Frames, Paths
<1>4. \A p \in Paths : req[r].seen[p] = file[p]
  BY <1>1, <1>3 DEF SoloFacts, Seen, Body
<1>5. View(r)' = View(r) /\ PathsUnique(View(r)) /\ View(r) \in [RowIds -> Rows \cup {NoRow}]
  BY <1>1, ViewType DEF SoloFacts, Alone, FramesInv, TypeOK, View
<1>6. Undisturbed(r)' /\ Seen(r)' /\ Running(r) /\ Running(r)'
  BY <1>1, <1>2, <1>3, <1>4 DEF Undisturbed, Seen, Running
<1>7. \A p \in Paths : Unchanged(View(r), p, file[p]) => UpToDate(r, p)
  <2> SUFFICES ASSUME NEW p \in Paths, Unchanged(View(r), p, file[p]),
                      NEW i \in IndexedAt(View(r), p)
               PROVE  View(r)[i].source = file[p]
    BY DEF UpToDate
  <2>1. PICK j \in IndexedAt(View(r), p) : View(r)[j].source = file[p]
    BY DEF Unchanged
  <2>2. i \in RowIds /\ j \in RowIds /\ View(r)[i].path = p /\ View(r)[j].path = p
    BY <2>1 DEF IndexedAt
  <2>3. View(r)[i] # NoRow
    BY <2>2, Sentinels, Ids
  <2> QED
    BY <1>5, <2>1, <2>2, <2>3 DEF PathsUnique
<1>8. \A p \in Paths : \/ UpToDate(r, p) \/ p \in req'[r].errs \/ p \in req'[r].todo
                       \/ p \in req'[r].gone
  <2>1. \A p \in Paths : IndexedAt(View(r), p) = {} => UpToDate(r, p)
    BY DEF UpToDate
  <2> QED
    BY <1>1, <1>4, <1>7, <2>1
<1>9. \A p \in Paths : UpToDate(r, p)' <=> UpToDate(r, p)
  BY <1>1, <1>5 DEF UpToDate, IndexedAt
<1>10. Progress(r)'
  BY <1>1, <1>8, <1>9 DEF Progress, OnTheWay
<1> QED
  BY <1>1, <1>2, <1>6, <1>10, SoloKeeps

\* A view in which the row at key k is new, the one that was at its path is gone, and
\* nothing else has changed.
Replaces(old, new, k, p) ==
    /\ new[k].path = p /\ new[k].doc = new[k].source
    /\ \A i \in RowIds \ {k} : new[i] = old[i] \/ new[i] = NoRow
    /\ \A i \in RowIds \ {k} : new[i].path # p

LEMMA ReplacedView ==
    ASSUME NEW old \in [RowIds -> Rows \cup {NoRow}], NEW new \in [RowIds -> Rows \cup {NoRow}],
           NEW k \in RowIds, NEW p \in Paths, Replaces(old, new, k, p),
           Honest(old), PathsUnique(old)
    PROVE  Honest(new) /\ PathsUnique(new)
<1>1. Honest(new)
  BY DEF Honest, Replaces
<1>2. ASSUME NEW i \in RowIds, NEW j \in RowIds, new[i].path = new[j].path, new[i] # NoRow
      PROVE  i = j
  <2>1. new[j] # NoRow
    BY <1>2, Sentinels, Ids
  <2>2. CASE i = k \/ j = k
    BY <1>2, <2>2 DEF Replaces
  <2>3. CASE i # k /\ j # k
    BY <1>2, <2>1, <2>3 DEF Replaces, PathsUnique
  <2> QED
    BY <2>2, <2>3
<1> QED
  BY <1>1, <1>2 DEF PathsUnique

\* What is up to date at another path stays so.
LEMMA ReplacedOthers ==
    ASSUME NEW r \in Requests, NEW k \in RowIds, NEW p \in Paths,
           Replaces(View(r), View(r)', k, p), UNCHANGED file, NEW x \in Paths \ {p}, UpToDate(r, x)
    PROVE  UpToDate(r, x)'
<1> SUFFICES ASSUME NEW i \in RowIds, View(r)'[i].path = x, View(r)'[i].doc # NoDoc
             PROVE  View(r)'[i].source = file[x]
  BY DEF UpToDate, IndexedAt
<1>1. i # k /\ View(r)'[i] # NoRow
  BY Sentinels, Ids DEF Replaces
<1>2. View(r)'[i] = View(r)[i]
  BY <1>1 DEF Replaces
<1> QED
  BY <1>2 DEF UpToDate, IndexedAt

LEMMA FlushSolo ==
    ASSUME FramesInv, SoloFacts, NEW r \in Requests, Flush(r)
    PROVE  SoloFacts'
<1> DEFINE p == req[r].at
           d == req[r].doc
           l == req[r].row
           f == req[r].foundAt
<1>1. /\ FramesInv' /\ UNCHANGED <<load, file, rows, lane>> /\ req[r].pc = "flush"
      /\ Moves(r, {"pc", "claim", "marks"}) /\ req'[r].pc = "plan"
      /\ ~UpsertStuck(r) /\ (l = NoRow <=> View(r)[d.id] = NoRow) /\ Upsert(r, d, p, l, f)
  BY FlushMoves
<1>2. /\ \A q \in Requests \ {r} : req'[q] = req[q]
      /\ req'[r].cmd = req[r].cmd /\ req'[r].seen = req[r].seen /\ req'[r].gone = req[r].gone
      /\ req'[r].ok = req[r].ok /\ req'[r].todo = req[r].todo
  BY <1>1 DEF Moves, Carries
<1>3. /\ p \in Paths /\ d \in Documents /\ l \in Rows \cup {NoRow} /\ f \in RowIds \cup {NoId}
      /\ StoreTypeOK /\ StoreTypeOK'
  BY <1>1, FrameOf DEF FrameShape, Frames, FramesInv, TypeOK
<1>4. d = file[p] /\ l = View(r)[d.id] /\ d.id \in RowIds
  BY <1>1, <1>3, Sentinels DEF SoloFacts, Undisturbed
<1>5. UNCHANGED rows
  BY <1>1
<1>6. /\ \A q \in Requests \ {r} : tx'[q] = tx[q]
      /\ tx'[r][d.id] = Merge(d, p, l, View(r)[d.id]) /\ tx'[r][d.id] \in Rows
      /\ \A i \in RowIds \ {d.id} : tx'[r][i] = IF i = f THEN NoRow ELSE tx[r][i]
  <2> HIDE DEF p, d, l, f
  <2> QED
    BY <1>1, <1>3, <1>5, UpsertFacts
<1>7. tx'[r][d.id] = NoteRow(p, d)
  <2>1. MergeSafe(l.doc, View(r)[d.id].doc, d)
    BY <1>4 DEF MergeSafe
  <2> QED
    BY <1>3, <1>6, <2>1, MergeExact
<1>8. \A i \in RowIds : /\ View(r)'[i] = IF tx'[r][i] = Same THEN rows[i] ELSE tx'[r][i]
                        /\ View(r)[i] = IF tx[r][i] = Same THEN rows[i] ELSE tx[r][i]
  BY <1>3, <1>5, ViewType DEF View
<1>9. View(r)'[d.id] = NoteRow(p, d)
  BY <1>4, <1>6, <1>7, <1>8, Sentinels
<1>10. \A i \in RowIds \ {d.id} : View(r)'[i] = IF i = f THEN NoRow ELSE View(r)[i]
  BY <1>6, <1>8, Sentinels
<1>11. \A i \in RowIds \ {d.id} : View(r)'[i].path # p
  <2>1. ~UpsertClashes(r, d, p, l, f)
    BY <1>1 DEF UpsertStuck
  <2>2. \A i \in RowIds \ {d.id} : i # f => View(r)[i].path # p
    BY <2>1 DEF UpsertClashes, UpsertKeys
  <2> QED
    BY <1>3, <1>10, <2>2, Sentinels, Ids
<1>12. Replaces(View(r), View(r)', d.id, p)
  <2>1. View(r)'[d.id].path = p /\ View(r)'[d.id].doc = View(r)'[d.id].source
    BY <1>3, <1>9, RowTypes
  <2> QED
    BY <1>10, <1>11, <2>1 DEF Replaces
<1>13. View(r) \in [RowIds -> Rows \cup {NoRow}] /\ View(r)' \in [RowIds -> Rows \cup {NoRow}]
  <2>1. View(r) \in [RowIds -> Rows \cup {NoRow}]
    BY <1>3, ViewType
  <2>2. \A i \in RowIds : View(r)'[i] \in Rows \cup {NoRow}
    BY <1>4, <1>6, <1>7, <1>9, <1>10, <2>1
  <2> QED
    BY <2>1, <2>2 DEF View
<1>14. Honest(rows') /\ PathsUnique(rows') /\ Honest(View(r)) /\ PathsUnique(View(r))
  BY <1>5 DEF SoloFacts, Alone
<1>15. Honest(View(r)') /\ PathsUnique(View(r)')
  BY <1>3, <1>4, <1>12, <1>13, <1>14, ReplacedView
<1>16. \A x \in Paths : x = p => UpToDate(r, x)'
  <2> SUFFICES ASSUME NEW i \in RowIds, View(r)'[i].path = p
               PROVE  View(r)'[i].source = file[p]
    BY <1>1 DEF UpToDate, IndexedAt
  <2> QED
    BY <1>3, <1>4, <1>9, <1>11, RowTypes
<1>17. \A x \in Paths \ {p} : UpToDate(r, x) => UpToDate(r, x)'
  BY <1>1, <1>3, <1>4, <1>12, ReplacedOthers
<1>18. Progress(r)'
  <2>1. \A x \in Paths \ {p} : ~OnTheWay(r, x)
    BY <1>1 DEF OnTheWay
  <2> QED
    BY <1>1, <1>2, <1>16, <1>17, <2>1 DEF SoloFacts, Progress, Past
<1>19. Seen(r)' /\ Undisturbed(r)' /\ Running(r) /\ Running(r)'
  BY <1>1, <1>2 DEF SoloFacts, Seen, Undisturbed, Running, Body
<1>20. \A q \in Requests \ {r} : ~Running(q)
  BY <1>19 DEF SoloFacts, Alone
<1> QED
  BY <1>2, <1>6, <1>14, <1>15, <1>18, <1>19, <1>20, SoloStep

LEMMA RecordIndexErrorSolo ==
    ASSUME FramesInv, SoloFacts, NEW r \in Requests, RecordIndexError(r)
    PROVE  SoloFacts'
<1> DEFINE p == NextError(r)
           f == IdAt(View(r), p)
           k == ErrorId(p)
<1>1. /\ FramesInv' /\ UNCHANGED <<load, file, rows, lane>> /\ req[r].pc = "plan"
      /\ Moves(r, {"errs"}) /\ p \in req[r].errs /\ p \in Paths /\ req'[r].errs = req[r].errs \ {p}
      /\ RecordError(r, p)
  BY RecordIndexErrorMoves
<1> HIDE DEF p
<1>2. /\ \A q \in Requests \ {r} : req'[q] = req[q]
      /\ req'[r].cmd = req[r].cmd /\ req'[r].seen = req[r].seen /\ req'[r].gone = req[r].gone
      /\ req'[r].ok = req[r].ok /\ req'[r].pc = "plan" /\ req'[r].todo = req[r].todo
  BY <1>1 DEF Moves, Carries
<1>3. StoreTypeOK /\ View(r) \in [RowIds -> Rows \cup {NoRow}] /\ k \in RowIds
  BY <1>1, ViewType, Ids DEF FramesInv, TypeOK
<1>4. /\ \A q \in Requests \ {r} : tx'[q] = tx[q]
      /\ tx'[r][k] = ErrorRow(p)
      /\ \A i \in RowIds \ {k} : tx'[r][i] = IF i = f THEN NoRow ELSE tx[r][i]
  BY <1>1, <1>3, RecordErrorFacts
<1>5. \A i \in RowIds : /\ View(r)'[i] = IF tx'[r][i] = Same THEN rows[i] ELSE tx'[r][i]
                        /\ View(r)[i] = IF tx[r][i] = Same THEN rows[i] ELSE tx[r][i]
  BY <1>1, <1>3, ViewType DEF View
<1>6. /\ ErrorRow(p) \in Rows /\ ErrorRow(p).path = p
      /\ ErrorRow(p).doc = NoDoc /\ ErrorRow(p).source = NoDoc
  BY <1>1, RowTypes
<1>7. View(r)'[k] = ErrorRow(p)
  BY <1>3, <1>4, <1>5, <1>6, Sentinels
<1>8. \A i \in RowIds \ {k} : View(r)'[i] = IF i = f THEN NoRow ELSE View(r)[i]
  BY <1>4, <1>5, Sentinels
<1>9. Honest(rows') /\ PathsUnique(rows') /\ Honest(View(r)) /\ PathsUnique(View(r))
  BY <1>1 DEF SoloFacts, Alone
<1>10. ASSUME NEW i \in RowIds \ {k}, View(r)'[i].path = p
       PROVE  FALSE
  <2>1. i # f /\ View(r)[i].path = p
    BY <1>1, <1>8, <1>10, Sentinels, Ids
  <2>2. f \in RowIds /\ View(r)[f].path = p
    BY <1>1, <1>3, <2>1, IdAtType
  <2>3. View(r)[i] # NoRow
    BY <1>1, <2>1, Sentinels, Ids
  <2> QED
    BY <1>9, <2>1, <2>2, <2>3 DEF PathsUnique
<1>11. Replaces(View(r), View(r)', k, p)
  BY <1>6, <1>7, <1>8, <1>10 DEF Replaces
<1>12. View(r)' \in [RowIds -> Rows \cup {NoRow}]
  <2>1. \A i \in RowIds : View(r)'[i] \in Rows \cup {NoRow}
    BY <1>3, <1>6, <1>7, <1>8
  <2> QED
    BY <2>1 DEF View
<1>13. Honest(View(r)') /\ PathsUnique(View(r)')
  BY <1>1, <1>3, <1>9, <1>11, <1>12, ReplacedView
<1>14. \A x \in Paths : x = p => UpToDate(r, x)'
  <2>1. \A i \in RowIds : View(r)'[i].path = p => View(r)'[i].doc = NoDoc
    BY <1>6, <1>7, <1>10
  <2> QED
    BY <2>1 DEF UpToDate, IndexedAt
<1>15. \A x \in Paths \ {p} : UpToDate(r, x) => UpToDate(r, x)'
  BY <1>1, <1>3, <1>11, ReplacedOthers
<1>16. Progress(r)'
  <2>1. \A x \in Paths \ {p} : OnTheWay(r, x)' <=> OnTheWay(r, x)
    BY <1>1, <1>2 DEF OnTheWay
  <2> QED
    BY <1>1, <1>2, <1>14, <1>15, <2>1 DEF SoloFacts, Progress, Past
<1>17. Seen(r)' /\ Undisturbed(r)' /\ Running(r) /\ Running(r)'
  BY <1>1, <1>2 DEF SoloFacts, Seen, Undisturbed, Running, Body
<1>18. \A q \in Requests \ {r} : ~Running(q)
  BY <1>17 DEF SoloFacts, Alone
<1> QED
  BY <1>2, <1>4, <1>9, <1>13, <1>16, <1>17, <1>18, SoloStep

LEMMA MarkStaleSolo ==
    ASSUME FramesInv, SoloFacts, NEW r \in Requests, MarkStale(r)
    PROVE  SoloFacts'
<1>1. /\ FramesInv' /\ UNCHANGED <<load, file, rows, lane>>
      /\ req[r].pc = "plan" /\ req[r].ok /\ req[r].errs = {} /\ req[r].todo = {}
  BY MarkStaleMoves
<1>2. Running(r)
  BY <1>1 DEF Running
<1>3. CASE Fails(r) /\ UNCHANGED tx
  BY <1>1, <1>2, <1>3, FailSolo
<1>4. CASE /\ Moves(r, {"pc"}) /\ req'[r].pc = "leave"
           /\ \A q \in Requests \ {r} : tx'[q] = tx[q]
           /\ \A i \in RowIds : tx'[r][i] = IF i \in Dropped(r) THEN NoRow ELSE tx[r][i]
  <2>1. /\ \A q \in Requests \ {r} : req'[q] = req[q] /\ ~Running(q)
        /\ req'[r].cmd = req[r].cmd /\ req'[r].gone = req[r].gone
        /\ req'[r].ok = req[r].ok /\ req'[r].todo = req[r].todo
    BY <1>2, <1>4 DEF Moves, Carries, SoloFacts, Alone
  <2>2. StoreTypeOK
    BY DEF FramesInv, TypeOK
  <2>3. \A i \in RowIds : View(r)'[i] = IF i \in Dropped(r) THEN NoRow ELSE View(r)[i]
    <3>1. \A i \in RowIds : /\ View(r)'[i] = IF tx'[r][i] = Same THEN rows[i] ELSE tx'[r][i]
                            /\ View(r)[i] = IF tx[r][i] = Same THEN rows[i] ELSE tx[r][i]
      BY <1>1, <2>2, ViewType DEF View
    <3> QED
      BY <1>4, <3>1, Sentinels
  <2>4. Honest(rows') /\ PathsUnique(rows') /\ Honest(View(r)) /\ PathsUnique(View(r))
    BY <1>1 DEF SoloFacts, Alone
  <2>5. Honest(View(r)')
    BY <2>3, <2>4 DEF Honest
  <2>6. PathsUnique(View(r)')
    <3>1. ASSUME NEW i \in RowIds, NEW j \in RowIds, View(r)'[i].path = View(r)'[j].path,
                 View(r)'[i] # NoRow
          PROVE  i = j
      <4>1. View(r)'[i] = View(r)[i] /\ View(r)[i] \in Rows
        BY <2>2, <2>3, <3>1, ViewType
      <4>2. View(r)'[j] = View(r)[j]
        BY <2>3, <3>1, <4>1, Sentinels, Ids
      <4> QED
        BY <2>4, <3>1, <4>1, <4>2 DEF PathsUnique
    <3> QED
      BY <3>1 DEF PathsUnique
  <2>7. \A x \in Paths : UpToDate(r, x) \/ x \in req[r].gone => UpToDate(r, x)'
    <3> SUFFICES ASSUME NEW x \in Paths, UpToDate(r, x) \/ x \in req[r].gone,
                        NEW i \in RowIds, View(r)'[i].path = x, View(r)'[i].doc # NoDoc
                 PROVE  View(r)'[i].source = file[x]
      BY <1>1 DEF UpToDate, IndexedAt
    <3>1. i \notin Dropped(r) /\ View(r)'[i] = View(r)[i]
      BY <2>3, Sentinels, Ids
    <3>2. x \notin req[r].gone
      BY <3>1 DEF Dropped
    <3> QED
      BY <3>1, <3>2 DEF UpToDate, IndexedAt
  <2>8. Progress(r)'
    <3>1. \A x \in Paths : ~OnTheWay(r, x)
      BY <1>1 DEF OnTheWay
    <3> QED
      BY <1>1, <1>4, <2>1, <2>7, <3>1 DEF SoloFacts, Progress, Past
  <2>9. Seen(r)' /\ Undisturbed(r)' /\ Running(r)'
    BY <1>4 DEF Seen, Undisturbed, Running, Body
  <2> QED
    BY <1>4, <2>1, <2>4, <2>5, <2>6, <2>8, <2>9, SoloStep
<1> QED
  BY <1>3, <1>4, MarkStaleMoves

LEMMA LeaveLaneSolo ==
    ASSUME FramesInv, SoloFacts, NEW r \in Requests, LeaveLane(r)
    PROVE  SoloFacts'
<1>1. /\ UNCHANGED <<load, file, rows, tx>> /\ req[r].pc = "leave"
      /\ Moves(r, {"pc"}) /\ req'[r].pc = "respond"
  BY LeaveLaneMoves
<1>2. /\ \A q \in Requests \ {r} : req'[q] = req[q]
      /\ req'[r].cmd = req[r].cmd /\ req'[r].gone = req[r].gone
      /\ req'[r].ok = req[r].ok /\ req'[r].todo = req[r].todo
  BY <1>1 DEF Moves, Carries
<1>3. Undisturbed(r)' /\ Seen(r)' /\ Running(r) /\ Running(r)' /\ req[r].pc \in Past
  BY <1>1 DEF Undisturbed, Seen, Running, Body, Past
<1>4. \A x \in Paths : ~OnTheWay(r, x)
  BY <1>1 DEF OnTheWay
<1>5. Progress(r)'
  BY <1>1, <1>2, <1>3, <1>4, ProgressKept
<1> QED
  BY <1>1, <1>2, <1>3, <1>5, SoloKeeps

LEMMA RespondSolo ==
    ASSUME FramesInv, SoloFacts, NEW r \in Requests, Respond(r)
    PROVE  SoloFacts'
<1>1. /\ req[r].pc = "respond" /\ req'[r].pc = "done" /\ tx'[r] = Untouched
      /\ \A i \in RowIds : tx'[r][i] = Same
      /\ \A q \in Requests \ {r} : req'[q] = req[q] /\ tx'[q] = tx[q]
      /\ rows' = rows \/ rows' = View(r)
  BY RespondMoves
<1>2. Running(r) /\ \A q \in Requests \ {r} : ~Running(q)
  BY <1>1 DEF SoloFacts, Alone, Running
<1>3. Honest(rows') /\ PathsUnique(rows')
  BY <1>1 DEF SoloFacts, Alone
<1>4. \A i \in RowIds : View(r)'[i] = rows'[i]
  BY <1>1 DEF View
<1>5. Honest(View(r)') /\ PathsUnique(View(r)')
  BY <1>3, <1>4 DEF Honest, PathsUnique
<1>6. Undisturbed(r)' /\ Seen(r)' /\ Progress(r)'
  BY <1>1 DEF Undisturbed, Seen, Progress, Body, Past
<1> QED
  BY <1>1, <1>2, <1>3, <1>5, <1>6, SoloStep

\* Nobody is running: what is stored is all there is.
LEMMA NobodySolo ==
    ASSUME Honest(rows) /\ PathsUnique(rows),
           \A r \in Requests : ~Running(r) /\ tx[r] = Untouched
    PROVE  SoloFacts
<1>1. ASSUME NEW r \in Requests PROVE Alone(r) /\ Undisturbed(r) /\ Seen(r) /\ Progress(r)
  <2>1. \A i \in RowIds : View(r)[i] = rows[i]
    BY DEF View, Untouched
  <2>2. Honest(View(r)) /\ PathsUnique(View(r))
    BY <2>1 DEF Honest, PathsUnique
  <2>3. req[r].pc \in {"idle", "done"}
    BY DEF Running
  <2>4. Undisturbed(r) /\ Seen(r) /\ Progress(r)
    BY <2>3 DEF Undisturbed, Seen, Progress, Body, Past
  <2> QED
    BY <2>2, <2>4 DEF Alone
<1> QED
  BY <1>1 DEF SoloFacts

LEMMA CrashSolo ==
    ASSUME FramesInv, SoloFacts, Crash
    PROVE  SoloFacts'
<1>1. /\ UNCHANGED rows
      /\ \A r \in Requests : /\ tx'[r] = Untouched
                             /\ (req'[r] = req[r] /\ ~Running(r)) \/ req'[r].pc = "done"
  BY CrashMoves
<1>2. Honest(rows') /\ PathsUnique(rows')
  BY <1>1 DEF SoloFacts
<1>3. \A r \in Requests : ~Running(r)'
  BY <1>1 DEF Running
<1>4. (/\ Honest(rows) /\ PathsUnique(rows)
       /\ \A r \in Requests : ~Running(r) /\ tx[r] = Untouched)'
  BY <1>1, <1>2, <1>3
<1> QED
  BY <1>4, NobodySolo, PTL

LEMMA RemoveSolo ==
    ASSUME FramesInv, SoloFacts, ~load.overlap, NEW p \in load.removable, Remove(p)
    PROVE  SoloFacts'
<1>1. UNCHANGED <<rows, tx, req>> /\ MayHappen
  BY RemoveMoves
<1>2. \A r \in Requests : ~Running(r) /\ tx[r] = Untouched
  BY <1>1 DEF MayHappen, SoloFacts, Alone
<1>3. (/\ Honest(rows) /\ PathsUnique(rows)
       /\ \A r \in Requests : ~Running(r) /\ tx[r] = Untouched)'
  BY <1>1, <1>2 DEF SoloFacts, Running
<1> QED
  BY <1>3, NobodySolo, PTL

LEMMA InitSolo == Init => SoloInv
<1> SUFFICES ASSUME Init PROVE SoloFacts
  BY DEF SoloInv
<1>1. /\ load.initial \subseteq Paths \cap Bodies
      /\ \A i \in RowIds : rows[i] = IF i \in load.initial THEN NoteRow(i, FirstNote(i)) ELSE NoRow
      /\ \A r \in Requests : req[r] = Idle /\ tx[r] = Untouched
  BY InitFacts
<1>2. \A p \in load.initial : /\ NoteRow(p, FirstNote(p)).path = p
                              /\ NoteRow(p, FirstNote(p)).doc = NoteRow(p, FirstNote(p)).source
  BY <1>1, FirstNoteType, RowTypes
<1>3. Honest(rows)
  BY <1>1, <1>2 DEF Honest
<1>4. PathsUnique(rows)
  <2>1. \A i \in RowIds : rows[i] # NoRow => i \in load.initial /\ rows[i].path = i
    BY <1>1, <1>2
  <2>2. \A i \in RowIds : i # NoRow.path
    BY Sentinels, Ids DEF NoId
  <2> QED
    BY <2>1, <2>2 DEF PathsUnique
<1>5. \A r \in Requests : ~Running(r)
  BY <1>1, IdleFrame DEF Running
<1> QED
  BY <1>1, <1>3, <1>4, <1>5, NobodySolo

LEMMA StepSolo ==
    ASSUME FramesInv, SoloFacts, NEW r \in Requests, Step(r)
    PROVE  SoloFacts'
<1>1. CASE Enter(r) \/ Lookup(r) \/ Fence(r) \/ Check(r)
  BY <1>1, SaveSolo
<1>2. CASE Persist(r) \/ Flush(r) \/ RecordIndexError(r) \/ MarkStale(r)
  BY <1>2, PersistSolo, FlushSolo, RecordIndexErrorSolo, MarkStaleSolo
<1>3. CASE Parse(r) \/ Load(r) \/ FlushFails(r) \/ PickUpsert(r)
  BY <1>3, ReadSolo
<1>4. CASE RecordFails(r) \/ Abort(r)
  <2>1. Running(r) /\ Fails(r) /\ UNCHANGED <<rows, tx>>
    BY <1>4, RecordFailsMoves DEF Running
  <2> QED
    BY <2>1, FailSolo
<1>5. CASE MarkSuperseded(r) \/ UpdateScalars(r)
  BY <1>5, MarkSolo
<1>6. CASE ArchiveContext(r) \/ SupersedeContext(r) \/ RepairNoteRaw(r)
  BY <1>6, ContextSolo
<1>7. CASE EnterReindex(r) \/ Scan(r) \/ Compile(r)
  BY <1>7, ScanSolo, CompileSolo
<1>8. CASE LeaveLane(r) \/ Respond(r)
  BY <1>8, LeaveLaneSolo, RespondSolo
<1> QED
  BY <1>1, <1>2, <1>3, <1>4, <1>5, <1>6, <1>7, <1>8 DEF Step

LEMMA StutterSolo ==
    ASSUME SoloFacts, UNCHANGED vars
    PROVE  SoloFacts'
<1>1. ASSUME NEW r \in Requests PROVE Alone(r)' /\ Undisturbed(r)' /\ Seen(r)' /\ Progress(r)'
  <2>1. View(r)' = View(r) /\ Alone(r) /\ Undisturbed(r) /\ Seen(r) /\ Progress(r)
    BY DEF View, vars, SoloFacts
  <2>2. Alone(r)' /\ Undisturbed(r)' /\ Seen(r)'
    BY <2>1 DEF Alone, Undisturbed, Seen, vars, Running
  <2>3. \A x \in Paths : (UpToDate(r, x)' <=> UpToDate(r, x)) /\ (OnTheWay(r, x)' <=> OnTheWay(r, x))
    BY <2>1 DEF UpToDate, IndexedAt, OnTheWay, vars
  <2>4. Progress(r)'
    BY <2>1, <2>3 DEF Progress, vars
  <2> QED
    BY <2>2, <2>4
<1>2. Honest(rows') /\ PathsUnique(rows')
  BY DEF SoloFacts, vars
<1> QED
  BY <1>1, <1>2 DEF SoloFacts

LEMMA NextSolo == FramesInv /\ SoloInv /\ [Next \/ Served]_vars => SoloInv'
<1> SUFFICES ASSUME FramesInv, SoloInv, [Next \/ Served]_vars, ~load'.overlap
             PROVE  SoloFacts'
  BY DEF SoloInv
<1>1. ~load.overlap /\ SoloFacts
  BY LoadKept DEF SoloInv
<1>2. ASSUME NEW r \in Requests, Start(r) PROVE SoloFacts'
  BY <1>1, <1>2, StartSolo
<1>3. ASSUME NEW r \in Requests, Step(r) PROVE SoloFacts'
  BY <1>1, <1>3, StepSolo
<1>4. ASSUME Crash PROVE SoloFacts'
  BY <1>1, <1>4, CrashSolo
<1>5. ASSUME NEW p \in load.removable, Remove(p) PROVE SoloFacts'
  BY <1>1, <1>5, RemoveSolo
<1>6. CASE UNCHANGED vars
  BY <1>1, <1>6, StutterSolo
<1> QED
  BY <1>2, <1>3, <1>4, <1>5, <1>6 DEF Next, Served

LEMMA SoloAlways == Spec => []SoloInv
BY InitSolo, NextSolo, FramesAlways, PTL DEF Spec

-----------------------------------------------------------------------------
(* The theorems                                                            *)

LEMMA HonestRows ==
    ASSUME FramesInv, SerialInv, SoloInv
    PROVE  RowHonest
<1>1. ASSUME Serialized, NEW i \in RowIds, rows[i] # NoRow PROVE rows[i].doc = rows[i].source
  <2>1. GoodRow(i, rows[i])
    BY <1>1 DEF SerialInv, SerialFacts, Stored
  <2>2. CASE i \in Paths
    BY <1>1, <2>1, <2>2, NoteAt
  <2>3. CASE i \notin Paths
    BY <1>1, <2>1, <2>3, RowTypes DEF GoodRow
  <2> QED
    BY <2>2, <2>3
<1>2. ASSUME ~load.overlap PROVE RowHonestAlways
  BY <1>2 DEF SoloInv, SoloFacts, Honest, RowHonestAlways
<1> QED
  BY <1>1, <1>2 DEF RowHonest, RowHonestAlways, Isolated

\* Among requests that serialize in the lane, and among requests made one after the
\* other, every committed row that carries the hash of a text has the columns of that
\* text, for any number of paths, requests and contents: the ORM's merge of columns
\* (_upsert_note) never mixes two texts, although sessions commit after they have left
\* the lane (database_session_middleware).
THEOREM NoteRowHonest == Spec => []RowHonest
BY HonestRows, FramesAlways, SerialAlways, SoloAlways, PTL

LEMMA NothingStaleNow ==
    ASSUME FramesInv, SerialInv, SoloInv
    PROVE  NothingStale
<1> SUFFICES ASSUME Isolated, NEW r \in Requests, Ending(r), NEW p \in Paths,
                    file[p] = req[r].seen[p] \/ (file[p] # NoDoc /\ file[p].by = r),
                    NEW i \in IndexedAt(View(r), p)
             PROVE  View(r)[i] = NoteRow(p, file[p])
  BY DEF NothingStale, NothingStaleAlways
<1>1. /\ req[r].pc = "respond" /\ req[r].ok /\ req[r].cmd.kind = "reindex" /\ req[r].todo = {}
      /\ req[r].pc \in Past /\ ~OnTheWay(r, p)
  BY FrameOf DEF Ending, FrameShape, Past, OnTheWay
<1>2. i \in RowIds /\ View(r)[i].path = p /\ View(r)[i].doc # NoDoc
  BY DEF IndexedAt
<1>3. View(r)[i] \in Rows
  BY <1>2, FrameOf, ViewType, Sentinels, Ids
<1>4. CASE Serialized
  <2>1. SerialFacts /\ Stored /\ Dealt(r)
    BY <1>4 DEF SerialInv, SerialFacts, SerialRequest
  <2>2. i = p
    BY <1>2, <1>3, <2>1, GoodViews, RowAt, Sentinels
  <2> QED
    BY <1>1, <1>3, <2>1, <2>2, Sentinels DEF Dealt
<1>5. CASE ~load.overlap
  <2>1. Progress(r) /\ Honest(View(r))
    BY <1>5 DEF SoloInv, SoloFacts, Alone
  <2>2. UpToDate(r, p)
    BY <1>1, <2>1 DEF Progress
  <2>3. View(r)[i].source = file[p] /\ View(r)[i].doc = file[p]
    BY <1>2, <1>3, <2>1, <2>2, Sentinels DEF UpToDate, Honest
  <2> QED
    BY <1>2, <1>3, <2>3 DEF Rows, NoteRow
<1> QED
  BY <1>4, <1>5 DEF Isolated

\* A reindex among requests that serialize in the lane, or that are made one after the
\* other, leaves nothing stale behind when it succeeds: at every path whose file is as
\* the scan found it, or as the reindex itself has edited it, the note that its session
\* commits is made from that file, although sessions that had left the lane before it
\* entered commit while it runs (_reindex_serialized, document_action).
THEOREM NoteNothingStale == Spec => []NothingStale
BY NothingStaleNow, FramesAlways, SerialAlways, SoloAlways, PTL

LEMMA ReplacesTheToken ==
    ASSUME SerialInv, SoloInv, Isolated, NEW r \in Requests
    PROVE  ReplacesToken(r)
<1> SUFFICES ASSUME req[r].pc = "persist", req[r].cmd.token # NoToken, req[r].claim = NoMark
             PROVE  file[req[r].at] = req[r].token /\ file[req[r].at].body = req[r].cmd.token
  BY DEF ReplacesToken
<1>1. CASE Serialized
  BY <1>1 DEF SerialInv, SerialFacts, SerialRequest, Swapping
<1>2. CASE ~load.overlap
  BY <1>2 DEF SoloInv, SoloFacts, Undisturbed
<1> QED
  BY <1>1, <1>2 DEF Isolated

\* A compare-and-swap replaces the document that its fence has verified, with the body
\* that the client's token names, and nothing else, whichever of the other requests of
\* the lane has committed by then (_save_note_serialized with
\* _validate_expected_source_state).
THEOREM NoteCasExact == Spec => CasExact
<1>1. SerialInv /\ SoloInv => [Isolated => \A r \in Requests : ReplacesToken(r)]_vars
  BY ReplacesTheToken
<1> QED
  BY <1>1, SerialAlways, SoloAlways, PTL DEF CasExact
=============================================================================
