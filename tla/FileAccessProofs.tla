--------------------------- MODULE FileAccessProofs ----------------------------
(***************************************************************************)
(* Proofs about FileAccess, for any requests, jobs, paths, trees and       *)
(* contents of archives: whatever requests and jobs do at the same time,   *)
(*   - what is in the tree stays in directories of the tree;               *)
(*   - a path changes only by an actor at work on a request that names it; *)
(*   - a request whose command reports an error changed nothing, but for   *)
(*     what cannot be undone;                                              *)
(*   - no answer carries more of a file than max_ops_file_size;            *)
(*   - head, tail and view answer with the documented range;               *)
(*   - a request that is told of success finds its effect in the tree;     *)
(*   - a transfer by the streamer replaces nothing.                        *)
(* They rest on one inductive invariant, TypeInv /\ ControlInv: what nodes, *)
(* processes and answers may be, and which of a request's process and      *)
(* answer, or of a job's process and state, go together. Each theorem adds *)
(* what it needs.                                                          *)
(***************************************************************************)
EXTENDS FileAccess, TLAPS, SequenceTheorems, FiniteSetTheorems, WellFoundedInduction

-----------------------------------------------------------------------------
(* Paths and their prefixes.                                                *)

Path == Seq(STRING)

LEMMA PrefixMeans ==
    ASSUME NEW p \in Path, NEW q \in Path
    PROVE  IsPrefix(p, q) <=> Len(p) <= Len(q) /\ \A i \in 1 .. Len(p) : p[i] = q[i]
<1>1. Len(p) \in Nat /\ Len(q) \in Nat
  BY DEF Path
<1>2. SubSeq(p, 1, Len(p)) = [i \in 1 .. Len(p) |-> p[i]]
  BY <1>1 DEF Path
<1>3. Len(p) <= Len(q) => SubSeq(q, 1, Len(p)) = [i \in 1 .. Len(p) |-> q[i]]
  BY <1>1 DEF Path
<1>4. [i \in 1 .. Len(p) |-> p[i]] = [i \in 1 .. Len(p) |-> q[i]]
        <=> \A i \in 1 .. Len(p) : p[i] = q[i]
  OBVIOUS
<1> QED
  BY <1>1, <1>2, <1>3, <1>4 DEF IsPrefix

LEMMA PrefixOrder ==
    ASSUME NEW p \in Path
    PROVE  /\ IsPrefix(p, p)
           /\ IsPrefix(Root, p)
           /\ \A q, r \in Path : IsPrefix(p, q) /\ IsPrefix(q, r) => IsPrefix(p, r)
           /\ \A q \in Path : IsPrefix(p, q) /\ IsPrefix(q, p) => p = q
           /\ \A q \in Path : IsPrefix(p, q) /\ Len(p) = Len(q) => p = q
           /\ \A q, r \in Path : IsPrefix(q, p) /\ IsPrefix(r, p) /\ Len(q) <= Len(r) => IsPrefix(q, r)
<1>1. IsPrefix(p, p)
  BY PrefixMeans DEF Path
<1>2. IsPrefix(Root, p)
  <2>1. Root \in Path /\ Len(Root) = 0
    BY DEF Path, Root
  <2>2. Len(p) \in Nat /\ 1 .. Len(Root) = {}
    BY <2>1 DEF Path
  <2>3. IsPrefix(Root, p) <=> Len(Root) <= Len(p) /\ \A i \in 1 .. Len(Root) : Root[i] = p[i]
    BY <2>1, PrefixMeans
  <2> QED
    BY <2>1, <2>2, <2>3
<1>3. ASSUME NEW q \in Path, NEW r \in Path, IsPrefix(p, q), IsPrefix(q, r) PROVE IsPrefix(p, r)
  BY <1>3, PrefixMeans DEF Path
<1>4. ASSUME NEW q \in Path, IsPrefix(p, q), Len(p) = Len(q) PROVE p = q
  BY <1>4, PrefixMeans, SeqEqual DEF Path
<1>5. ASSUME NEW q \in Path, IsPrefix(p, q), IsPrefix(q, p) PROVE p = q
  <2>1. Len(p) \in Nat /\ Len(q) \in Nat
    BY DEF Path
  <2> QED
    BY <1>4, <1>5, <2>1, PrefixMeans
<1>6. ASSUME NEW q \in Path, NEW r \in Path, IsPrefix(q, p), IsPrefix(r, p), Len(q) <= Len(r)
      PROVE  IsPrefix(q, r)
  <2>1. Len(p) \in Nat /\ Len(q) \in Nat /\ Len(r) \in Nat
    BY DEF Path
  <2>2. \A i \in 1 .. Len(q) : q[i] = p[i]
    BY <1>6, PrefixMeans
  <2>3. \A i \in 1 .. Len(r) : r[i] = p[i]
    BY <1>6, PrefixMeans
  <2>4. \A i \in 1 .. Len(q) : q[i] = r[i]
    BY <1>6, <2>1, <2>2, <2>3
  <2> QED
    BY <1>6, <2>4, PrefixMeans
<1> QED
  BY <1>1, <1>2, <1>3, <1>4, <1>5, <1>6

LEMMA Beginning ==
    ASSUME NEW p \in Path, NEW l \in 0 .. Len(p)
    PROVE  /\ SubSeq(p, 1, l) \in Path /\ Len(SubSeq(p, 1, l)) = l
           /\ \A i \in 1 .. l : SubSeq(p, 1, l)[i] = p[i]
           /\ IsPrefix(SubSeq(p, 1, l), p)
<1>1. Len(p) \in Nat
  BY DEF Path
<1>2. /\ SubSeq(p, 1, l) \in Path /\ Len(SubSeq(p, 1, l)) = l
      /\ \A i \in 1 .. l : SubSeq(p, 1, l)[i] = p[i]
  BY <1>1, SubSeqProperties DEF Path
<1>3. Len(SubSeq(p, 1, l)) <= Len(p)
  BY <1>1, <1>2
<1>4. \A i \in 1 .. Len(SubSeq(p, 1, l)) : SubSeq(p, 1, l)[i] = p[i]
  BY <1>2
<1> QED
  BY <1>2, <1>3, <1>4, PrefixMeans

LEMMA PrefixesMean ==
    ASSUME NEW p \in Path
    PROVE  \A q : q \in Prefixes(p) <=> q \in Path /\ IsPrefix(q, p)
<1>1. Len(p) \in Nat
  BY DEF Path
<1>3. ASSUME NEW q \in Prefixes(p) PROVE q \in Path /\ IsPrefix(q, p)
  <2>1. PICK l \in 0 .. Len(p) : q = SubSeq(p, 1, l)
    BY DEF Prefixes
  <2> QED
    BY <2>1, Beginning
<1>4. ASSUME NEW q \in Path, IsPrefix(q, p) PROVE q \in Prefixes(p)
  <2>1. Len(q) \in 0 .. Len(p)
    BY <1>1, <1>4, PrefixMeans DEF Path
  <2>2. q = SubSeq(p, 1, Len(q))
    <3>1. \A i \in 1 .. Len(q) : q[i] = SubSeq(p, 1, Len(q))[i]
      BY <1>4, <2>1, PrefixMeans, Beginning
    <3> QED
      BY <2>1, <3>1, Beginning, SeqEqual DEF Path
  <2> QED
    BY <2>1, <2>2 DEF Prefixes
<1> QED
  BY <1>3, <1>4

\* The prefixes of the directory of a path are its proper prefixes.
LEMMA PrefixesOfFront ==
    ASSUME NEW p \in Path, p # Root
    PROVE  /\ Front(p) \in Path /\ IsPrefix(Front(p), p) /\ Len(Front(p)) = Len(p) - 1
           /\ Prefixes(Front(p)) = Prefixes(p) \ { p }
<1>1. Len(p) \in Nat \ {0}
  BY DEF Path, Root
<1>2. /\ Front(p) \in Path /\ Len(Front(p)) = Len(p) - 1
      /\ \A i \in 1 .. Len(p) - 1 : Front(p)[i] = p[i]
  <2>1. Len(p) - 1 \in 0 .. Len(p)
    BY <1>1
  <2> QED
    BY <2>1, Beginning DEF Front
<1>3. IsPrefix(Front(p), p)
  BY <1>1, <1>2, PrefixMeans
<1>4. ASSUME NEW q \in Path
      PROVE  IsPrefix(q, Front(p)) <=> IsPrefix(q, p) /\ q # p
  <2>1. Len(q) \in Nat
    BY DEF Path
  <2>2. ASSUME IsPrefix(q, Front(p)) PROVE IsPrefix(q, p) /\ q # p
    <3>1. Len(q) <= Len(Front(p))
      BY <2>2, <1>2, PrefixMeans
    <3>2. IsPrefix(q, p)
      BY <1>2, <1>3, <2>2, PrefixOrder
    <3> QED
      BY <1>1, <1>2, <2>1, <3>1, <3>2
  <2>3. ASSUME IsPrefix(q, p), q # p PROVE IsPrefix(q, Front(p))
    <3>1. Len(q) <= Len(p)
      BY <2>3, PrefixMeans
    <3>2. Len(q) # Len(p)
      BY <2>3, PrefixOrder
    <3>3. Len(q) <= Len(Front(p))
      BY <1>1, <1>2, <2>1, <3>1, <3>2
    <3> QED
      BY <1>2, <1>3, <2>3, <3>3, PrefixOrder
  <2> QED
    BY <2>2, <2>3
<1>5. \A q : q \in Prefixes(Front(p)) <=> q \in Prefixes(p) /\ q # p
  BY <1>2, <1>4, PrefixesMean
<1> QED
  BY <1>2, <1>3, <1>5

LEMMA Concatenation ==
    ASSUME NEW p \in Path, NEW q \in Path
    PROVE  /\ p \o q \in Path /\ Len(p \o q) = Len(p) + Len(q) /\ IsPrefix(p, p \o q)
           /\ IsPrefix(p, q) => /\ Relative(p, q) \in Path /\ q = p \o Relative(p, q)
                                /\ Len(Relative(p, q)) = Len(q) - Len(p)
           /\ Relative(p, q) \in Path
<1>1. Len(p) \in Nat /\ Len(q) \in Nat
  BY DEF Path
<1>2. /\ p \o q \in Path /\ Len(p \o q) = Len(p) + Len(q)
      /\ \A i \in 1 .. Len(p) : (p \o q)[i] = p[i]
  BY <1>1, ConcatProperties DEF Path
<1>3. IsPrefix(p, p \o q)
  <2>1. Len(p) <= Len(p \o q) /\ \A i \in 1 .. Len(p) : p[i] = (p \o q)[i]
    BY <1>1, <1>2
  <2> QED
    BY <1>2, <2>1, PrefixMeans
<1>4. Relative(p, q) \in Path
  BY <1>1, SubSeqProperties DEF Path, Relative
<1>5. ASSUME IsPrefix(p, q)
      PROVE  q = p \o Relative(p, q) /\ Len(Relative(p, q)) = Len(q) - Len(p)
  <2> DEFINE r == Relative(p, q)
  <2>1. Len(p) <= Len(q) /\ \A i \in 1 .. Len(p) : p[i] = q[i]
    BY <1>5, PrefixMeans
  <2>2. /\ Len(r) = Len(q) - Len(p)
        /\ \A i \in 1 .. Len(q) - Len(p) : r[i] = q[Len(p) + i]
    BY <1>1, <2>1, SubSeqProperties DEF Path, Relative
  <2>3. /\ p \o r \in Path /\ Len(p \o r) = Len(q)
        /\ \A i \in 1 .. Len(q) : (p \o r)[i] = IF i <= Len(p) THEN p[i] ELSE r[i - Len(p)]
    BY <1>1, <1>4, <2>1, <2>2, ConcatProperties DEF Path
  <2>4. \A i \in 1 .. Len(q) : q[i] = (p \o r)[i]
    BY <1>1, <2>1, <2>2, <2>3
  <2> QED
    BY <2>2, <2>3, <2>4, SeqEqual DEF Path
<1> QED
  BY <1>2, <1>3, <1>4, <1>5

-----------------------------------------------------------------------------
(* Trees: what is at a path, and what archives hold.                        *)

LEMMA PathsArePaths ==
    /\ Paths \subseteq Path
    /\ Cwd \in Path
    /\ Root \in Path
    /\ \A p \in Paths : p # Root /\ Prefixes(p) \subseteq Paths \cup { Root }
<1>1. Root \in Path
  BY DEF Path, Root
<1>2. Paths \subseteq Path
  BY PathsAssumption DEF Path
<1> QED
  BY <1>1, <1>2, PathsAssumption

\* The members of an archive, down to those of the archives in it.
GoodMember(m) ==
    /\ m.name \in Path /\ m.kind \in Kinds /\ m.data \in Seq(Nat) /\ m.to \in Paths \cup { Root }
    /\ m.kind = "link" => m.to # Root

GoodHolds(h) == \E X : h \subseteq X /\ \A m \in X : GoodMember(m) /\ m.holds \subseteq X

LEMMA HoldsNothing == GoodHolds({})
<1> DEFINE X == {}
<1>1. {} \subseteq X /\ \A m \in X : GoodMember(m) /\ m.holds \subseteq X
  OBVIOUS
<1> HIDE DEF X
<1> QED
  BY <1>1 DEF GoodHolds

LEMMA Held ==
    ASSUME NEW h, GoodHolds(h), NEW m \in h
    PROVE  GoodMember(m) /\ GoodHolds(m.holds)
<1>1. PICK X : h \subseteq X /\ \A x \in X : GoodMember(x) /\ x.holds \subseteq X
  BY DEF GoodHolds
<1>2. m.holds \subseteq X
  BY <1>1
<1> QED
  BY <1>1, <1>2 DEF GoodHolds

LEMMA HoldsMore ==
    ASSUME NEW h, GoodHolds(h), NEW m, GoodMember(m), GoodHolds(m.holds)
    PROVE  GoodHolds(h \cup { m })
<1>1. PICK X : h \subseteq X /\ \A x \in X : GoodMember(x) /\ x.holds \subseteq X
  BY DEF GoodHolds
<1>2. PICK Y : m.holds \subseteq Y /\ \A x \in Y : GoodMember(x) /\ x.holds \subseteq Y
  BY DEF GoodHolds
<1> DEFINE Z == (X \cup Y) \cup { m }
<1>3. h \cup { m } \subseteq Z
  BY <1>1
<1>4. \A x \in Z : GoodMember(x) /\ x.holds \subseteq Z
  BY <1>1, <1>2
<1> QED
  BY <1>3, <1>4 DEF GoodHolds

NodeFields == { "kind", "data", "to", "holds", "open", "id" }

GoodNode(n) ==
    /\ DOMAIN n = NodeFields
    /\ n.kind \in Kinds /\ n.data \in Seq(Nat) /\ n.to \in Paths \cup { Root }
    /\ n.kind = "link" => n.to # Root
    /\ n.open \in BOOLEAN
    /\ GoodHolds(n.holds)

GoodTree(t) == DOMAIN t = Paths /\ \A q \in Paths : GoodNode(t[q])

LEMMA NewNode ==
    ASSUME NEW kind \in Kinds, NEW by, NEW at
    PROVE  /\ DOMAIN New(kind, by, at) = NodeFields
           /\ New(kind, by, at).kind = kind /\ New(kind, by, at).data = << >>
           /\ New(kind, by, at).to = Root /\ New(kind, by, at).holds = {}
           /\ New(kind, by, at).open = TRUE
           /\ kind # "link" => GoodNode(New(kind, by, at))
<1>1. << >> \in Seq(Nat)
  OBVIOUS
<1> QED
  BY <1>1, HoldsNothing DEF New, Absent, NodeFields, GoodNode, Root

LEMMA AbsentNode == GoodNode(Absent) /\ Absent.kind = "absent"
<1>1. << >> \in Seq(Nat)
  OBVIOUS
<1> QED
  BY <1>1, HoldsNothing DEF Absent, NodeFields, GoodNode, Root, Kinds

LEMMA FileWith ==
    ASSUME NEW by, NEW at, NEW data \in Seq(Nat)
    PROVE  GoodNode([New("file", by, at) EXCEPT !.data = data])
<1>1. "file" \in Kinds
  BY DEF Kinds, FileKinds
<1>2. ASSUME NEW n, GoodNode(n) PROVE GoodNode([n EXCEPT !.data = data])
  BY <1>2 DEF GoodNode, NodeFields
<1> QED
  BY <1>1, <1>2, NewNode

LEMMA LinkTo ==
    ASSUME NEW by, NEW at, NEW to \in Paths
    PROVE  GoodNode([New("link", by, at) EXCEPT !.to = to])
<1>1. "link" \in Kinds /\ << >> \in Seq(Nat) /\ to # Root
  BY PathsArePaths DEF Kinds
<1> QED
  BY <1>1, HoldsNothing DEF GoodNode, NodeFields, New, Absent

LEMMA Changed ==
    ASSUME NEW t, GoodTree(t), NEW q, NEW n, q \in Paths => GoodNode(n)
    PROVE  GoodTree([t EXCEPT ![q] = n])
BY DEF GoodTree

LEMMA Opened ==
    ASSUME NEW t, GoodTree(t), NEW q, NEW open \in BOOLEAN
    PROVE  GoodTree([t EXCEPT ![q].open = open])
<1>1. q \in Paths => GoodNode([t[q] EXCEPT !.open = open])
  BY DEF GoodTree, GoodNode, NodeFields
<1> QED
  BY <1>1, Changed

LEMMA RealPath ==
    ASSUME NEW t, GoodTree(t), NEW p \in Paths \cup { Root }
    PROVE  /\ Real(t, p) \in Paths \cup { Root }
           /\ p \in Paths => Real(t, p) \in Paths
BY DEF Real, GoodTree, GoodNode

LEMMA IntoPath ==
    ASSUME NEW t, GoodTree(t), NEW p \in Paths, NEW target \in Paths \cup { Root }
    PROVE  Into(t, p, target) \in Path
<1>1. Real(t, target) \in Path
  BY RealPath, PathsArePaths
<1>2. Last(p) \in STRING
  <2>1. p \in Path /\ Len(p) \in Nat \ {0}
    BY PathsArePaths DEF Path, Root
  <2> QED
    BY <2>1 DEF Path, Last
<1>3. Append(Real(t, target), Last(p)) \in Path
  BY <1>1, <1>2 DEF Path
<1> QED
  BY <1>3, PathsArePaths DEF Into

-----------------------------------------------------------------------------
(* What a command reports when it begins.                                   *)

GoodOut(out) ==
    DOMAIN out = { "bytes", "names" } /\ out.bytes \in Seq(Nat) /\ IsFiniteSet(out.names)

\* What a command that begins leaves to be done.
GoodResult(r) ==
    /\ GoodTree(r.tree)
    /\ r.left \subseteq Path /\ r.dest \in Path /\ GoodHolds(r.cargo) /\ GoodOut(r.out)

LEMMA Reports ==
    ASSUME NEW t, GoodTree(t), NEW errs
    PROVE  /\ GoodResult(Fails(t, errs))
           /\ \A left : left \subseteq Path => GoodResult(Did(t, left, errs))
           /\ \A bytes, names : bytes \in Seq(Nat) /\ IsFiniteSet(names)
                                  => GoodResult(Shows(t, errs, bytes, names))
           /\ \A did : GoodResult(did) => GoodResult(Unless(t, errs, did))
           /\ \A changed, path : GoodTree(changed) /\ path \in Path
                                   => GoodResult(AndList(t, errs, changed, path))
<1>1. ASSUME NEW t2, GoodTree(t2), NEW left, left \subseteq Path, NEW e
      PROVE  GoodResult(Did(t2, left, e))
  <2>1. << >> \in Seq(Nat) /\ << >> \in Path
    BY DEF Path
  <2>2. GoodOut(NoOut)
    BY <2>1, FS_EmptySet DEF GoodOut, NoOut
  <2> QED
    BY <1>1, <2>1, <2>2, HoldsNothing DEF GoodResult, Did
<1>2. \A e : GoodResult(Fails(t, e))
  BY <1>1 DEF Fails
<1>3. ASSUME NEW bytes \in Seq(Nat), NEW names, IsFiniteSet(names)
      PROVE  GoodResult(Shows(t, errs, bytes, names))
  <2>1. GoodOut([bytes |-> bytes, names |-> names])
    BY <1>3 DEF GoodOut
  <2>2. \A out : GoodOut(out) => GoodResult([Fails(t, errs) EXCEPT !.out = out])
    BY <1>2 DEF GoodResult, Fails, Did
  <2>3. GoodOut(NoOut)
    BY <1>2 DEF GoodResult, Fails, Did
  <2> QED
    BY <2>1, <2>2, <2>3 DEF Shows
<1>4. \A did : GoodResult(did) => GoodResult(Unless(t, errs, did))
  BY <1>2 DEF Unless
<1>5. ASSUME NEW changed, GoodTree(changed), NEW path \in Path
      PROVE  GoodResult(AndList(t, errs, changed, path))
  BY <1>1, <1>2, <1>5 DEF AndList
<1> QED
  BY <1>1, <1>2, <1>3, <1>4, <1>5

LEMMA Places ==
    ASSUME NEW t
    PROVE  /\ \A p : Under(t, p) \subseteq Paths /\ Visited(t, p) \subseteq Under(t, p)
           /\ \A a : Matching(t, a) \subseteq Paths
BY DEF Under, Visited, Matching

LEMMA TruncateTyped ==
    ASSUME NEW t, GoodTree(t), NEW q \in Path, NEW kind \in { "file", "cut" }, NEW me
    PROVE  GoodResult(Truncate(t, q, kind, me))
<1> DEFINE new == [t EXCEPT ![q] = [New(kind, me, q) EXCEPT !.id = IF t[q].kind = "absent" THEN @ ELSE t[q].id]]
           fd == IF t[q].kind = "absent" THEN [by |-> me, at |-> q] ELSE t[q].id
<1>1. \A id : GoodNode([New(kind, me, q) EXCEPT !.id = id])
  <2>1. kind \in Kinds
    BY DEF Kinds, FileKinds
  <2>2. GoodNode(New(kind, me, q))
    BY <2>1, NewNode
  <2> QED
    BY <2>2 DEF GoodNode, NodeFields
<1>2. GoodNode([New(kind, me, q) EXCEPT !.id = IF t[q].kind = "absent" THEN @ ELSE t[q].id])
  BY <1>1
<1>3. GoodTree(new)
  BY <1>2, Changed
<1>4. GoodResult(Did(new, { q }, {}))
  BY <1>3, Reports
<1>5. \A id : GoodResult([Did(new, { q }, {}) EXCEPT !.fd = id])
  BY <1>4 DEF GoodResult, Did
<1> QED
  BY <1>5 DEF Truncate

LEMMA MkdirTyped ==
    ASSUME NEW t, GoodTree(t), NEW a \in AskTypes, NEW me
    PROVE  GoodResult(Mkdir(t, a, me))
<1>1. ASSUME NEW made PROVE GoodTree([q \in Paths |-> IF q \in made THEN New("dir", me, q) ELSE t[q]])
  <2>1. \A q : GoodNode(New("dir", me, q))
    BY NewNode DEF Kinds
  <2> QED
    BY <2>1 DEF GoodTree
<1>2. a.path \in Path
  BY PathsArePaths DEF AskTypes
<1> QED
  BY <1>1, <1>2, Reports DEF Mkdir

LEMMA SymlinkTyped ==
    ASSUME NEW t, GoodTree(t), NEW a \in AskTypes, NEW me
    PROVE  GoodResult(Symlink(t, a, me))
<1>1. a.path \in Paths /\ a.to \in Path
  BY PathsArePaths DEF AskTypes
<1>2. \A at : GoodTree([t EXCEPT ![at] = [New("link", me, at) EXCEPT !.to = a.path]])
  BY <1>1, LinkTo, Changed
<1> QED
  BY <1>1, <1>2, Reports DEF Symlink

LEMMA CompressTyped ==
    ASSUME NEW t, GoodTree(t), NEW a \in AskTypes, NEW me
    PROVE  GoodResult(Compress(t, a, me))
<1>1. a.path \in Path /\ a.path # Root /\ Real(t, a.to) \in Path
  BY PathsArePaths, RealPath DEF AskTypes
<1>2. Base(t, a) \in Path
  BY <1>1, PathsArePaths, PrefixesOfFront DEF Base
<1>3. Matching(t, a) \subseteq Path
  BY Places, PathsArePaths
<1>4. \A r, left, errs, dest : GoodResult(r) /\ left \subseteq Path /\ dest \in Path
         /\ { "tree", "left", "dest", "cargo", "out" } \subseteq DOMAIN r
         => GoodResult([r EXCEPT !.left = left, !.errs = errs, !.dest = dest])
  BY DEF GoodResult
<1>5. \A q \in Path : /\ GoodResult(Truncate(t, q, "cut", me))
                      /\ { "tree", "left", "dest", "cargo", "out" } \subseteq DOMAIN Truncate(t, q, "cut", me)
  BY TruncateTyped DEF Truncate, Did
<1> QED
  BY <1>1, <1>2, <1>3, <1>4, <1>5, Reports DEF Compress

\* Every entry that is left is a member of what is carried there.
Carried(r) == \A q \in r.left : \E m \in r.cargo : r.dest \o m.name = q

LEMMA ExtractTyped ==
    ASSUME NEW t, GoodTree(t), NEW a \in AskTypes
    PROVE  /\ GoodResult(Extract(t, a))
           /\ Carried(Extract(t, a))
<1>1. a.to \in Path /\ Real(t, a.path) \in Paths
  BY PathsArePaths, RealPath DEF AskTypes
<1> DEFINE x == t[Real(t, a.path)]
           did == [Did(t, { a.to \o m.name : m \in x.holds }, {}) EXCEPT !.dest = a.to, !.cargo = x.holds]
<1>2. GoodHolds(x.holds)
  BY <1>1 DEF GoodTree, GoodNode
<1>3. { a.to \o m.name : m \in x.holds } \subseteq Path
  <2>1. ASSUME NEW m \in x.holds PROVE a.to \o m.name \in Path
    <3>1. m.name \in Path
      BY <1>2, Held DEF GoodMember
    <3> QED
      BY <1>1, <3>1, Concatenation
  <2> QED
    BY <2>1
<1>4. /\ GoodResult(did)
      /\ Carried(did)
  <2>1. GoodResult(Did(t, { a.to \o m.name : m \in x.holds }, {}))
    BY <1>3, Reports
  <2> QED
    BY <1>1, <1>2, <1>3, <2>1 DEF GoodResult, Did, Carried
<1>5. ASSUME NEW errs
      PROVE  /\ GoodResult(Fails(t, errs)) /\ Fails(t, errs).left = {}
             /\ GoodResult(Unless(t, errs, did))
             /\ Carried(Fails(t, errs)) /\ Carried(Unless(t, errs, did))
  <2>1. GoodResult(Fails(t, errs)) /\ Fails(t, errs).left = {}
    BY Reports DEF Fails, Did
  <2> HIDE DEF did
  <2>2. Carried(Fails(t, errs))
    BY <2>1 DEF Carried
  <2> QED
    BY <1>4, <2>1, <2>2 DEF Unless
<1>6. Extract(t, a) = Unless(t, Readable(t, a.path),
          Unless(t, OrElse(When(x.kind # "tar", "This does not look like a tar archive"),
                           OrElse(Reach(t, a.to), IF Dir(t, Real(t, a.to)) THEN Shut(t, a.to) ELSE { NotDir })),
                 did))
  BY Zenon DEF Extract
<1>7. Extract(t, a) = did \/ \E errs : Extract(t, a) = Fails(t, errs)
  BY <1>6 DEF Unless
<1> QED
  BY <1>4, <1>5, <1>7

LEMMA MvTyped ==
    ASSUME NEW t, GoodTree(t), NEW a
    PROVE  GoodResult(Mv(t, a))
<1>1. \A at : GoodTree([q \in Paths |->
                           IF IsPrefix(at, q) /\ a.path \o Relative(at, q) \in Paths
                           THEN t[a.path \o Relative(at, q)]
                           ELSE IF IsPrefix(a.path, q) THEN Absent ELSE t[q]])
  BY AbsentNode DEF GoodTree
<1> QED
  BY <1>1, Reports DEF Mv

LEMMA CpTyped ==
    ASSUME NEW t, GoodTree(t), NEW a \in AskTypes
    PROVE  GoodResult(Cp(t, a))
<1>1. \A left, errs, at : left \subseteq Path /\ at \in Path
        => GoodResult([Did(t, left, errs) EXCEPT !.dest = at])
  <2>1. \A left, errs : left \subseteq Path => GoodResult(Did(t, left, errs))
    BY Reports
  <2> QED
    BY <2>1 DEF GoodResult, Did
<1>2. Into(t, a.path, a.to) \in Path
  BY IntoPath DEF AskTypes
<1>3. Visited(t, a.path) \subseteq Path
  BY Places, PathsArePaths
<1> QED
  BY <1>1, <1>2, <1>3, Reports DEF Cp

LEMMA PathsFinite == \A S : S \subseteq Paths => IsFiniteSet(S)
BY PathsAssumption, FS_Subset

LEMMA Part ==
    ASSUME NEW s \in Seq(Nat), NEW m \in Int, NEW n \in Int, m >= 1, n <= Len(s)
    PROVE  /\ SubSeq(s, m, n) \in Seq(Nat)
           /\ Len(SubSeq(s, m, n)) = IF m <= n THEN n - m + 1 ELSE 0
           /\ \A i \in 1 .. n - m + 1 : SubSeq(s, m, n)[i] = s[m + i - 1]
<1>1. \A i \in m .. n : s[i] \in Nat
  OBVIOUS
<1> QED
  BY <1>1, SubSeqProperties

LEMMA KeptBounds ==
    ASSUME NEW s \in Seq(Nat), NEW n \in Nat, NEW inLines \in BOOLEAN
    PROVE  Kept(s, n, inLines) \in 0 .. Len(s)
<1>1. Len(s) \in Nat
  OBVIOUS
<1>2. CASE inLines
  <2> DEFINE T == { i \in 1 .. Len(s) : Ended(s, i) < n }
  <2>1. IsFiniteSet(1 .. Len(s)) /\ Cardinality(1 .. Len(s)) = Len(s)
    <3>1. Cardinality(1 .. Len(s)) = IF 1 > Len(s) THEN 0 ELSE Len(s) - 1 + 1
      BY <1>1, FS_Interval
    <3>2. IsFiniteSet(1 .. Len(s))
      BY <1>1, FS_Interval
    <3> QED
      BY <1>1, <3>1, <3>2
  <2>2. IsFiniteSet(T) /\ Cardinality(T) <= Cardinality(1 .. Len(s)) /\ Cardinality(T) \in Nat
    <3>1. T \subseteq 1 .. Len(s)
      OBVIOUS
    <3> HIDE DEF T
    <3> QED
      BY <2>1, <3>1, FS_Subset, FS_CardinalityType
  <2> QED
    BY <1>2, <2>1, <2>2, <1>1 DEF Kept
<1>3. CASE ~inLines
  BY <1>1, <1>3 DEF Kept
<1> QED
  BY <1>2, <1>3

LEMMA FirstAndSkip ==
    ASSUME NEW s \in Seq(Nat), NEW n \in Nat, NEW inLines \in BOOLEAN
    PROVE  First(s, n, inLines) \in Seq(Nat) /\ Skip(s, n, inLines) \in Seq(Nat)
<1>1. Kept(s, n, inLines) \in Nat /\ Kept(s, n, inLines) <= Len(s) /\ Len(s) \in Nat
  BY KeptBounds
<1> QED
  BY <1>1, Part DEF First, Skip

LEMMA SizeIsNat ==
    ASSUME NEW s \in Seq(Nat), NEW inLines \in BOOLEAN
    PROVE  Size(s, inLines) \in Nat
<1>1. Len(s) \in Nat
  OBVIOUS
<1> DEFINE T == { j \in 1 .. (Len(s) + 1) - 1 : s[j] = NL }
<1>2. IsFiniteSet(1 .. (Len(s) + 1) - 1) /\ T \subseteq 1 .. (Len(s) + 1) - 1
  BY <1>1, FS_Interval
<1>3. Cardinality(T) \in Nat
  BY <1>2, FS_Subset, FS_CardinalityType
<1>4. Ended(s, Len(s) + 1) \in Nat
  BY <1>3 DEF Ended
<1> QED
  BY <1>1, <1>4 DEF Size, LineCount

LEMMA NumberIsNat == \A a \in AskTypes : Number(a) \in Nat /\ Number(a) >= 1 /\ InLines(a) \in BOOLEAN
BY DEF AskTypes, Number, InLines

LEMMA SliceTyped ==
    ASSUME NEW s \in Seq(Nat), NEW from \in Nat, NEW size \in Int
    PROVE  Slice(s, from, size) \in Seq(Nat)
<1>1. Len(s) \in Nat
  OBVIOUS
<1>2. CASE Len(s) < from + size
  BY <1>1, <1>2, Part DEF Slice
<1>3. CASE ~(Len(s) < from + size)
  <2>1. from + size <= Len(s) /\ from + size \in Int /\ from + 1 \in Int /\ from + 1 >= 1
    BY <1>1, <1>3
  <2> QED
    BY <1>3, <2>1, Part DEF Slice
<1> QED
  BY <1>2, <1>3

\* dd is asked for blocks that begin in the file or behind it.
LEMMA BlockStart ==
    ASSUME NEW m \in Nat, NEW n \in Nat \ {0}
    PROVE  /\ m \div n \in Nat /\ (m \div n) * n \in Nat
           /\ m % n \in 0 .. n - 1 /\ m = (m \div n) * n + (m % n)
<1>1. m \div n \in Int /\ m % n \in 0 .. n - 1 /\ m = n * (m \div n) + (m % n)
  <2>1. m \div n \in Int
    OBVIOUS
  <2>2. m % n \in 0 .. n - 1
    OBVIOUS
  <2>3. m = n * (m \div n) + (m % n)
    OBVIOUS
  <2> QED
    BY <2>1, <2>2, <2>3
<1> DEFINE k == m \div n
           r == m % n
<1>2. k >= 0
  <2>1. ASSUME k <= -1 PROVE FALSE
    <3>1. n * k <= -n
      BY <1>1, <2>1
    <3> QED
      BY <1>1, <3>1
  <2> QED
    BY <1>1, <2>1
<1>3. k * n = n * k /\ k * n >= 0
  BY <1>1, <1>2
<1> QED
  BY <1>1, <1>2, <1>3

\* What the requests with a range are refused for.
Within(a) == a.op = "view" => ~ViewRefused(a)

LEMMA ReadBytesTyped ==
    ASSUME NEW s \in Seq(Nat), NEW a \in AskTypes, Within(a)
    PROVE  ReadBytes(s, a) \in Seq(Nat)
<1>1. Number(a) \in Nat /\ Number(a) - 1 \in Nat /\ InLines(a) \in BOOLEAN
  BY NumberIsNat
<1>2. Minus(Size(s, InLines(a)), Number(a)) \in Nat
  BY <1>1, SizeIsNat DEF Minus
<1>3. HeadOf(s, a) \in Seq(Nat) /\ TailOf(s, a) \in Seq(Nat)
  BY <1>1, <1>2, FirstAndSkip DEF HeadOf, TailOf
<1>4. ASSUME a.op = "view" PROVE TwoBlocks(s, a) \in Seq(Nat)
  <2>1. a.offset \in Nat /\ a.bytes \in Nat \ {0}
    BY <1>4 DEF Within, ViewRefused, AskTypes
  <2>2. \A m \in Nat, n \in Nat \ {0} : (m \div n) * n \in Nat
    BY BlockStart
  <2>3. (a.offset \div a.bytes) * a.bytes \in Nat
    BY <2>1, <2>2
  <2>4. 2 * a.bytes \in Int
    BY <2>1
  <2> QED
    BY <2>3, <2>4, SliceTyped DEF TwoBlocks
<1> QED
  BY <1>3, <1>4, Zenon DEF ReadBytes

LEMMA ReadTyped ==
    ASSUME NEW t, GoodTree(t), NEW a \in AskTypes, Within(a)
    PROVE  GoodResult(Read(t, a))
<1>1. Real(t, a.path) \in Paths
  BY RealPath DEF AskTypes
<1>2. t[Real(t, a.path)].data \in Seq(Nat)
  BY <1>1 DEF GoodTree, GoodNode
<1>3. ReadBytes(t[Real(t, a.path)].data, a) \in Seq(Nat)
  BY <1>2, ReadBytesTyped
<1> QED
  BY <1>3, Reports, FS_EmptySet DEF Read

LEMMA LsTyped ==
    ASSUME NEW t, GoodTree(t), NEW a \in AskTypes
    PROVE  GoodResult(Ls(t, a))
<1> DEFINE dir == Dir(t, a.path)
           shown == IF ~dir THEN { a.path }
                    ELSE IF a.flag THEN Visited(t, a.path) \ { a.path } ELSE Children(t, a.path)
           names == { q \in shown : a.word = "all" \/ Last(q) \notin Dotted }
<1>1. shown \subseteq Paths
  BY DEF Visited, Children, Under, AskTypes
<1>2. IsFiniteSet(names)
  <2>1. names \subseteq Paths
    BY <1>1
  <2> QED
    BY <2>1, PathsFinite
<1>3. << >> \in Seq(Nat)
  OBVIOUS
<1> HIDE DEF names
<1>4. \A errs : GoodResult(Shows(t, errs, << >>, names))
  BY <1>2, <1>3, Reports
<1>5. \E errs, errs2 : Ls(t, a) = Unless(t, errs2, Shows(t, errs, << >>, names))
  BY Zenon DEF Ls, names
<1> QED
  BY <1>4, <1>5, Reports

\* Entries of the tree that a command goes through.
TreeOperations == { "rm", "compress", "cp" }

LEMMA LeftInTree ==
    ASSUME NEW t, NEW a, a.op \in TreeOperations, NEW me
    PROVE  Begin(t, a, me).left \subseteq Paths
<1>1. \A t2, left, errs : Did(t2, left, errs).left = left /\ Fails(t2, errs).left = {}
  BY DEF Did, Fails
<1>2. Rm(t, a).left \subseteq Paths
  BY <1>1, Places DEF Rm, Unless
<1>3. Compress(t, a, me).left \subseteq Paths
  <2>1. \A q : "left" \in DOMAIN Truncate(t, q, "cut", me)
    BY DEF Truncate, Did
  <2> QED
    BY <1>1, <2>1, Places DEF Compress, Unless
<1>4. Cp(t, a).left \subseteq Paths
  <2>1. \A left, errs, at : [Did(t, left, errs) EXCEPT !.dest = at].left = left
    BY DEF Did
  <2> QED
    BY <1>1, <2>1, Places DEF Cp, Unless
<1> QED
  BY <1>2, <1>3, <1>4, Zenon DEF Begin, TreeOperations

LEMMA BeginTyped ==
    ASSUME NEW t, GoodTree(t), NEW a \in AskTypes, Within(a), NEW me
    PROVE  /\ GoodResult(Begin(t, a, me))
           /\ a.op = "extract" => Carried(Begin(t, a, me))
<1>0. a.path \in Paths /\ a.path \in Path
  BY PathsArePaths DEF AskTypes
<1>1. GoodResult(Chmod(t, a))
  BY <1>0, Opened, Reports DEF Chmod
<1>2. GoodResult(Chown(t, a))
  BY <1>0, Reports DEF Chown
<1>3. GoodResult(Rm(t, a))
  <2>1. Visited(t, a.path) \subseteq Path
    BY Places, PathsArePaths
  <2> QED
    BY <2>1, Reports DEF Rm
<1>4. GoodResult(Upload(t, a, me))
  <2>1. Real(t, a.path) \in Path
    BY <1>0, RealPath, PathsArePaths
  <2> QED
    BY <2>1, TruncateTyped, Reports DEF Upload
<1>5. GoodResult(WormholeReceive(t, a))
  <2>1. GoodTree([q \in Paths |-> IF IsPrefix(a.path, q) THEN Absent ELSE t[q]])
    BY AbsentNode DEF GoodTree
  <2> QED
    BY <1>0, <2>1, Reports DEF WormholeReceive
<1>6. GoodResult(Receive(t, a)) /\ GoodResult(Send(t, a))
  BY <1>0, Reports DEF Receive, Send
<1>7. GoodResult(FileType(t, a)) /\ GoodResult(Stat(t, a))
  <2>1. << >> \in Seq(Nat) /\ IsFiniteSet({ a.path } \cap Paths) /\ IsFiniteSet({ a.path })
    BY <1>0, PathsFinite
  <2> QED
    BY <2>1, Reports DEF FileType, Stat
<1>8. Begin(t, a, me) = Extract(t, a) \/ (a.op # "extract" /\ GoodResult(Begin(t, a, me)))
  BY <1>1, <1>2, <1>3, <1>4, <1>5, <1>6, <1>7, MkdirTyped, SymlinkTyped, CompressTyped, MvTyped,
     CpTyped, ReadTyped, LsTyped, Zenon DEF Begin
<1>9. CASE Begin(t, a, me) = Extract(t, a)
  BY <1>9, ExtractTyped, Zenon
<1> QED
  BY <1>8, <1>9

Fields == { "state", "ask", "left", "at", "errs", "fd", "dest", "cargo", "out" }

GoodProc(p) ==
    /\ DOMAIN p = Fields
    /\ p.ask \in AskTypes /\ Within(p.ask)
    /\ p.left \subseteq Path /\ p.dest \in Path /\ GoodHolds(p.cargo) /\ GoodOut(p.out)
    /\ p.at \in 0 .. Len(p.ask.data)
    /\ p.ask.op = "extract" => Carried(p)
    /\ p.ask.op \in TreeOperations => p.left \subseteq Paths

\* A process after one step: what it is for stays.
GoodStep(r, p) ==
    /\ GoodTree(r.tree)
    /\ GoodProc(r.proc)
    /\ r.proc.ask = p.ask /\ r.proc.fd = p.fd /\ r.proc.dest = p.dest /\ r.proc.cargo = p.cargo
    /\ r.proc.left \subseteq p.left

LEMMA SteppedTyped ==
    ASSUME NEW t, GoodTree(t), NEW p, GoodProc(p), NEW q, NEW errs
    PROVE  /\ GoodStep(Stepped(p, q, t, errs), p)
           /\ \A t2 : GoodTree(t2) => GoodStep(Step(p, q, t, errs, t2), p)
<1>1. ASSUME NEW t2, GoodTree(t2) PROVE GoodStep(Stepped(p, q, t2, errs), p)
  BY <1>1 DEF Stepped, GoodStep, GoodProc, Fields, Carried
<1> QED
  BY <1>1 DEF Step

LEMMA PutTyped ==
    ASSUME NEW t, GoodTree(t), NEW fd, NEW i \in Nat \ {0}, NEW byte \in Nat
    PROVE  GoodTree(Put(t, fd, i, byte))
<1> SUFFICES ASSUME NEW q \in Paths, q \in At(t, fd) PROVE GoodNode(Put(t, fd, i, byte)[q])
  BY DEF GoodTree, Put
<1> DEFINE old == t[q].data
           n == IF Len(old) < i THEN i ELSE Len(old)
           data == [j \in 1 .. n |-> IF j = i THEN byte ELSE IF j <= Len(old) THEN old[j] ELSE NL]
<1>1. GoodNode(t[q]) /\ old \in Seq(Nat) /\ Len(old) \in Nat
  BY DEF GoodTree, GoodNode
<1>2. data \in Seq(Nat)
  <2>1. n \in Nat
    BY <1>1
  <2>2. \A j \in 1 .. n : (IF j = i THEN byte ELSE IF j <= Len(old) THEN old[j] ELSE NL) \in Nat
    BY <1>1 DEF NL
  <2>3. data \in [1 .. n -> Nat]
    BY <2>2
  <2> HIDE DEF data, n
  <2> QED
    BY <2>1, <2>3, SeqDef
<1>3. "file" \in Kinds
  BY DEF Kinds, FileKinds
<1>4. Put(t, fd, i, byte)[q] = [t[q] EXCEPT !.kind = "file", !.holds = {}, !.data = data]
  BY <1>1 DEF Put, GoodNode, NodeFields
<1> HIDE DEF data
<1> QED
  BY <1>1, <1>2, <1>3, <1>4, HoldsNothing DEF GoodNode, NodeFields

LEMMA AskOfProc ==
    ASSUME NEW p, GoodProc(p)
    PROVE  /\ p.ask.path \in Paths /\ p.ask.path \in Path
           /\ p.ask.to \in Paths \cup { Root } /\ p.ask.to \in Path
           /\ p.ask.data \in Seq(Nat) /\ p.ask.flag \in BOOLEAN
BY PathsArePaths DEF GoodProc, AskTypes

LEMMA RmEntryTyped ==
    ASSUME NEW t, GoodTree(t), NEW p, GoodProc(p), NEW q
    PROVE  GoodStep(RmEntry(t, p, q), p)
<1>1. GoodTree([t EXCEPT ![q] = Absent])
  BY AbsentNode, Changed
<1> QED
  BY <1>1, SteppedTyped DEF RmEntry

LEMMA WriteByteTyped ==
    ASSUME NEW t, GoodTree(t), NEW p, GoodProc(p), CanGoOn(p), p.ask.op = "upload", NEW q
    PROVE  GoodStep(WriteByte(t, p, q), p)
<1>1. p.at + 1 \in Nat \ {0} /\ p.at + 1 \in 1 .. Len(p.ask.data)
  BY AskOfProc DEF GoodProc, CanGoOn
<1>2. p.ask.data[p.at + 1] \in Nat
  BY <1>1, AskOfProc
<1>3. GoodTree(Put(t, p.fd, p.at + 1, p.ask.data[p.at + 1]))
  BY <1>1, <1>2, PutTyped
<1>4. \A left \in { {}, p.left } : GoodProc([p EXCEPT !.at = @ + 1, !.left = left])
  BY <1>1 DEF GoodProc, Fields, Carried
<1>5. GoodProc(WriteByte(t, p, q).proc)
  BY <1>4 DEF WriteByte
<1>6. /\ WriteByte(t, p, q).proc.ask = p.ask /\ WriteByte(t, p, q).proc.fd = p.fd
      /\ WriteByte(t, p, q).proc.dest = p.dest /\ WriteByte(t, p, q).proc.cargo = p.cargo
      /\ WriteByte(t, p, q).proc.left \subseteq p.left
  BY DEF WriteByte, GoodProc, Fields
<1> QED
  BY <1>3, <1>5, <1>6 DEF WriteByte, GoodStep

LEMMA ReplaceFileTyped ==
    ASSUME NEW t, GoodTree(t), NEW p, GoodProc(p), NEW q, NEW me
    PROVE  GoodStep(ReplaceFile(t, p, q, me), p) /\ GoodStep(CreateFile(t, p, q, me), p)
<1>1. GoodTree([t EXCEPT ![q] = [New("file", me, q) EXCEPT !.data = p.ask.data]])
  BY AskOfProc, FileWith, Changed
<1> QED
  BY <1>1, SteppedTyped DEF ReplaceFile, CreateFile

LEMMA StoreTyped ==
    ASSUME NEW t, GoodTree(t), NEW fd, NEW m, GoodMember(m), GoodHolds(m.holds)
    PROVE  GoodTree(Store(t, fd, m))
<1> SUFFICES ASSUME NEW q \in Paths
             PROVE  GoodNode([t[q] EXCEPT !.holds = @ \cup { m }])
  BY DEF GoodTree, Store
<1>1. GoodNode(t[q])
  BY DEF GoodTree
<1>2. GoodHolds(t[q].holds \cup { m })
  BY <1>1, HoldsMore DEF GoodNode
<1>3. \A h : GoodHolds(h) => GoodNode([t[q] EXCEPT !.holds = h])
  BY <1>1 DEF GoodNode, NodeFields
<1> QED
  BY <1>2, <1>3

LEMMA AddMemberTyped ==
    ASSUME NEW t, GoodTree(t), NEW p, GoodProc(p), p.ask.op = "compress", NEW q \in p.left
    PROVE  GoodStep(AddMember(t, p, q), p)
<1> DEFINE from == IF p.ask.flag THEN Real(t, q) ELSE q
           more == [p EXCEPT !.out.names = @ \cup { q }]
           added == Stepped(more, q, Store(t, p.fd, Member(t, p, q)), {})
<1>1. AddMember(t, p, q) = added \/ \E errs : AddMember(t, p, q) = Stepped(p, q, t, errs)
  BY Zenon DEF AddMember
<1>2. q \in Paths /\ q \in Path /\ p.dest \in Path
  BY PathsArePaths DEF GoodProc, TreeOperations
<1>3. from \in Paths
  BY <1>2, RealPath
<1>4. GoodNode(t[from])
  BY <1>3 DEF GoodTree
<1>5. Relative(p.dest, q) \in Path
  BY <1>2, Concatenation
<1>6. GoodMember(Member(t, p, q)) /\ GoodHolds(Member(t, p, q).holds)
  BY <1>4, <1>5 DEF GoodNode, GoodMember, Member
<1>7. GoodTree(Store(t, p.fd, Member(t, p, q)))
  BY <1>6, StoreTyped
<1>8. GoodProc(more) /\ more.ask = p.ask /\ more.fd = p.fd /\ more.dest = p.dest
      /\ more.cargo = p.cargo /\ more.left = p.left
  <2>1. IsFiniteSet(p.out.names \cup { q })
    BY FS_AddElement DEF GoodProc, GoodOut
  <2>2. \A names : IsFiniteSet(names) => GoodOut([p.out EXCEPT !.names = names])
    BY DEF GoodProc, GoodOut
  <2>3. GoodOut([p.out EXCEPT !.names = @ \cup { q }])
    BY <2>1, <2>2
  <2>4. \A out : GoodOut(out) => LET m == [p EXCEPT !.out = out] IN
          /\ GoodProc(m) /\ m.ask = p.ask /\ m.fd = p.fd /\ m.dest = p.dest
          /\ m.cargo = p.cargo /\ m.left = p.left
    BY DEF GoodProc, Fields, Carried
  <2> QED
    BY <2>3, <2>4
<1>9. GoodStep(added, p)
  <2>1. GoodStep(added, more)
    BY <1>7, <1>8, SteppedTyped
  <2> QED
    BY <1>8, <2>1 DEF GoodStep
<1> QED
  BY <1>1, <1>9, SteppedTyped

LEMMA UnpackTyped ==
    ASSUME NEW t, GoodTree(t), NEW p, GoodProc(p), p.ask.op = "extract", NEW q \in p.left, NEW me
    PROVE  GoodStep(Unpack(t, p, q, me), p)
<1> DEFINE m == CHOOSE x \in p.cargo : p.dest \o x.name = q
           put == [t EXCEPT ![q] = [New(m.kind, me, q) EXCEPT
                                       !.data = m.data, !.to = m.to, !.holds = m.holds]]
<1>1. m \in p.cargo
  BY DEF GoodProc, Carried
<1>2. GoodMember(m) /\ GoodHolds(m.holds)
  BY <1>1, Held DEF GoodProc
<1>3. \A k \in Kinds, s \in Seq(Nat), to \in Paths \cup { Root } : \A h :
        GoodHolds(h) /\ (k = "link" => to # Root)
          => GoodNode([New(k, me, q) EXCEPT !.data = s, !.to = to, !.holds = h])
  BY DEF New, Absent, GoodNode, NodeFields
<1>4. GoodTree(put)
  <2>1. GoodNode([New(m.kind, me, q) EXCEPT !.data = m.data, !.to = m.to, !.holds = m.holds])
    BY <1>2, <1>3 DEF GoodMember
  <2> QED
    BY <2>1, Changed
<1>5. \E errs : \/ Unpack(t, p, q, me) = Step(p, q, t, errs, t)
                \/ Unpack(t, p, q, me) = Step(p, q, t, errs, put)
  BY Zenon DEF Unpack
<1>6. \A errs, t2 : GoodTree(t2) => GoodStep(Step(p, q, t, errs, t2), p)
  BY SteppedTyped
<1> QED
  BY <1>4, <1>5, <1>6, Zenon

LEMMA CopyEntryTyped ==
    ASSUME NEW t, GoodTree(t), NEW p, GoodProc(p), p.ask.op = "cp", NEW q \in p.left, NEW me
    PROVE  GoodStep(CopyEntry(t, p, q, me), p)
<1> DEFINE from == IF p.ask.flag THEN Real(t, q) ELSE q
           at == p.dest \o Relative(p.ask.path, q)
           to == IF t[from].kind \in FileKinds THEN Real(t, at) ELSE at
           inplace == [t EXCEPT ![to] = [t[from] EXCEPT !.id = t[to].id]]
           anew == [t EXCEPT ![at] = [t[from] EXCEPT !.id = [by |-> me, at |-> at]]]
<1>1. q \in Paths
  BY DEF GoodProc, TreeOperations
<1>2. GoodNode(t[from])
  BY <1>1, RealPath DEF GoodTree
<1>3. \A id : GoodNode([t[from] EXCEPT !.id = id])
  BY <1>2 DEF GoodNode, NodeFields
<1>4. GoodTree(inplace) /\ GoodTree(anew)
  BY <1>3, Changed
<1>5. \E errs : \/ CopyEntry(t, p, q, me) = Step(p, q, t, errs, inplace)
                \/ CopyEntry(t, p, q, me) = Step(p, q, t, errs, t)
                \/ CopyEntry(t, p, q, me) = Step(p, q, t, errs, anew)
  BY ZenonT(30) DEF CopyEntry
<1>6. \A errs, t2 : GoodTree(t2) => GoodStep(Step(p, q, t, errs, t2), p)
  BY SteppedTyped
<1> QED
  BY <1>4, <1>5, <1>6, Zenon

LEMMA ContinueTyped ==
    ASSUME NEW t, GoodTree(t), NEW p, GoodProc(p), CanGoOn(p), NEW q \in p.left, NEW me
    PROVE  GoodStep(Continue(t, p, q, me), p)
BY RmEntryTyped, WriteByteTyped, ReplaceFileTyped, AddMemberTyped, UnpackTyped, CopyEntryTyped,
   SteppedTyped, Zenon DEF Continue

-----------------------------------------------------------------------------
(* Processes.                                                               *)

States == { "none", "ready", "going", "over", "dead" }

\* A process that has not begun.
Fresh(p) ==
    /\ DOMAIN p = Fields
    /\ p.left = {} /\ p.at = 0 /\ p.errs = {} /\ p.fd = NoId /\ p.dest = Root
    /\ p.cargo = {} /\ p.out = NoOut

GoodActor(p) ==
    /\ p.state \in States
    /\ p.state \in { "none", "ready" } => Fresh(p)
    /\ p.state # "none" => GoodProc(p)

TypeInv ==
    /\ GoodTree(tree)
    /\ DOMAIN proc = Actors
    /\ \A b \in Actors : GoodActor(proc[b])

LEMMA FreshIsGood ==
    ASSUME NEW p, Fresh(p), p.ask \in AskTypes, Within(p.ask)
    PROVE  GoodProc(p)
<1>1. Len(p.ask.data) \in Nat
  BY DEF AskTypes
<1>2. GoodOut(NoOut)
  BY FS_EmptySet DEF GoodOut, NoOut
<1> QED
  BY <1>1, <1>2, HoldsNothing, PathsArePaths DEF Fresh, GoodProc, Carried

LEMMA ClosedTyped ==
    ASSUME NEW t, GoodTree(t), NEW p
    PROVE  GoodTree(Closed(t, p))
<1>1. "tar" \in Kinds
  BY DEF Kinds, FileKinds
<1>2. ASSUME NEW n, GoodNode(n) PROVE GoodNode([n EXCEPT !.kind = "tar"])
  BY <1>1, <1>2 DEF GoodNode, NodeFields
<1> QED
  BY <1>2 DEF GoodTree, Closed

LEMMA MovesTyped ==
    ASSUME TypeInv, NEW me \in Actors, NEW t, GoodTree(t), NEW p, GoodProc(p), Moves(me, t, p)
    PROVE  TypeInv'
<1>1. GoodTree(tree)'
  <2>1. tree' = (IF p.left = {} THEN Closed(t, p) ELSE t)
    BY DEF Moves
  <2> QED
    BY <2>1, ClosedTyped
<1>2. PICK state \in { "going", "over" } : proc' = [proc EXCEPT ![me] = [p EXCEPT !.state = state]]
  BY DEF Moves
<1>3. GoodActor([p EXCEPT !.state = state])
  BY DEF GoodActor, GoodProc, Fields, States, Carried
<1> QED
  BY <1>1, <1>2, <1>3 DEF TypeInv

\* What a command that begins makes of its process.
Begun(me, r) ==
    [proc[me] EXCEPT !.left = r.left, !.errs = r.errs, !.fd = r.fd,
                     !.dest = r.dest, !.cargo = r.cargo, !.out = r.out]

LEMMA Takes ==
    ASSUME NEW p, NEW r, GoodResult(r), NEW a \in AskTypes, Within(a),
           DOMAIN p = Fields, p.ask = a, p.at = 0,
           p.left = r.left, p.dest = r.dest, p.cargo = r.cargo, p.out = r.out,
           a.op = "extract" => Carried(r), a.op \in TreeOperations => r.left \subseteq Paths
    PROVE  GoodProc(p)
<1>1. Len(a.data) \in Nat
  BY DEF AskTypes
<1>2. Carried(r) => Carried(p)
  BY DEF Carried
<1>3. p.at \in 0 .. Len(p.ask.data)
  BY <1>1
<1> QED
  BY <1>2, <1>3 DEF GoodProc, GoodResult

LEMMA BegunTyped ==
    ASSUME TypeInv, NEW me \in Actors, BeginCommand(me)
    PROVE  LET r == Begin(tree, proc[me].ask, me) IN
           /\ GoodTree(r.tree) /\ GoodProc(Begun(me, r))
           /\ Begun(me, r).ask = proc[me].ask
           /\ Moves(me, r.tree, Begun(me, r))
<1> DEFINE a == proc[me].ask
           r == Begin(tree, a, me)
<1>1. GoodProc(proc[me]) /\ proc[me].at = 0
  BY DEF TypeInv, GoodActor, BeginCommand, Fresh
<1>2. a \in AskTypes /\ Within(a) /\ GoodTree(tree)
  BY <1>1 DEF GoodProc, TypeInv
<1>3. GoodResult(r)
  BY <1>2, BeginTyped
<1>4. a.op = "extract" => Carried(r)
  BY <1>2, BeginTyped, Zenon
<1>5. a.op \in TreeOperations => r.left \subseteq Paths
  BY LeftInTree
<1>6. GoodProc(Begun(me, r)) /\ Begun(me, r).ask = a
  <2> DEFINE p == Begun(me, r)
  <2>1. /\ DOMAIN p = Fields /\ p.ask = a /\ p.left = r.left /\ p.dest = r.dest
        /\ p.cargo = r.cargo /\ p.out = r.out /\ p.at = 0
    BY <1>1 DEF Begun, GoodProc, Fields
  <2> QED
    BY <1>1, <1>2, <1>3, <1>4, <1>5, <2>1, Takes, Zenon
<1>7. Moves(me, r.tree, Begun(me, r))
  BY DEF BeginCommand, Begun
<1> QED
  BY <1>3, <1>6, <1>7 DEF GoodResult

LEMMA GoesOnTyped ==
    ASSUME TypeInv, NEW me \in Actors, GoOn(me)
    PROVE  \E q \in proc[me].left :
             LET r == Continue(tree, proc[me], q, me) IN
             /\ q \in NextEntries(proc[me]) /\ CanGoOn(proc[me]) /\ GoodProc(proc[me])
             /\ GoodStep(r, proc[me])
             /\ Moves(me, r.tree, r.proc)
<1>1. GoodProc(proc[me]) /\ CanGoOn(proc[me]) /\ GoodTree(tree)
  BY DEF TypeInv, GoodActor, GoOn
<1>2. PICK q \in NextEntries(proc[me]) :
        Moves(me, Continue(tree, proc[me], q, me).tree, Continue(tree, proc[me], q, me).proc)
  BY DEF GoOn
<1>3. q \in proc[me].left
  BY <1>2 DEF NextEntries
<1>4. GoodStep(Continue(tree, proc[me], q, me), proc[me])
  BY <1>1, <1>3, ContinueTyped
<1> QED
  BY <1>1, <1>2, <1>3, <1>4

LEMMA RunTyped ==
    ASSUME TypeInv, NEW me \in Actors, BeginCommand(me) \/ GoOn(me)
    PROVE  TypeInv'
<1>1. CASE BeginCommand(me)
  BY <1>1, BegunTyped, MovesTyped
<1>2. CASE GoOn(me)
  BY <1>2, GoesOnTyped, MovesTyped DEF GoodStep
<1> QED
  BY <1>1, <1>2

-----------------------------------------------------------------------------
(* Requests and jobs, and what their processes do for them.                 *)

\* What the answers and the states of the jobs say of the processes.
RequestInv(r) ==
    /\ answer[r].code = None => proc[r].state = "none"
    /\ proc[r].state = "none" => answer[r].code \in { None, 400, 413 }
    /\ proc[r].state \in { "ready", "going" } => answer[r].code \in { Waiting, 408, 413, 424 }
    /\ proc[r].state # "none" => proc[r].ask.op \in FileOperations

JobInv(j) ==
    /\ reply[j] = 0 => job[j] = "none"
    /\ job[j] \in { "none", "stat", "asked", "queued" } => proc[j].state = "none"
    /\ job[j] \in { "stat", "asked", "queued" } => proc[j].ask \in AskTypes /\ Within(proc[j].ask)
    /\ proc[j].state \in { "ready", "going" } => job[j] = "running"

ControlInv ==
    /\ DOMAIN answer = Requests /\ DOMAIN reply = Jobs /\ DOMAIN job = Jobs
    /\ \A r \in Requests : RequestInv(r)
    /\ \A j \in Jobs : JobInv(j)

LEMMA Partition ==
    /\ Requests \subseteq Actors /\ Jobs \subseteq Actors
    /\ Actors = Requests \cup Jobs
    /\ \A r \in Requests : r \notin Jobs
BY AccessAssumption

Ends(r) == OverLimit(r) \/ Finish(r) \/ ExecuteTimeout(r) \/ ConnectionFails(r)

Runs(me) == (BeginCommand(me) \/ GoOn(me)) /\ UNCHANGED << answer, jobVars >>

Posts(j) ==
    PostUpload(j) \/ PostDownload(j) \/ PostMv(j) \/ PostCp(j) \/ DeleteRm(j) \/ PostCompress(j) \/ PostExtract(j)

\* A process ends without having done what is left.
Stops(b) == Dies(b) \/ WriteFails(b)

\* The steps of a job but for those of its process.
Controls(j) ==
    \/ Posts(j)
    \/ Look(j) \/ LookFails(j) \/ Submit(j) \/ SubmitFails(j) \/ Confirm(j) \/ ReplyLost(j)
    \/ StartJob(j) \/ EndJob(j) \/ JobDies(j)

LEMMA StepKinds ==
    ASSUME [Next]_vars
    PROVE  \/ UNCHANGED vars
           \/ \E me \in Actors : Runs(me)
           \/ \E r \in Requests : Request(r) /\ UNCHANGED jobVars
           \/ \E r \in Requests : Stops(r) /\ UNCHANGED << answer, jobVars >>
           \/ \E r \in Requests : Ends(r) /\ UNCHANGED jobVars
           \/ \E j \in Jobs : Controls(j) /\ UNCHANGED answer
<1>1. CASE \E r \in Requests : OpsNext(r) /\ UNCHANGED jobVars
  BY <1>1, Partition DEF OpsNext, Command, Ends, Runs, Stops
<1>2. CASE \E j \in Jobs : JobsNext(j) /\ UNCHANGED answer
  BY <1>2, Partition DEF JobsNext, Work, Posts, Controls, Runs
<1> QED
  BY <1>1, <1>2 DEF Next

LEMMA PostsTyped ==
    ASSUME NEW j \in Jobs, Posts(j)
    PROVE  \E a \in AskTypes : /\ Within(a)
              /\ \E refusal, step : step \in { "stat", "asked" } /\ Post(j, a, refusal, step)
<1>1. \A ops : AsksFor(j, ops) \subseteq AskTypes
  BY Partition, AsksAssumption DEF AsksFor
<1>2. \A ops : "view" \notin ops => \A a \in AsksFor(j, ops) : Within(a)
  BY DEF AsksFor, Within
<1>3. \A a : Prepared(a) \in { "stat", "asked" }
  BY DEF Prepared
<1>4. ASSUME NEW ops, "view" \notin ops, NEW a \in AsksFor(j, ops), NEW refusal, NEW step,
             step \in { "stat", "asked" }, Post(j, a, refusal, step)
      PROVE  \E x \in AskTypes : /\ Within(x)
                /\ \E y, z : z \in { "stat", "asked" } /\ Post(j, x, y, z)
  BY <1>1, <1>2, <1>4
<1>5. CASE PostUpload(j)
  BY <1>3, <1>4, <1>5 DEF PostUpload
<1>6. CASE PostDownload(j)
  BY <1>3, <1>4, <1>6 DEF PostDownload
<1>7. CASE PostMv(j) \/ PostCp(j) \/ DeleteRm(j) \/ PostCompress(j) \/ PostExtract(j)
  BY <1>4, <1>7 DEF PostMv, PostCp, DeleteRm, PostCompress, PostExtract
<1> QED
  BY <1>5, <1>6, <1>7 DEF Posts

\* A request is refused, or its process is prepared.
LEMMA RequestTyped ==
    ASSUME NEW r \in Requests, Request(r)
    PROVE  \E a \in AskTypes :
             /\ a.op \in FileOperations
             /\ \/ /\ UNCHANGED proc
                   /\ \E code \in { 400, 413 } : answer' = [answer EXCEPT ![r] = Coded(code)]
                \/ /\ Within(a)
                   /\ answer' = [answer EXCEPT ![r] = Coded(Waiting)]
                   /\ proc' = [proc EXCEPT ![r].state = "ready", ![r].ask = a]
<1>1. PICK a \in Asks[r] :
         IF Refused(a) # None
         THEN Answer(r, Coded(Refused(a))) /\ UNCHANGED proc
         ELSE Answer(r, Coded(Waiting)) /\ proc' = [proc EXCEPT ![r].state = "ready", ![r].ask = a]
  BY Zenon DEF Request
<1>2. a \in AskTypes /\ a.op \in FileOperations
  BY AsksAssumption, OpsAssumption, Partition
<1>3. Refused(a) \in { None, 400, 413 } /\ (Refused(a) = None => Within(a))
  <2>1. CASE a.op \in { "head", "tail" } /\ BothGiven(a)
    BY <2>1, Zenon DEF Refused, Within
  <2>2. CASE a.op \in { "head", "tail" } /\ ~BothGiven(a)
    <3>1. a.op \notin { "view", "upload" }
      BY <2>2
    <3> QED
      BY <2>2, <3>1, Zenon DEF Refused, Within
  <2>3. CASE a.op = "view"
    <3>1. Refused(a) = IF ViewRefused(a) THEN 400 ELSE None
      BY <2>3, Zenon DEF Refused
    <3> QED
      BY <3>1 DEF Within, None
  <2>4. CASE a.op = "upload"
    <3>1. Refused(a) = IF UploadRefused(a) THEN 413 ELSE None
      BY <2>4, Zenon DEF Refused
    <3> QED
      BY <2>4, <3>1 DEF Within
  <2>5. CASE a.op \notin { "head", "tail", "view", "upload" }
    BY <2>5, Zenon DEF Refused, Within
  <2> QED
    BY <2>1, <2>2, <2>3, <2>4, <2>5
<1> QED
  BY <1>1, <1>2, <1>3 DEF Answer

LEMMA InitTyped == Init => TypeInv /\ ControlInv
<1> SUFFICES ASSUME Init PROVE TypeInv /\ ControlInv
  OBVIOUS
<1>1. GoodTree(tree)
  <2>1. tree \in [Paths -> Nodes] /\ Rooted(tree)
    BY TreesAssumption DEF Init, FilesInit
  <2>2. ASSUME NEW m \in Contents PROVE GoodMember(m) /\ m.holds \subseteq Contents
    <3>1. /\ m.name \in Seq(STRING) /\ m.kind \in Kinds /\ m.data \in Seq(Nat)
          /\ m.to \in Paths \cup { Root } /\ m.holds \subseteq Contents
          /\ m.kind = "link" => m.to # Root
      BY <2>2, TreesAssumption
    <3> QED
      BY <3>1 DEF GoodMember, Path
  <2>3. \A h : h \subseteq Contents => GoodHolds(h)
    BY <2>2 DEF GoodHolds
  <2>4. ASSUME NEW q \in Paths PROVE GoodNode(tree[q])
    <3>1. tree[q] \in Nodes /\ (tree[q].kind = "link" => tree[q].to # Root)
      BY <2>1 DEF Rooted
    <3>2. tree[q].holds \subseteq Contents
      BY <3>1 DEF Nodes
    <3> QED
      BY <2>3, <3>1, <3>2 DEF Nodes, GoodNode, NodeFields
  <2> QED
    BY <2>1, <2>4 DEF GoodTree
<1>2. TypeInv
  BY <1>1 DEF Init, FilesInit, TypeInv, GoodActor, Fresh, Fields, Idle, States, Root
<1>3. ControlInv
  BY Partition
  DEF Init, FilesInit, ControlInv, RequestInv, JobInv, Idle, NoAnswer, None
<1> QED
  BY <1>2, <1>3

\* A request that is prepared, and a process that is ended from outside.
LEMMA RequestKeeps ==
    ASSUME TypeInv, ControlInv, NEW r \in Requests, Request(r), UNCHANGED jobVars
    PROVE  (TypeInv /\ ControlInv)'
<1>1. PICK a \in AskTypes :
         /\ a.op \in FileOperations
         /\ \/ /\ UNCHANGED proc
               /\ \E code \in { 400, 413 } : answer' = [answer EXCEPT ![r] = Coded(code)]
            \/ /\ Within(a)
               /\ answer' = [answer EXCEPT ![r] = Coded(Waiting)]
               /\ proc' = [proc EXCEPT ![r].state = "ready", ![r].ask = a]
  BY RequestTyped
<1>2. /\ proc[r].state = "none" /\ Fresh(proc[r]) /\ UNCHANGED tree
  BY Partition DEF Request, ControlInv, RequestInv, TypeInv, GoodActor
<1>3. \A code : Coded(code).code = code
  BY DEF Coded, NoAnswer
<1>4. CASE UNCHANGED proc /\ \E code \in { 400, 413 } : answer' = [answer EXCEPT ![r] = Coded(code)]
  <2>1. TypeInv'
    BY <1>2, <1>4 DEF TypeInv
  <2>2. ControlInv'
    BY <1>2, <1>3, <1>4 DEF ControlInv, RequestInv, JobInv, jobVars, None
  <2> QED
    BY <2>1, <2>2
<1>5. CASE /\ Within(a)
           /\ answer' = [answer EXCEPT ![r] = Coded(Waiting)]
           /\ proc' = [proc EXCEPT ![r].state = "ready", ![r].ask = a]
  <2> DEFINE p == [proc[r] EXCEPT !.state = "ready", !.ask = a]
  <2>1. proc' = [proc EXCEPT ![r] = p]
    BY <1>5
  <2>2. Fresh(p) /\ p.state = "ready" /\ p.ask = a
    BY <1>2 DEF Fresh, Fields
  <2>3. GoodActor(p)
    BY <1>5, <2>2, FreshIsGood DEF GoodActor, States
  <2>4. TypeInv'
    BY <1>2, <2>1, <2>3, Partition DEF TypeInv
  <2>5. /\ \A b \in Actors : b # r => proc'[b] = proc[b]
        /\ proc'[r] = p
    BY <2>1, Partition DEF TypeInv
  <2>6. answer'[r].code = Waiting /\ \A b \in Requests : b # r => answer'[b] = answer[b]
    BY <1>3, <1>5 DEF ControlInv
  <2>7. DOMAIN answer' = Requests /\ UNCHANGED << reply, job >>
    BY <1>5 DEF ControlInv, jobVars
  <2>8. \A b \in Requests : RequestInv(b)'
    <3>1. RequestInv(r)'
      BY <1>1, <2>2, <2>5, <2>6 DEF RequestInv, None, Waiting
    <3>2. ASSUME NEW b \in Requests, b # r PROVE RequestInv(b)'
      BY <2>5, <2>6, <3>2, Partition DEF ControlInv, RequestInv
    <3> QED
      BY <3>1, <3>2
  <2>9. \A j \in Jobs : JobInv(j)'
    BY <2>5, <2>7, Partition DEF ControlInv, JobInv
  <2> QED
    BY <2>4, <2>7, <2>8, <2>9 DEF ControlInv
<1> QED
  BY <1>1, <1>4, <1>5

LEMMA DiesKeeps ==
    ASSUME TypeInv, NEW b \in Actors, Dies(b)
    PROVE  /\ TypeInv'
           /\ proc[b].state \in { "ready", "going" }
           /\ proc'[b].state = "dead" /\ proc'[b].ask = proc[b].ask
           /\ \A c \in Actors : c # b => proc'[c] = proc[c]
           /\ UNCHANGED << tree, marks >>
<1> DEFINE p == [proc[b] EXCEPT !.state = "dead"]
<1>1. proc' = [proc EXCEPT ![b] = p] /\ UNCHANGED << tree, marks >>
  BY DEF Dies
<1>2. GoodProc(proc[b]) /\ proc[b].state \in { "ready", "going" }
  BY DEF Dies, TypeInv, GoodActor
<1>3. GoodActor(p) /\ p.state = "dead" /\ p.ask = proc[b].ask
  BY <1>2 DEF GoodActor, GoodProc, Fields, States, Carried
<1> QED
  BY <1>1, <1>2, <1>3 DEF TypeInv

LEMMA StopsKeeps ==
    ASSUME TypeInv, NEW b \in Actors, Stops(b)
    PROVE  /\ TypeInv'
           /\ proc[b].state \in { "ready", "going" }
           /\ proc'[b].state \in { "dead", "over" } /\ proc'[b].ask = proc[b].ask
           /\ \A c \in Actors : c # b => proc'[c] = proc[c]
           /\ UNCHANGED << tree, marks >>
<1>1. CASE Dies(b)
  BY <1>1, DiesKeeps
<1>2. CASE WriteFails(b)
  <2> DEFINE p == [proc[b] EXCEPT !.state = "over", !.left = {}, !.errs = { NoSpace }]
  <2>1. proc' = [proc EXCEPT ![b] = p] /\ UNCHANGED << tree, marks >> /\ proc[b].state = "going"
    BY <1>2 DEF WriteFails
  <2>2. GoodProc(proc[b])
    BY <2>1 DEF TypeInv, GoodActor
  <2>3. GoodActor(p) /\ p.state = "over" /\ p.ask = proc[b].ask
    BY <2>2 DEF GoodActor, GoodProc, Fields, States, Carried
  <2> QED
    BY <2>1, <2>3 DEF TypeInv
<1> QED
  BY <1>1, <1>2 DEF Stops

LEMMA ErrorCodes == \A errs : ErrorCode(errs) \in { 400, 403, 404, 500 }
BY DEF ErrorCode

\* The endpoints whose answer has nothing but a code.
Silent == { "chmod", "chown", "ls", "rm", "mkdir", "symlink", "compress", "extract" }

LEMMA SilentCodes ==
    ASSUME NEW a, a.op \in Silent, NEW out
    PROVE  /\ Success(a, out).code \in { 200, 201, 204 }
           /\ Success(a, out).bytes = << >>
<1>1. \A code : Coded(code).code = code /\ Coded(code).bytes = << >>
  BY DEF Coded, NoAnswer
<1>2. /\ DOMAIN AttributeOps = { "chmod", "chown", "ls" }
      /\ DOMAIN TreeOps = { "rm", "mkdir", "symlink" }
      /\ DOMAIN ArchiveOps = { "compress", "extract" }
      /\ DOMAIN InspectOps = { "checksum", "file", "stat" }
  BY DEF AttributeOps, TreeOps, ArchiveOps, InspectOps
<1>3. a.op \notin { "head", "tail", "view", "download", "upload" } /\ a.op \notin DOMAIN InspectOps
  BY <1>2 DEF Silent
<1>4. CASE a.op \in { "chmod", "chown", "ls" }
  <2>1. a.op \in DOMAIN AttributeOps /\ a.op \notin DOMAIN TreeOps /\ a.op \notin DOMAIN ArchiveOps
    BY <1>2, <1>4
  <2>2. Success(a, out) = Coded(AttributeOps[a.op])
    BY <1>3, <2>1, Zenon DEF Success
  <2>3. AttributeOps[a.op] = 200
    BY <1>4 DEF AttributeOps
  <2> QED
    BY <1>1, <2>2, <2>3
<1>5. CASE a.op \in { "rm", "mkdir", "symlink" }
  <2>1. a.op \in DOMAIN TreeOps /\ a.op \notin DOMAIN AttributeOps /\ a.op \notin DOMAIN ArchiveOps
    BY <1>2, <1>5
  <2>2. Success(a, out) = Coded(TreeOps[a.op])
    BY <1>3, <2>1, Zenon DEF Success
  <2>3. TreeOps[a.op] \in { 201, 204 }
    BY <1>5 DEF TreeOps
  <2> QED
    BY <1>1, <2>2, <2>3
<1>6. CASE a.op \in { "compress", "extract" }
  <2>1. a.op \in DOMAIN ArchiveOps /\ a.op \notin DOMAIN AttributeOps /\ a.op \notin DOMAIN TreeOps
    BY <1>2, <1>6
  <2>2. Success(a, out) = Coded(ArchiveOps[a.op])
    BY <1>3, <2>1, Zenon DEF Success
  <2>3. ArchiveOps[a.op] = 204
    BY <1>6 DEF ArchiveOps
  <2> QED
    BY <1>1, <2>2, <2>3
<1> QED
  BY <1>4, <1>5, <1>6 DEF Silent

LEMMA SuccessCodes ==
    ASSUME NEW a, a.op \in FileOperations, NEW out
    PROVE  Success(a, out).code \in { 200, 201, 204, 413 }
<1>1. \A code : Coded(code).code = code
  BY DEF Coded, NoAnswer
<1>0. { "head", "tail", "view", "download", "upload" }
        \cap (DOMAIN InspectOps \cup DOMAIN AttributeOps \cup DOMAIN TreeOps \cup DOMAIN ArchiveOps) = {}
  BY DEF InspectOps, AttributeOps, TreeOps, ArchiveOps
<1>2. CASE a.op = "head"
  <2>1. Success(a, out) = HeadAnswer(a, out.bytes)
    BY <1>2, <1>0, Zenon DEF Success
  <2> QED
    BY <2>1 DEF HeadAnswer
<1>3. CASE a.op = "tail"
  <2>1. Success(a, out) = TailAnswer(a, out.bytes)
    BY <1>3, <1>0, Zenon DEF Success
  <2> QED
    BY <2>1 DEF TailAnswer
<1>4. CASE a.op = "view"
  <2>1. Success(a, out) = ViewAnswer(a, out.bytes)
    BY <1>4, <1>0, Zenon DEF Success
  <2> QED
    BY <2>1 DEF ViewAnswer, Coded, NoAnswer
<1>5. CASE a.op = "download"
  <2>1. Success(a, out) = DownloadAnswer(out.bytes)
    BY <1>5, <1>0, Zenon DEF Success
  <2> QED
    BY <2>1 DEF DownloadAnswer, Coded, NoAnswer
<1>6. CASE a.op = "upload"
  <2>1. Success(a, out) = Coded(204)
    BY <1>6, <1>0, Zenon DEF Success
  <2> QED
    BY <1>1, <2>1
<1>7. CASE a.op \in { "checksum", "file", "stat" }
  <2>1. Success(a, out) = [Coded(InspectOps[a.op]) EXCEPT !.bytes = out.bytes]
    <3>1. a.op \in DOMAIN InspectOps /\ a.op \notin { "head", "tail", "view", "download", "upload" }
      BY <1>7 DEF InspectOps
    <3>2. a.op \notin DOMAIN AttributeOps /\ a.op \notin DOMAIN TreeOps /\ a.op \notin DOMAIN ArchiveOps
      BY <1>7 DEF AttributeOps, TreeOps, ArchiveOps
    <3> QED
      BY <3>1, <3>2, Zenon DEF Success
  <2>2. InspectOps[a.op] = 200
    BY <1>7 DEF InspectOps
  <2> QED
    BY <2>1, <2>2 DEF Coded, NoAnswer
<1>8. CASE a.op \in Silent
  BY <1>8, SilentCodes
<1> QED
  BY <1>2, <1>3, <1>4, <1>5, <1>6, <1>7, <1>8 DEF FileOperations, Silent

LEMMA EndsKeeps ==
    ASSUME TypeInv, ControlInv, NEW r \in Requests, Ends(r), UNCHANGED jobVars
    PROVE  (TypeInv /\ ControlInv)'
<1>1. UNCHANGED << tree, proc, marks >> /\ answer[r].code = Waiting
  BY DEF Ends, OverLimit, Finish, ExecuteTimeout, ConnectionFails, fileVars, Unanswered
<1>0. DOMAIN answer = Requests
  BY DEF ControlInv
<1>2. /\ DOMAIN answer' = Requests
      /\ \A b \in Requests : b # r => answer'[b] = answer[b]
      /\ answer'[r].code # None
      /\ proc[r].state \in { "ready", "going" } => answer'[r].code \in { 408, 413, 424 }
  <2>1. \A code : Coded(code).code = code
    BY DEF Coded, NoAnswer
  <2>2. ASSUME NEW given, Answer(r, given)
        PROVE  /\ DOMAIN answer' = Requests
               /\ \A b \in Requests : b # r => answer'[b] = answer[b]
               /\ answer'[r] = given
    BY <1>0, <2>2 DEF Answer
  <2>3. CASE OverLimit(r) \/ ExecuteTimeout(r) \/ ConnectionFails(r)
    <3>1. \E code \in { 408, 413, 424 } : Answer(r, Coded(code))
      BY <2>3 DEF OverLimit, ExecuteTimeout, ConnectionFails
    <3>2. ASSUME NEW code \in { 408, 413, 424 }, Answer(r, Coded(code))
          PROVE  /\ DOMAIN answer' = Requests
                 /\ \A b \in Requests : b # r => answer'[b] = answer[b]
                 /\ answer'[r].code = code
      BY <2>1, <2>2, <3>2
    <3>3. /\ DOMAIN answer' = Requests
          /\ \A b \in Requests : b # r => answer'[b] = answer[b]
          /\ answer'[r].code \in { 408, 413, 424 }
      BY <3>1, <3>2
    <3> QED
      BY <3>3 DEF None
  <2>4. CASE Finish(r)
    <3>1. CASE proc[r].state = "dead"
      <4>1. PICK code \in { 408, ErrorCode(proc[r].errs) } : Answer(r, Coded(code))
        BY <2>4, <3>1, Zenon DEF Finish
      <4>2. Coded(code).code = code
        BY <2>1
      <4>3. code # None
        BY <4>1, ErrorCodes DEF None
      <4> HIDE DEF Coded
      <4> QED
        BY <2>2, <3>1, <4>1, <4>2, <4>3
    <3>2. CASE proc[r].state = "over"
      <4> DEFINE given == IF proc[r].errs = {} THEN Success(proc[r].ask, proc[r].out)
                          ELSE Coded(ErrorCode(proc[r].errs))
      <4>1. Answer(r, given)
        BY <2>4, <3>2 DEF Finish
      <4>2. proc[r].ask.op \in FileOperations
        BY <3>2 DEF ControlInv, RequestInv
      <4>3. given.code # None
        <5>1. CASE proc[r].errs = {}
          BY <4>2, <5>1, SuccessCodes DEF None
        <5>2. CASE proc[r].errs # {}
          BY <2>1, <5>2, ErrorCodes DEF None
        <5> QED
          BY <5>1, <5>2
      <4> HIDE DEF given
      <4> QED
        BY <2>2, <3>2, <4>1, <4>3
    <3> QED
      BY <2>4, <3>1, <3>2 DEF Finish
  <2> QED
    BY <2>3, <2>4 DEF Ends
<1>3. TypeInv'
  BY <1>1 DEF TypeInv
<1>4. ControlInv'
  BY <1>1, <1>2, Partition DEF ControlInv, RequestInv, JobInv, jobVars, None, Waiting
<1> QED
  BY <1>3, <1>4

\* What a step of a job that is not one of its process leaves alone.
LEMMA ControlsKeep ==
    ASSUME TypeInv, ControlInv, NEW j \in Jobs, Controls(j), UNCHANGED answer
    PROVE  /\ (TypeInv /\ ControlInv)'
           /\ UNCHANGED << tree, marks >>
           /\ \A b \in Actors : b # j => proc'[b] = proc[b]
<1>1. \A b \in Jobs : JobInv(b)
  BY DEF ControlInv
<1>2. \A b \in Requests : RequestInv(b)
  BY DEF ControlInv
<1>3. /\ DOMAIN proc = Actors /\ DOMAIN reply = Jobs /\ DOMAIN job = Jobs /\ DOMAIN answer = Requests
      /\ GoodTree(tree) /\ \A b \in Actors : GoodActor(proc[b])
  BY DEF TypeInv, ControlInv
<1>4. ASSUME UNCHANGED << tree, marks >>, DOMAIN proc' = Actors, DOMAIN reply' = Jobs, DOMAIN job' = Jobs,
             \A b \in Actors : b # j => proc'[b] = proc[b],
             \A b \in Jobs : b # j => reply'[b] = reply[b] /\ job'[b] = job[b],
             GoodActor(proc[j])', JobInv(j)'
      PROVE  /\ (TypeInv /\ ControlInv)'
             /\ UNCHANGED << tree, marks >>
             /\ \A b \in Actors : b # j => proc'[b] = proc[b]
  <2>1. TypeInv'
    BY <1>3, <1>4 DEF TypeInv
  <2>2. \A b \in Requests : RequestInv(b)'
    BY <1>2, <1>4, Partition DEF RequestInv
  <2>3. \A b \in Jobs : JobInv(b)'
    BY <1>1, <1>4, Partition DEF JobInv
  <2>4. ControlInv'
    BY <1>3, <1>4, <2>2, <2>3 DEF ControlInv
  <2> QED
    BY <1>4, <2>1, <2>4
<1>5. CASE Posts(j)
  <2>0. PICK a \in AskTypes : /\ Within(a)
              /\ \E refusal, step : step \in { "stat", "asked" } /\ Post(j, a, refusal, step)
    BY <1>5, PostsTyped
  <2>1. PICK refusal, step : step \in { "stat", "asked" } /\ Post(j, a, refusal, step)
    BY <2>0
  <2>2. proc[j].state = "none" /\ Fresh(proc[j]) /\ job[j] = "none" /\ reply[j] = 0
    BY <1>1, <1>3, <2>1, Partition DEF Post, JobInv, GoodActor
  <2>3. CASE refusal # 0
    <3>1. reply' = [reply EXCEPT ![j] = refusal] /\ UNCHANGED << job, proc, tree, marks >>
      BY <2>1, <2>3 DEF Post, SetReply
    <3>2. JobInv(j)' /\ GoodActor(proc[j])'
      BY <1>3, <2>2, <3>1, Partition DEF JobInv
    <3> QED
      BY <1>3, <1>4, <3>1, <3>2
  <2>4. CASE refusal = 0
    <3> DEFINE p == [proc[j] EXCEPT !.ask = a]
    <3>1. /\ reply' = [reply EXCEPT ![j] = 1] /\ job' = [job EXCEPT ![j] = step]
          /\ proc' = [proc EXCEPT ![j] = p] /\ UNCHANGED << tree, marks >>
      BY <2>1, <2>4 DEF Post, SetReply, SetJob
    <3>2. Fresh(p) /\ p.state = "none" /\ p.ask = a
      BY <2>2 DEF Fresh, Fields
    <3>3. proc'[j] = p /\ reply'[j] = 1 /\ job'[j] = step
      BY <1>3, <3>1, Partition
    <3>4. JobInv(j)' /\ GoodActor(proc[j])'
      BY <2>0, <2>1, <3>2, <3>3 DEF JobInv, GoodActor, States
    <3> QED
      BY <1>3, <1>4, <3>1, <3>4
  <2> QED
    BY <2>3, <2>4
<1>6. CASE Look(j) \/ LookFails(j) \/ Submit(j) \/ SubmitFails(j) \/ Confirm(j) \/ ReplyLost(j) \/ EndJob(j)
  <2>1. UNCHANGED << tree, marks, proc >> /\ DOMAIN reply' = Jobs /\ DOMAIN job' = Jobs
    BY <1>3, <1>6
    DEF Look, LookFails, Submit, SubmitFails, Confirm, ReplyLost, EndJob, fileVars, SetReply, SetJob
  <2>2. \A b \in Jobs : b # j => reply'[b] = reply[b] /\ job'[b] = job[b]
    BY <1>3, <1>6
    DEF Look, LookFails, Submit, SubmitFails, Confirm, ReplyLost, EndJob, fileVars, SetReply, SetJob
  <2>3. JobInv(j)'
    <3>0. \A a, errs : /\ UploadLook(errs) \in { 0, 403, 500 }
                       /\ DownloadLook(errs) \in { 0, 404 }
      BY DEF UploadLook, DownloadLook
    <3>1. CASE Look(j)
      <4>1. job[j] = "stat" /\ reply[j] # 0 /\ proc[j].state = "none"
            /\ proc[j].ask \in AskTypes /\ Within(proc[j].ask)
        BY <1>1, <3>1 DEF Look, JobInv
      <4>2. job'[j] \in { "asked", "none" } /\ (job'[j] = "asked" => reply'[j] # 0)
        BY <1>3, <4>1, <3>1 DEF Look, SetJob, SetReply
      <4> QED
        BY <2>1, <4>1, <4>2 DEF JobInv
    <3>2. CASE LookFails(j) \/ SubmitFails(j)
      BY <1>1, <1>3, <2>1, <3>2 DEF LookFails, SubmitFails, SetJob, SetReply, Failed, JobInv
    <3>3. CASE Submit(j)
      BY <1>1, <1>3, <2>1, <3>3 DEF Submit, SetJob, JobInv
    <3>4. CASE Confirm(j) \/ ReplyLost(j)
      <4>1. UNCHANGED job /\ reply'[j] # 0
        BY <1>3, <3>4 DEF Confirm, ReplyLost, SetReply, Failed
      <4> QED
        BY <1>1, <2>1, <4>1 DEF JobInv
    <3>5. CASE EndJob(j)
      <4>1. proc[j].state = "over" /\ job'[j] \in { "COMPLETED", "FAILED" } /\ UNCHANGED reply /\ reply[j] # 0
        BY <1>1, <1>3, <3>5 DEF EndJob, SetJob, JobInv
      <4> QED
        BY <2>1, <4>1 DEF JobInv
    <3> QED
      BY <1>6, <3>1, <3>2, <3>3, <3>4, <3>5
  <2> QED
    BY <1>3, <1>4, <2>1, <2>2, <2>3, Partition
<1>7. CASE StartJob(j)
  <2> DEFINE p == [proc[j] EXCEPT !.state = "ready"]
  <2>1. /\ job[j] = "queued" /\ job' = [job EXCEPT ![j] = "running"]
        /\ proc' = [proc EXCEPT ![j] = p] /\ UNCHANGED << reply, tree, marks >>
    BY <1>7 DEF StartJob, SetJob
  <2>2. /\ proc[j].state = "none" /\ Fresh(proc[j])
        /\ proc[j].ask \in AskTypes /\ Within(proc[j].ask) /\ reply[j] # 0
    BY <1>1, <1>3, <2>1, Partition DEF JobInv, GoodActor
  <2>3. Fresh(p) /\ p.state = "ready" /\ p.ask = proc[j].ask
    BY <2>2 DEF Fresh, Fields
  <2>4. GoodActor(p)
    BY <2>2, <2>3, FreshIsGood DEF GoodActor, States
  <2>5. proc'[j] = p /\ job'[j] = "running" /\ reply'[j] # 0
    BY <1>3, <2>1, <2>2, Partition
  <2>6. JobInv(j)' /\ GoodActor(proc[j])'
    BY <2>3, <2>4, <2>5 DEF JobInv
  <2> QED
    BY <1>3, <1>4, <2>1, <2>6
<1>8. CASE JobDies(j)
  <2>1. Dies(j) /\ job' = [job EXCEPT ![j] = "FAILED"] /\ UNCHANGED reply /\ job[j] = "running"
    BY <1>8 DEF JobDies, SetJob
  <2>2. /\ TypeInv' /\ proc'[j].state = "dead"
        /\ \A c \in Actors : c # j => proc'[c] = proc[c]
        /\ UNCHANGED << tree, marks >>
    BY <2>1, DiesKeeps, Partition
  <2>3. job'[j] = "FAILED" /\ reply'[j] # 0
    BY <1>1, <1>3, <2>1 DEF JobInv
  <2>4. JobInv(j)' /\ GoodActor(proc[j])'
    BY <2>2, <2>3, Partition DEF JobInv, TypeInv
  <2> QED
    BY <1>3, <1>4, <2>1, <2>2, <2>4 DEF TypeInv
<1> QED
  BY <1>5, <1>6, <1>7, <1>8 DEF Controls

\* A step of a process.
LEMMA RunsKeep ==
    ASSUME TypeInv, ControlInv, NEW me \in Actors, Runs(me)
    PROVE  /\ (TypeInv /\ ControlInv)'
           /\ \A b \in Actors : b # me => proc'[b] = proc[b]
           /\ proc[me].state \in { "ready", "going" } /\ proc'[me].state \in { "going", "over" }
           /\ proc'[me].ask = proc[me].ask
           /\ UNCHANGED << answer, jobVars >>
<1>1. TypeInv'
  BY RunTyped DEF Runs
<1>2. UNCHANGED << answer, jobVars >>
  BY DEF Runs
<1>3. \E p : /\ p.ask = proc[me].ask /\ GoodProc(p)
             /\ \E state \in { "going", "over" } : proc' = [proc EXCEPT ![me] = [p EXCEPT !.state = state]]
  <2>1. CASE BeginCommand(me)
    <3> DEFINE r == Begin(tree, proc[me].ask, me)
    <3>1. GoodProc(Begun(me, r)) /\ Begun(me, r).ask = proc[me].ask /\ Moves(me, r.tree, Begun(me, r))
      BY <2>1, BegunTyped
    <3> QED
      BY <3>1 DEF Moves
  <2>2. CASE GoOn(me)
    <3>1. PICK q \in proc[me].left : LET r == Continue(tree, proc[me], q, me) IN
             GoodStep(r, proc[me]) /\ Moves(me, r.tree, r.proc)
      BY <2>2, GoesOnTyped
    <3> QED
      BY <3>1 DEF Moves, GoodStep
  <2> QED
    BY <2>1, <2>2 DEF Runs
<1>4. PICK p : /\ p.ask = proc[me].ask /\ GoodProc(p)
               /\ \E state \in { "going", "over" } : proc' = [proc EXCEPT ![me] = [p EXCEPT !.state = state]]
  BY <1>3
<1>5. /\ \A b \in Actors : b # me => proc'[b] = proc[b]
      /\ proc'[me].state \in { "going", "over" } /\ proc'[me].ask = proc[me].ask
  BY <1>4 DEF TypeInv, GoodProc, Fields
<1>6. proc[me].state \in { "ready", "going" }
  BY DEF Runs, BeginCommand, GoOn
<1>7. \A r \in Requests : RequestInv(r)'
  BY <1>2, <1>5, <1>6, Partition DEF ControlInv, RequestInv
<1>8. \A j \in Jobs : JobInv(j)'
  BY <1>2, <1>5, <1>6, Partition DEF ControlInv, JobInv, jobVars
<1> QED
  BY <1>1, <1>2, <1>5, <1>6, <1>7, <1>8 DEF ControlInv, jobVars

LEMMA TypedStep == TypeInv /\ ControlInv /\ [Next]_vars => (TypeInv /\ ControlInv)'
<1> SUFFICES ASSUME TypeInv, ControlInv, [Next]_vars PROVE (TypeInv /\ ControlInv)'
  OBVIOUS
<1>1. CASE UNCHANGED vars
  BY <1>1 DEF vars, fileVars, jobVars, TypeInv, ControlInv, RequestInv, JobInv
<1>2. CASE \E me \in Actors : Runs(me)
  BY <1>2, RunsKeep
<1>3. CASE \E r \in Requests : Request(r) /\ UNCHANGED jobVars
  BY <1>3, RequestKeeps
<1>4. ASSUME NEW r \in Requests, Stops(r), UNCHANGED << answer, jobVars >> PROVE (TypeInv /\ ControlInv)'
  <2>1. /\ TypeInv' /\ proc[r].state \in { "ready", "going" }
        /\ proc'[r].state \in { "dead", "over" } /\ proc'[r].ask = proc[r].ask
        /\ \A c \in Actors : c # r => proc'[c] = proc[c]
    BY <1>4, StopsKeeps, Partition
  <2> QED
    BY <1>4, <2>1, Partition DEF ControlInv, RequestInv, JobInv, jobVars
<1>5. CASE \E r \in Requests : Ends(r) /\ UNCHANGED jobVars
  BY <1>5, EndsKeeps
<1>6. CASE \E j \in Jobs : Controls(j) /\ UNCHANGED answer
  BY <1>6, ControlsKeep
<1> QED
  BY <1>1, <1>2, <1>3, <1>4, <1>5, <1>6, StepKinds

-----------------------------------------------------------------------------
(* What the answers carry.                                                  *)

LEMMA InOneTo ==
    ASSUME NEW n \in Nat
    PROVE  IsFiniteSet(1 .. n) /\ Cardinality(1 .. n) = n
<1>1. Cardinality(1 .. n) = IF 1 > n THEN 0 ELSE n - 1 + 1
  BY FS_Interval
<1>2. IsFiniteSet(1 .. n)
  BY FS_Interval
<1> QED
  BY <1>1, <1>2

\* Decoding makes a text no longer, and cutting out a chunk does not either.
LEMMA DecodeShortens ==
    ASSUME NEW s \in Seq(Nat)
    PROVE  \E n \in 0 .. Len(s) : DOMAIN Decode(s) = 1 .. n
<1> DEFINE whole(i) == i < Len(s) /\ s[i] = Wide /\ s[i + 1] = Rest
           starts == { i \in 1 .. Len(s) : i = 1 \/ ~whole(i - 1) }
<1>1. DOMAIN Decode(s) = 1 .. Cardinality(starts)
  BY DEF Decode
<1>2. Len(s) \in Nat /\ starts \subseteq 1 .. Len(s)
  OBVIOUS
<1> HIDE DEF starts
<1>3. Cardinality(starts) <= Cardinality(1 .. Len(s)) /\ Cardinality(starts) \in Nat
  BY <1>2, InOneTo, FS_Subset, FS_CardinalityType
<1> QED
  BY <1>1, <1>2, <1>3, InOneTo

LEMMA DecodedIsText ==
    ASSUME NEW s \in Seq(Nat)
    PROVE  \E S : Decode(s) \in Seq(S) /\ Len(Decode(s)) <= Len(s)
<1>1. PICK n \in 0 .. Len(s) : DOMAIN Decode(s) = 1 .. n
  BY DecodeShortens
<1> DEFINE S == { Decode(s)[k] : k \in 1 .. n }
<1>2. n \in Nat /\ Len(s) \in Nat /\ n <= Len(s)
  BY <1>1
<1>3. Decode(s) = [k \in 1 .. n |-> Decode(s)[k]]
  BY <1>1 DEF Decode
<1>4. Decode(s) \in [1 .. n -> S]
  BY <1>3
<1> HIDE DEF S
<1>5. Decode(s) \in Seq(S)
  BY <1>2, <1>4, SeqDef
<1>6. Len(Decode(s)) = n
  BY <1>1, <1>2, <1>5
<1> QED
  BY <1>2, <1>5, <1>6

LEMMA SliceShortens ==
    ASSUME NEW S, NEW s \in Seq(S), NEW from \in Nat, NEW size \in Nat
    PROVE  Len(Slice(s, from, size)) <= size
<1> DEFINE upto == IF Len(s) < from + size THEN Len(s) ELSE from + size
<1>1. Len(s) \in Nat /\ upto \in Nat /\ upto <= Len(s) /\ upto <= from + size
  OBVIOUS
<1>2. \A i \in from + 1 .. upto : s[i] \in S
  BY <1>1
<1>3. Slice(s, from, size) = SubSeq(s, from + 1, upto)
  BY DEF Slice
<1> HIDE DEF upto
<1>4. Len(SubSeq(s, from + 1, upto)) = IF from + 1 <= upto THEN upto - (from + 1) + 1 ELSE 0
  BY <1>1, <1>2, SubSeqProperties
<1> QED
  BY <1>1, <1>3, <1>4

\* An answer that carries bytes of a file carries no more than MaxOps of them.
Bounded(r) ==
    answer[r].bytes = << >> \/ Ask(r).op = "checksum" \/ Len(answer[r].bytes) <= MaxOps

LEMMA SuccessIsBounded ==
    ASSUME NEW a \in AskTypes, Within(a), a.op \in FileOperations, a.op # "checksum",
           NEW out, GoodOut(out), OutSize(a, out) < MaxOps
    PROVE  \/ Success(a, out).bytes = << >>
           \/ Len(Success(a, out).bytes) <= MaxOps
<1>0. { "head", "tail", "view", "download", "upload" }
        \cap (DOMAIN InspectOps \cup DOMAIN AttributeOps \cup DOMAIN TreeOps \cup DOMAIN ArchiveOps) = {}
  BY DEF InspectOps, AttributeOps, TreeOps, ArchiveOps
<1>1. MaxOps \in Nat /\ out.bytes \in Seq(Nat) /\ Len(out.bytes) \in Nat
  BY OpsAssumption DEF GoodOut
<1>2. ASSUME a.op # "download" PROVE Len(out.bytes) <= MaxOps
  <2>1. OutSize(a, out) = Len(out.bytes) + 2 * Cardinality(out.names)
    BY <1>2, Zenon DEF OutSize
  <2>2. Cardinality(out.names) \in Nat
    BY FS_CardinalityType DEF GoodOut
  <2> QED
    BY <1>1, <2>1, <2>2
<1>3. PICK S : Decode(out.bytes) \in Seq(S) /\ Len(Decode(out.bytes)) <= Len(out.bytes)
  BY <1>1, DecodedIsText
<1>4. Len(Decode(out.bytes)) \in Nat
  BY <1>3
<1>5. CASE a.op = "head"
  <2>1. Success(a, out) = HeadAnswer(a, out.bytes)
    BY <1>0, <1>5, Zenon DEF Success
  <2>2. Success(a, out).bytes = Decode(out.bytes)
    BY <2>1 DEF HeadAnswer
  <2> QED
    BY <1>1, <1>2, <1>3, <1>4, <1>5, <2>2
<1>6. CASE a.op = "tail"
  <2>1. Success(a, out) = TailAnswer(a, out.bytes)
    BY <1>0, <1>6, Zenon DEF Success
  <2>2. Success(a, out).bytes = Decode(out.bytes)
    BY <2>1 DEF TailAnswer
  <2> QED
    BY <1>1, <1>2, <1>3, <1>4, <1>6, <2>2
<1>7. CASE a.op = "view"
  <2>1. Success(a, out) = ViewAnswer(a, out.bytes)
    BY <1>0, <1>7, Zenon DEF Success
  <2>2. Success(a, out).bytes = Chunk(Decode(out.bytes), a)
    BY <2>1 DEF ViewAnswer, Coded, NoAnswer
  <2>3. a.offset \in Nat /\ a.bytes \in Nat \ {0} /\ a.bytes <= MaxOps
    BY <1>1, <1>7 DEF Within, ViewRefused, AskTypes
  <2>4. \A m \in Nat, n \in Nat \ {0} : m % n \in Nat
    BY BlockStart
  <2>5. Len(Chunk(Decode(out.bytes), a)) <= a.bytes
    BY <1>3, <2>3, <2>4, SliceShortens DEF Chunk
  <2>6. Len(Chunk(Decode(out.bytes), a)) <= MaxOps
    <3>1. Chunk(Decode(out.bytes), a) \in Seq(S)
      <4> DEFINE n == a.offset % a.bytes
                 upto == IF Len(Decode(out.bytes)) < n + a.bytes THEN Len(Decode(out.bytes)) ELSE n + a.bytes
      <4>1. n \in Nat /\ upto \in Nat /\ upto <= Len(Decode(out.bytes)) /\ n + 1 \in Int /\ n + 1 >= 1
        BY <1>4, <2>3, <2>4
      <4>2. Chunk(Decode(out.bytes), a) = SubSeq(Decode(out.bytes), n + 1, upto)
        BY DEF Chunk, Slice
      <4> HIDE DEF n, upto
      <4>3. \A i \in n + 1 .. upto : Decode(out.bytes)[i] \in S
        BY <1>3, <1>4, <4>1
      <4> QED
        BY <1>3, <4>1, <4>2, <4>3, SubSeqProperties
    <3>2. Len(Chunk(Decode(out.bytes), a)) \in Nat
      BY <3>1
    <3> QED
      BY <1>1, <2>3, <2>5, <3>2
  <2> QED
    BY <2>2, <2>6
<1>8. CASE a.op = "download"
  <2>1. Success(a, out) = DownloadAnswer(out.bytes)
    BY <1>0, <1>8, Zenon DEF Success
  <2> QED
    BY <1>1, <2>1 DEF DownloadAnswer, Coded, NoAnswer
<1>9. CASE a.op = "upload"
  <2>1. Success(a, out) = Coded(204)
    BY <1>0, <1>9, Zenon DEF Success
  <2> QED
    BY <2>1 DEF Coded, NoAnswer
<1>10. CASE a.op \in { "file", "stat" }
  <2>1. Success(a, out) = [Coded(InspectOps[a.op]) EXCEPT !.bytes = out.bytes]
    <3>1. a.op \in DOMAIN InspectOps /\ a.op \notin { "head", "tail", "view", "download", "upload" }
      BY <1>10 DEF InspectOps
    <3>2. a.op \notin DOMAIN AttributeOps /\ a.op \notin DOMAIN TreeOps /\ a.op \notin DOMAIN ArchiveOps
      BY <1>10 DEF AttributeOps, TreeOps, ArchiveOps
    <3> QED
      BY <3>1, <3>2, Zenon DEF Success
  <2>2. Success(a, out).bytes = out.bytes
    BY <2>1 DEF Coded, NoAnswer
  <2> QED
    BY <1>2, <1>10, <2>2
<1>11. CASE a.op \in Silent
  BY <1>11, SilentCodes
<1> QED
  BY <1>5, <1>6, <1>7, <1>8, <1>9, <1>10, <1>11 DEF FileOperations, Silent

\* What a step does to the process and the answer of a request.
LEMMA RequestSteps ==
    ASSUME TypeInv, ControlInv, [Next]_vars, NEW r \in Requests
    PROVE  \/ answer'[r] = answer[r] /\ proc'[r].ask = proc[r].ask
           \/ answer'[r] = Coded(Waiting)
           \/ /\ \E code \in { 400, 413 } : answer'[r] = Coded(code)
              /\ proc'[r] = proc[r] /\ proc[r].state = "none"
           \/ /\ proc'[r] = proc[r] /\ UNCHANGED << tree, marks >> /\ Unanswered(r)
              /\ \/ \E code \in { 408, 413, 424 } : answer'[r] = Coded(code)
                 \/ /\ proc[r].state = "dead" \/ (proc[r].state = "over" /\ proc[r].errs # {})
                    /\ \E code \in { 400, 403, 404, 500 } :
                         answer'[r] = Coded(code) /\ code = ErrorCode(proc[r].errs)
                 \/ /\ proc[r].state = "over" /\ proc[r].errs = {}
                    /\ OutSize(proc[r].ask, proc[r].out) < MaxOps
                    /\ answer'[r] = Success(proc[r].ask, proc[r].out)
<1>0. r \in Actors /\ DOMAIN answer = Requests
  BY Partition DEF ControlInv
<1>1. CASE UNCHANGED vars
  BY <1>1 DEF vars, fileVars
<1>2. CASE \E me \in Actors : Runs(me)
  BY <1>0, <1>2, RunsKeep
<1>3. ASSUME NEW b \in Requests, Request(b), UNCHANGED jobVars
      PROVE  \/ answer'[r] = answer[r] /\ proc'[r].ask = proc[r].ask
             \/ answer'[r] = Coded(Waiting)
             \/ /\ \E code \in { 400, 413 } : answer'[r] = Coded(code)
                /\ proc'[r] = proc[r] /\ proc[r].state = "none"
  <2>0. proc[b].state = "none"
    BY <1>3 DEF Request, ControlInv, RequestInv
  <2>1. PICK a \in AskTypes :
         /\ a.op \in FileOperations
         /\ \/ /\ UNCHANGED proc
               /\ \E code \in { 400, 413 } : answer' = [answer EXCEPT ![b] = Coded(code)]
            \/ /\ Within(a)
               /\ answer' = [answer EXCEPT ![b] = Coded(Waiting)]
               /\ proc' = [proc EXCEPT ![b].state = "ready", ![b].ask = a]
    BY <1>3, RequestTyped
  <2>2. CASE r = b
    BY <1>0, <2>0, <2>1, <2>2
  <2>3. CASE r # b
    BY <1>0, <2>1, <2>3 DEF TypeInv
  <2> QED
    BY <2>2, <2>3
<1>4. ASSUME NEW b \in Requests, Stops(b), UNCHANGED << answer, jobVars >>
      PROVE  answer'[r] = answer[r] /\ proc'[r].ask = proc[r].ask
  <2>1. b \in Actors
    BY Partition
  <2> QED
    BY <1>0, <1>4, <2>1, StopsKeeps
<1>5. ASSUME NEW b \in Requests, Ends(b), UNCHANGED jobVars, b # r
      PROVE  answer'[r] = answer[r] /\ proc'[r].ask = proc[r].ask
  BY <1>0, <1>5 DEF Ends, OverLimit, Finish, ExecuteTimeout, ConnectionFails, Answer, fileVars
<1>6. ASSUME Ends(r)
      PROVE  /\ proc'[r] = proc[r] /\ UNCHANGED << tree, marks >> /\ Unanswered(r)
             /\ \/ \E code \in { 408, 413, 424 } : answer'[r] = Coded(code)
                \/ /\ proc[r].state = "dead" \/ (proc[r].state = "over" /\ proc[r].errs # {})
                   /\ \E code \in { 400, 403, 404, 500 } :
                        answer'[r] = Coded(code) /\ code = ErrorCode(proc[r].errs)
                \/ /\ proc[r].state = "over" /\ proc[r].errs = {}
                   /\ OutSize(proc[r].ask, proc[r].out) < MaxOps
                   /\ answer'[r] = Success(proc[r].ask, proc[r].out)
  <2>0. proc'[r] = proc[r] /\ UNCHANGED << tree, marks >> /\ Unanswered(r)
    BY <1>6 DEF Ends, OverLimit, Finish, ExecuteTimeout, ConnectionFails, fileVars
  <2>1. CASE OverLimit(r) \/ ExecuteTimeout(r) \/ ConnectionFails(r)
    BY <1>0, <2>0, <2>1 DEF OverLimit, ExecuteTimeout, ConnectionFails, Answer
  <2>2. CASE Finish(r) /\ proc[r].state = "dead"
    <3>1. PICK code \in { 408, ErrorCode(proc[r].errs) } : answer'[r] = Coded(code)
      BY <1>0, <2>2 DEF Finish, Answer
    <3> QED
      BY <2>0, <2>2, <3>1, ErrorCodes
  <2>3. CASE Finish(r) /\ proc[r].state = "over"
    <3>1. /\ OutSize(proc[r].ask, proc[r].out) < MaxOps
          /\ answer'[r] = IF proc[r].errs = {} THEN Success(proc[r].ask, proc[r].out)
                          ELSE Coded(ErrorCode(proc[r].errs))
      BY <1>0, <2>3 DEF Finish, Answer
    <3> QED
      BY <2>0, <2>3, <3>1, ErrorCodes
  <2> QED
    BY <1>6, <2>1, <2>2, <2>3 DEF Ends, Finish
<1>7. ASSUME NEW j \in Jobs, Controls(j), UNCHANGED answer
      PROVE  answer'[r] = answer[r] /\ proc'[r].ask = proc[r].ask
  BY <1>0, <1>7, ControlsKeep, Partition
<1> QED
  BY <1>1, <1>2, <1>3, <1>4, <1>5, <1>6, <1>7, StepKinds

LEMMA BoundedStep ==
    ASSUME TypeInv, ControlInv, [Next]_vars, NEW r \in Requests, Bounded(r)
    PROVE  Bounded(r)'
<1>0. \A code : Coded(code).bytes = << >>
  BY DEF Coded, NoAnswer
<1>1. CASE answer'[r] = answer[r] /\ proc'[r].ask = proc[r].ask
  BY <1>1 DEF Bounded, Ask
<1>2. CASE \E code : answer'[r] = Coded(code)
  BY <1>0, <1>2 DEF Bounded
<1>3. CASE /\ proc'[r] = proc[r] /\ proc[r].state = "over"
           /\ OutSize(proc[r].ask, proc[r].out) < MaxOps
           /\ answer'[r] = Success(proc[r].ask, proc[r].out)
  <2>1. GoodProc(proc[r]) /\ proc[r].ask.op \in FileOperations
    BY <1>3, Partition DEF TypeInv, GoodActor, ControlInv, RequestInv
  <2>2. proc[r].ask \in AskTypes /\ Within(proc[r].ask) /\ GoodOut(proc[r].out)
    BY <2>1 DEF GoodProc
  <2> QED
    BY <1>3, <2>1, <2>2, SuccessIsBounded DEF Bounded, Ask
<1> QED
  BY <1>1, <1>2, <1>3, RequestSteps

\* No answer of the file endpoints carries more of a file than max_ops_file_size:
\* SSHClient.execute() counts what the command writes, and the endpoints (router.py)
\* decode, cut or compare what it has read.
THEOREM NoMoreThanTheLimit == Spec => []WithinLimit
<1>1. Init => TypeInv /\ ControlInv /\ \A r \in Requests : Bounded(r)
  BY InitTyped DEF Init, NoAnswer, Bounded
<1>2. TypeInv /\ ControlInv /\ (\A r \in Requests : Bounded(r)) /\ [Next]_vars
        => (TypeInv /\ ControlInv /\ \A r \in Requests : Bounded(r))'
  BY TypedStep, BoundedStep
<1>3. (\A r \in Requests : Bounded(r)) => WithinLimit
  BY OpsAssumption DEF Bounded, WithinLimit
<1> QED
  BY <1>1, <1>2, <1>3, PTL DEF Spec

-----------------------------------------------------------------------------
(* Where a command changes the tree.                                        *)

Meant(t, a, q) ==
    \/ \E p \in { a.path, a.to, Real(t, a.path), Real(t, a.to),
                  Append(Real(t, a.to), Last(a.path)) } \ { Root } : IsPrefix(p, q)
    \/ a.op = "mkdir" /\ IsPrefix(q, a.path)

\* A result whose tree is the one there was, or another one.
Yields(r, t, t2) == r.tree = t \/ r.tree = t2

LEMMA ResultTrees ==
    ASSUME NEW t, NEW errs, NEW t2
    PROVE  /\ Yields(Fails(t, errs), t, t2) /\ Yields(Fails(t2, errs), t, t2)
           /\ \A left : Yields(Did(t2, left, errs), t, t2) /\ Yields(Did(t, left, errs), t, t2)
           /\ \A did : Yields(did, t, t2) => Yields(Unless(t, errs, did), t, t2)
           /\ \A bytes, names : Yields(Shows(t, errs, bytes, names), t, t2)
           /\ \A path : Yields(AndList(t, errs, t2, path), t, t2)
<1>1. \A tt, left, e : Did(tt, left, e).tree = tt /\ Fails(tt, e).tree = tt
  BY DEF Did, Fails
<1>2. \A did : Yields(did, t, t2) => Yields(Unless(t, errs, did), t, t2)
  BY <1>1 DEF Unless, Yields
<1>3. \A path : Yields(AndList(t, errs, t2, path), t, t2)
  BY <1>1 DEF AndList, Yields
<1>4. \A bytes, names : Yields(Shows(t, errs, bytes, names), t, t2)
  BY DEF Shows, Fails, Did, Yields
<1> QED
  BY <1>1, <1>2, <1>3, <1>4 DEF Yields

LEMMA TruncatesThere ==
    ASSUME NEW t, GoodTree(t), NEW x, NEW kind, NEW me, NEW q \in Paths,
           Truncate(t, x, kind, me).tree[q] # t[q]
    PROVE  q = x
<1>1. Truncate(t, x, kind, me).tree =
         [t EXCEPT ![x] = [New(kind, me, x) EXCEPT !.id = IF t[x].kind = "absent" THEN @ ELSE t[x].id]]
  BY DEF Truncate, Did
<1> QED
  BY <1>1 DEF GoodTree

LEMMA RootIsThere ==
    ASSUME NEW t
    PROVE  Way(t, Root) = {} /\ Find(t, Root) = {} /\ Real(t, Root) = Root /\ Reach(t, Root) = {}
<1>1. Real(t, Root) = Root
  BY PathsArePaths DEF Real
<1>2. Way(t, Root) = {}
  <2>1. Root \in Path /\ Len(Root) = 0
    BY DEF Path, Root
  <2>2. Front(Root) = Root
    BY DEF Front, Root
  <2>3. \A q \in Prefixes(Root) : q = Root
    BY <2>1, PrefixesMean, PrefixOrder
  <2> QED
    BY <2>2, <2>3 DEF Way
<1>3. Find(t, Root) = {}
  BY <1>2 DEF Find, OrElse, When
<1> QED
  BY <1>1, <1>2, <1>3 DEF Reach, OrElse, When

LEMMA IntoWhere ==
    ASSUME NEW t, GoodTree(t), NEW p \in Paths, NEW target \in Paths \cup { Root }
    PROVE  /\ Into(t, p, target) \in { target, Append(Real(t, target), Last(p)) }
           /\ Into(t, p, target) # Root
<1>1. Into(t, p, target) = IF Reach(t, target) = {} /\ Dir(t, Real(t, target))
                           THEN Append(Real(t, target), Last(p)) ELSE target
  BY DEF Into
<1>2. Append(Real(t, target), Last(p)) # Root
  <2>1. Real(t, target) \in Path
    <3>1. Real(t, target) \in Paths \cup { Root }
      BY RealPath
    <3> QED
      BY <3>1, PathsArePaths
  <2>2. \A s \in Path : \A e \in STRING : Append(s, e) # Root
    <3>1. ASSUME NEW s \in Path, NEW e \in STRING PROVE Append(s, e) # << >>
      <4>1. PICK x : x = Append(s, e)
        OBVIOUS
      <4>2. Len(x) = Len(s) + 1 /\ Len(s) \in Nat
        BY <4>1, AppendProperties, LenProperties DEF Path
      <4>3. x # << >>
        BY <4>2
      <4> QED
        BY <4>1, <4>3
    <3> QED
      BY <3>1 DEF Root
  <2>3. Last(p) \in STRING
    <3>1. p \in Path /\ Len(p) \in Nat \ {0}
      BY PathsArePaths DEF Path, Root
    <3> QED
      BY <3>1 DEF Path, Last
  <2> QED
    BY <2>1, <2>2, <2>3
<1>3. CASE target = Root
  BY <1>1, <1>2, <1>3, RootIsThere DEF Dir
<1>4. CASE target # Root
  BY <1>1, <1>2, <1>4
<1> QED
  BY <1>1, <1>3, <1>4

LEMMA CompressYields ==
    ASSUME NEW t, NEW a, NEW me
    PROVE  Yields(Compress(t, a, me), t, Truncate(t, Real(t, a.to), "cut", me).tree)
<1>1. PICK did : did = Truncate(t, Real(t, a.to), "cut", me)
  OBVIOUS
<1>2. "tree" \in DOMAIN did
  BY <1>1 DEF Truncate, Did
<1>3. ASSUME NEW errs
      PROVE  Yields([did EXCEPT !.left = Matching(t, a), !.errs = errs, !.dest = Base(t, a)], t, did.tree)
  BY <1>2 DEF Yields
<1>4. PICK errs : Compress(t, a, me) = Unless(t, Writable(t, a.to),
             [did EXCEPT !.left = Matching(t, a), !.errs = errs, !.dest = Base(t, a)])
  BY <1>1, Zenon DEF Compress
<1>5. PICK r : /\ r = [did EXCEPT !.left = Matching(t, a), !.errs = errs, !.dest = Base(t, a)]
               /\ Yields(r, t, did.tree)
  BY <1>3
<1>6. Compress(t, a, me) = Unless(t, Writable(t, a.to), r)
  BY <1>4, <1>5
<1>7. Yields(Compress(t, a, me), t, did.tree)
  <2>1. \A errs2, t2, d : Yields(d, t, t2) => Yields(Unless(t, errs2, d), t, t2)
    BY ResultTrees
  <2>2. Yields(Unless(t, Writable(t, a.to), r), t, did.tree)
    BY <1>5, <2>1
  <2> QED
    BY <1>6, <2>2
<1> QED
  BY <1>1, <1>7

\* Commands that change nothing when they begin.
LEMMA TreeKept ==
    ASSUME NEW t, NEW a
    PROVE  /\ Chown(t, a).tree = t /\ Rm(t, a).tree = t /\ Extract(t, a).tree = t
           /\ Cp(t, a).tree = t /\ Receive(t, a).tree = t /\ Send(t, a).tree = t
           /\ FileType(t, a).tree = t /\ Stat(t, a).tree = t /\ Ls(t, a).tree = t
           /\ Read(t, a).tree = t
<1>1. Yields(Chown(t, a), t, t)
  BY ResultTrees DEF Chown
<1>2. Yields(Rm(t, a), t, t)
  BY ResultTrees DEF Rm
<1>3. Yields(Extract(t, a), t, t)
  <2>1. \A left, dest, cargo : Yields([Did(t, left, {}) EXCEPT !.dest = dest, !.cargo = cargo], t, t)
    BY DEF Did, Yields
  <2> QED
    BY <2>1, ResultTrees DEF Extract
<1>4. Yields(Cp(t, a), t, t)
  <2>1. \A left, errs, dest : Yields([Did(t, left, errs) EXCEPT !.dest = dest], t, t)
    BY DEF Did, Yields
  <2> QED
    BY <2>1, ResultTrees DEF Cp
<1>5. Yields(Receive(t, a), t, t) /\ Yields(Send(t, a), t, t)
  BY ResultTrees DEF Receive, Send
<1>6. Yields(Ls(t, a), t, t)
  <2>1. \E errs, errs2, names : Ls(t, a) = Unless(t, errs2, Shows(t, errs, << >>, names))
    BY Zenon DEF Ls
  <2> QED
    BY <2>1, ResultTrees
<1>7. Yields(FileType(t, a), t, t) /\ Yields(Stat(t, a), t, t) /\ Yields(Read(t, a), t, t)
  BY ResultTrees DEF FileType, Stat, Read
<1> QED
  BY <1>1, <1>2, <1>3, <1>4, <1>5, <1>6, <1>7 DEF Yields

LEMMA BeginChanges ==
    ASSUME NEW t, GoodTree(t), NEW a \in AskTypes, NEW me, NEW q \in Paths,
           Begin(t, a, me).tree[q] # t[q]
    PROVE  Meant(t, a, q)
<1>0. /\ a.path \in Paths /\ a.path \in Path /\ a.path # Root /\ a.to \in Paths \cup { Root }
      /\ Real(t, a.path) \in Paths /\ Real(t, a.path) # Root
      /\ q \in Path /\ q # Root /\ IsPrefix(q, q)
  BY PathsArePaths, RealPath, PrefixOrder DEF AskTypes
<1>1. ASSUME Chmod(t, a).tree[q] # t[q] PROVE Meant(t, a, q)
  <2>1. Yields(Chmod(t, a), t, [t EXCEPT ![Real(t, a.path)].open = (a.word = "rw")])
    BY ResultTrees DEF Chmod
  <2>2. q = Real(t, a.path)
    BY <1>1, <2>1 DEF Yields, GoodTree
  <2> QED
    BY <1>0, <2>2 DEF Meant
<1>2. ASSUME a.op = "mkdir", Mkdir(t, a, me).tree[q] # t[q] PROVE Meant(t, a, q)
  <2> DEFINE made == { x \in (IF a.flag THEN Prefixes(a.path) ELSE { a.path }) \ { Root } :
                          t[x].kind = "absent" }
  <2>1. Yields(Mkdir(t, a, me), t, [x \in Paths |-> IF x \in made THEN New("dir", me, x) ELSE t[x]])
    BY ResultTrees DEF Mkdir
  <2>2. q \in made
    <3> HIDE DEF made
    <3> QED
      BY <1>2, <2>1 DEF Yields
  <2>3. q \in Prefixes(a.path) \cup { a.path }
    BY <2>2
  <2>4. IsPrefix(q, a.path)
    BY <1>0, <2>3, PrefixesMean
  <2> QED
    BY <1>2, <2>4 DEF Meant
<1>3. ASSUME Symlink(t, a, me).tree[q] # t[q] PROVE Meant(t, a, q)
  <2> DEFINE at == Into(t, a.path, a.to)
             link == [New("link", me, at) EXCEPT !.to = a.path]
  <2>1. Yields(Symlink(t, a, me), t, [t EXCEPT ![at] = link])
    BY ResultTrees DEF Symlink
  <2>2. q = at
    <3> HIDE DEF at, link
    <3> QED
      BY <1>3, <2>1 DEF Yields, GoodTree
  <2>3. q \in { a.to, Append(Real(t, a.to), Last(a.path)) }
    BY <1>0, <2>2, IntoWhere
  <2> QED
    BY <1>0, <2>3 DEF Meant
<1>4. ASSUME Upload(t, a, me).tree[q] # t[q] PROVE Meant(t, a, q)
  <2> DEFINE did == Truncate(t, Real(t, a.path), "file", me)
  <2>1. Yields(Upload(t, a, me), t, did.tree)
    <3>1. Yields(did, t, did.tree)
      BY DEF Yields
    <3>2. Upload(t, a, me) = Unless(t, Writable(t, a.path), did)
      BY DEF Upload
    <3> HIDE DEF did
    <3> QED
      BY <3>1, <3>2, ResultTrees
  <2>2. did.tree[q] # t[q]
    BY <1>4, <2>1 DEF Yields
  <2>3. q = Real(t, a.path)
    BY <2>2, TruncatesThere
  <2> QED
    BY <1>0, <2>3 DEF Meant
<1>5. ASSUME WormholeReceive(t, a).tree[q] # t[q] PROVE Meant(t, a, q)
  <2>1. Yields(WormholeReceive(t, a), t, [x \in Paths |-> IF IsPrefix(a.path, x) THEN Absent ELSE t[x]])
    BY ResultTrees DEF WormholeReceive
  <2>2. IsPrefix(a.path, q)
    BY <1>5, <2>1 DEF Yields
  <2> QED
    BY <1>0, <2>2 DEF Meant
<1>6. ASSUME Compress(t, a, me).tree[q] # t[q] PROVE Meant(t, a, q)
  <2> DEFINE did == Truncate(t, Real(t, a.to), "cut", me)
  <2>2. Yields(Compress(t, a, me), t, did.tree)
    BY CompressYields
  <2>3. did.tree[q] # t[q]
    BY <1>6, <2>2 DEF Yields
  <2>4. q = Real(t, a.to)
    BY <2>3, TruncatesThere
  <2> QED
    BY <1>0, <2>4 DEF Meant
<1>7. ASSUME Mv(t, a).tree[q] # t[q] PROVE Meant(t, a, q)
  <2> DEFINE at == Into(t, a.path, a.to)
             moved == [x \in Paths |->
                         IF IsPrefix(at, x) /\ a.path \o Relative(at, x) \in Paths
                         THEN t[a.path \o Relative(at, x)]
                         ELSE IF IsPrefix(a.path, x) THEN Absent ELSE t[x]]
  <2>1. Yields(Mv(t, a), t, moved)
    BY ResultTrees DEF Mv
  <2>2. moved[q] # t[q]
    BY <1>7, <2>1 DEF Yields
  <2>3. IsPrefix(at, q) \/ IsPrefix(a.path, q)
    BY <2>2
  <2>4. at # Root /\ at \in { a.to, Append(Real(t, a.to), Last(a.path)) }
    BY <1>0, IntoWhere
  <2> HIDE DEF at
  <2> QED
    BY <1>0, <2>3, <2>4 DEF Meant
<1>8. /\ Yields(Chown(t, a), t, t) /\ Yields(Rm(t, a), t, t) /\ Yields(Extract(t, a), t, t)
      /\ Yields(Cp(t, a), t, t) /\ Yields(Receive(t, a), t, t) /\ Yields(Send(t, a), t, t)
      /\ Yields(FileType(t, a), t, t) /\ Yields(Stat(t, a), t, t) /\ Yields(Ls(t, a), t, t)
      /\ Yields(Read(t, a), t, t)
  BY TreeKept DEF Yields
<1>9. ~Yields(Begin(t, a, me), t, t)
  BY DEF Yields
<1> QED
  BY <1>1, <1>2, <1>3, <1>4, <1>5, <1>6, <1>7, <1>8, <1>9, Zenon DEF Begin

\* What is left of a command that works under one of its paths.
Aimed(p) ==
    /\ p.ask.op \in { "rm", "receive", "wormhole receive" } =>
          \A q \in p.left : IsPrefix(p.ask.path, q)
    /\ p.ask.op = "extract" => \A q \in p.left : IsPrefix(p.ask.to, q)

LEMMA BeginAims ==
    ASSUME NEW t, GoodTree(t), NEW a \in AskTypes, NEW me, NEW p,
           p.ask = a, p.left = Begin(t, a, me).left
    PROVE  Aimed(p)
<1>0. a.path \in Path /\ IsPrefix(a.path, a.path) /\ a.to \in Path /\ Real(t, a.path) \in Paths
  BY PathsArePaths, RealPath, PrefixOrder DEF AskTypes
<1>1. \A t2, left, errs : Did(t2, left, errs).left = left /\ Fails(t2, errs).left = {}
  BY DEF Did, Fails
<1>2. \A x, errs, did : x \in Unless(t, errs, did).left => x \in did.left
  BY <1>1 DEF Unless
<1>3. ASSUME NEW q \in Rm(t, a).left PROVE IsPrefix(a.path, q)
  <2>1. q \in Visited(t, a.path)
    BY <1>1, <1>2 DEF Rm
  <2> QED
    BY <2>1 DEF Visited, Under
<1>4. ASSUME NEW q \in Receive(t, a).left PROVE IsPrefix(a.path, q)
  BY <1>0, <1>1 DEF Receive
<1>5. ASSUME NEW q \in WormholeReceive(t, a).left PROVE IsPrefix(a.path, q)
  BY <1>0, <1>1, <1>2 DEF WormholeReceive
<1>6. ASSUME NEW q \in Extract(t, a).left PROVE IsPrefix(a.to, q)
  <2> DEFINE x == t[Real(t, a.path)]
             did == [Did(t, { a.to \o m.name : m \in x.holds }, {}) EXCEPT !.dest = a.to, !.cargo = x.holds]
  <2>1. did.left = { a.to \o m.name : m \in x.holds }
    BY DEF Did
  <2>2. \E errs, errs2 : Extract(t, a) = Unless(t, errs, Unless(t, errs2, did))
    BY Zenon DEF Extract
  <2> HIDE DEF did
  <2>3. q \in did.left
    BY <1>2, <1>6, <2>2
  <2>4. PICK m \in x.holds : q = a.to \o m.name
    BY <2>1, <2>3
  <2>5. m.name \in Path
    BY <1>0, Held DEF GoodTree, GoodNode, GoodMember
  <2> QED
    BY <1>0, <2>4, <2>5, Concatenation
<1>7. a.op = "rm" => p.left = Rm(t, a).left
  BY Zenon DEF Begin
<1>8. a.op = "receive" => p.left = Receive(t, a).left
  BY Zenon DEF Begin
<1>9. a.op = "wormhole receive" => p.left = WormholeReceive(t, a).left
  BY Zenon DEF Begin
<1>10. a.op = "extract" => p.left = Extract(t, a).left
  BY Zenon DEF Begin
<1> QED
  BY <1>3, <1>4, <1>5, <1>6, <1>7, <1>8, <1>9, <1>10, Zenon DEF Aimed

WriteStops(b) ==
    /\ proc[b].state = "going" /\ proc[b].ask.op = "upload"
    /\ proc'[b].ask = proc[b].ask
    /\ proc'[b].state = "over" /\ proc'[b].left = {} /\ proc'[b].errs = { NoSpace }
    /\ UNCHANGED << tree, marks >>

\* What happens to a process in a step of the system.
LEMMA ActorSteps ==
    ASSUME TypeInv, ControlInv, [Next]_vars, NEW b \in Actors
    PROVE  \/ proc'[b] = proc[b]
           \/ /\ Fresh(proc'[b]) /\ proc[b].state = "none" /\ proc'[b].state \in { "none", "ready" }
              /\ UNCHANGED << tree, marks >>
           \/ /\ proc'[b] = [proc[b] EXCEPT !.state = "dead"] /\ proc'[b].state = "dead"
              /\ proc[b].state \in { "ready", "going" }
              /\ UNCHANGED << tree, marks >>
           \/ WriteStops(b)
           \/ Runs(b)
<1>0. TypeInv'
  BY TypedStep
<1>1. CASE UNCHANGED vars
  BY <1>1 DEF vars, fileVars
<1>2. CASE \E me \in Actors : Runs(me)
  BY <1>2, RunsKeep
<1>3. ASSUME NEW r \in Requests, Request(r), UNCHANGED jobVars
      PROVE  \/ proc'[b] = proc[b]
             \/ /\ Fresh(proc'[b]) /\ proc[b].state = "none" /\ proc'[b].state \in { "none", "ready" }
                /\ UNCHANGED << tree, marks >>
  <2>1. PICK a \in AskTypes :
         \/ UNCHANGED proc
         \/ proc' = [proc EXCEPT ![r].state = "ready", ![r].ask = a]
    BY <1>3, RequestTyped
  <2>2. r \in Actors /\ UNCHANGED << tree, marks >>
    BY <1>3, Partition DEF Request
  <2>3. CASE r # b
    BY <2>1, <2>3 DEF TypeInv
  <2>4. CASE r = b
    <3>1. proc'[b] = proc[b] \/ proc'[b].state = "ready"
      BY <2>1, <2>4 DEF TypeInv, GoodActor, GoodProc, Fresh, Fields
    <3>2. proc[b].state = "none"
      BY <1>3, <2>4 DEF Request, ControlInv, RequestInv
    <3> QED
      BY <1>0, <2>2, <3>1, <3>2 DEF TypeInv, GoodActor
  <2> QED
    BY <2>3, <2>4
<1>4. ASSUME Dies(b)
      PROVE  /\ proc'[b] = [proc[b] EXCEPT !.state = "dead"] /\ proc'[b].state = "dead"
             /\ proc[b].state \in { "ready", "going" }
             /\ UNCHANGED << tree, marks >>
  BY <1>4, DiesKeeps DEF Dies, TypeInv
<1>5. ASSUME WriteFails(b) PROVE WriteStops(b)
  <2>1. GoodProc(proc[b])
    BY <1>5 DEF WriteFails, TypeInv, GoodActor
  <2> QED
    BY <1>5, <2>1 DEF WriteFails, WriteStops, TypeInv, GoodProc, Fields
<1>6. ASSUME NEW r \in Requests, Stops(r), UNCHANGED << answer, jobVars >>
      PROVE  \/ proc'[b] = proc[b]
             \/ /\ proc'[b] = [proc[b] EXCEPT !.state = "dead"] /\ proc'[b].state = "dead"
                /\ proc[b].state \in { "ready", "going" }
                /\ UNCHANGED << tree, marks >>
             \/ WriteStops(b)
  <2>1. CASE r # b
    BY <1>6, <2>1, StopsKeeps, Partition
  <2>2. CASE r = b
    BY <1>4, <1>6, <1>5, <2>2 DEF Stops
  <2> QED
    BY <2>1, <2>2
<1>7. ASSUME NEW r \in Requests, Ends(r), UNCHANGED jobVars PROVE proc'[b] = proc[b]
  BY <1>7 DEF Ends, OverLimit, Finish, ExecuteTimeout, ConnectionFails, fileVars
<1>8. ASSUME NEW j \in Jobs, Controls(j), UNCHANGED answer
      PROVE  \/ proc'[b] = proc[b]
             \/ /\ Fresh(proc'[b]) /\ proc[b].state = "none" /\ proc'[b].state \in { "none", "ready" }
                /\ UNCHANGED << tree, marks >>
             \/ /\ proc'[b] = [proc[b] EXCEPT !.state = "dead"] /\ proc'[b].state = "dead"
                /\ proc[b].state \in { "ready", "going" }
                /\ UNCHANGED << tree, marks >>
  <2>1. UNCHANGED << tree, marks >> /\ \A c \in Actors : c # j => proc'[c] = proc[c]
    BY <1>8, ControlsKeep
  <2>2. CASE b # j
    BY <2>1, <2>2
  <2>3. CASE b = j
    <3>1. CASE Posts(j)
      <4>1. PICK a \in AskTypes : Within(a)
              /\ \E refusal, step : step \in { "stat", "asked" } /\ Post(j, a, refusal, step)
        BY <3>1, PostsTyped
      <4>2. UNCHANGED proc \/ proc' = [proc EXCEPT ![j].ask = a]
        BY <4>1 DEF Post
      <4>3. job[j] = "none" /\ proc[j].state = "none"
        BY <4>1 DEF Post, ControlInv, JobInv
      <4>4. proc'[j].state = "none"
        BY <2>3, <4>2, <4>3 DEF TypeInv, GoodActor, Fresh, Fields
      <4> QED
        BY <1>0, <2>1, <2>3, <4>3, <4>4 DEF TypeInv, GoodActor
    <3>2. CASE Look(j) \/ LookFails(j) \/ Submit(j) \/ SubmitFails(j) \/ Confirm(j) \/ ReplyLost(j) \/ EndJob(j)
      BY <3>2 DEF Look, LookFails, Submit, SubmitFails, Confirm, ReplyLost, EndJob, fileVars
    <3>3. CASE StartJob(j)
      <4>1. job[j] = "queued" /\ proc' = [proc EXCEPT ![j].state = "ready"]
        BY <3>3 DEF StartJob
      <4>2. proc[j].state = "none"
        BY <4>1 DEF ControlInv, JobInv
      <4>3. proc'[j].state = "ready"
        BY <2>3, <4>1, <4>2 DEF TypeInv, GoodActor, Fresh, Fields
      <4> QED
        BY <1>0, <2>1, <2>3, <4>2, <4>3 DEF TypeInv, GoodActor
    <3>4. CASE JobDies(j)
      BY <1>4, <2>3, <3>4 DEF JobDies
    <3> QED
      BY <1>8, <3>1, <3>2, <3>3, <3>4 DEF Controls
  <2> QED
    BY <2>2, <2>3
<1> QED
  BY <1>1, <1>2, <1>3, <1>6, <1>7, <1>8, StepKinds

\* Nothing but the step of a process changes the tree.
LEMMA OnlyRunsChange ==
    ASSUME TypeInv, ControlInv, [Next]_vars, ~ \E b \in Actors : Runs(b)
    PROVE  UNCHANGED << tree, marks >>
<1>1. CASE UNCHANGED vars
  BY <1>1 DEF vars, fileVars
<1>2. CASE \E b \in Requests : Request(b)
  BY <1>2 DEF Request
<1>3. CASE \E b \in Requests : Stops(b)
  BY <1>3 DEF Stops, Dies, WriteFails
<1>4. CASE \E b \in Requests : Ends(b)
  BY <1>4 DEF Ends, OverLimit, Finish, ExecuteTimeout, ConnectionFails, fileVars
<1>5. CASE \E j \in Jobs : Controls(j) /\ UNCHANGED answer
  BY <1>5, ControlsKeep
<1> QED
  BY <1>1, <1>2, <1>3, <1>4, <1>5, StepKinds

\* A command that begins, or an entry that it works on.
LEMMA RunIsStep ==
    ASSUME TypeInv, NEW me \in Actors, Runs(me)
    PROVE  \E r, p :
             /\ GoodTree(r) /\ GoodProc(p) /\ p.ask = proc[me].ask /\ Moves(me, r, p)
             /\ \/ /\ proc[me].state = "ready"
                   /\ r = Begin(tree, proc[me].ask, me).tree
                   /\ p = Begun(me, Begin(tree, proc[me].ask, me))
                \/ \E q \in proc[me].left :
                     /\ proc[me].state = "going" /\ CanGoOn(proc[me]) /\ GoodProc(proc[me])
                     /\ q \in NextEntries(proc[me])
                     /\ r = Continue(tree, proc[me], q, me).tree
                     /\ p = Continue(tree, proc[me], q, me).proc
                     /\ GoodStep(Continue(tree, proc[me], q, me), proc[me])
<1>1. CASE BeginCommand(me)
  <2>1. LET r == Begin(tree, proc[me].ask, me) IN
           /\ GoodTree(r.tree) /\ GoodProc(Begun(me, r))
           /\ Begun(me, r).ask = proc[me].ask
           /\ Moves(me, r.tree, Begun(me, r))
    BY <1>1, BegunTyped
  <2> QED
    BY <1>1, <2>1 DEF BeginCommand
<1>2. CASE GoOn(me)
  <2>1. PICK q \in proc[me].left :
             LET r == Continue(tree, proc[me], q, me) IN
             /\ q \in NextEntries(proc[me]) /\ CanGoOn(proc[me]) /\ GoodProc(proc[me])
             /\ GoodStep(r, proc[me])
             /\ Moves(me, r.tree, r.proc)
    BY <1>2, GoesOnTyped
  <2> QED
    BY <1>2, <2>1 DEF GoOn, GoodStep
<1> QED
  BY <1>1, <1>2 DEF Runs

LEMMA AimedStep ==
    ASSUME TypeInv, ControlInv, [Next]_vars, NEW b \in Actors, Aimed(proc[b])
    PROVE  Aimed(proc[b])'
<1>1. CASE proc'[b] = proc[b]
  BY <1>1 DEF Aimed
<1>2. CASE Fresh(proc'[b])
  BY <1>2 DEF Aimed, Fresh
<1>3. CASE proc'[b] = [proc[b] EXCEPT !.state = "dead"]
  <2>1. proc'[b].ask = proc[b].ask /\ proc'[b].left = proc[b].left
    BY <1>3
  <2> QED
    BY <2>1 DEF Aimed
<1>4. CASE Runs(b)
  <2>1. PICK r, p :
             /\ GoodTree(r) /\ GoodProc(p) /\ p.ask = proc[b].ask /\ Moves(b, r, p)
             /\ \/ /\ proc[b].state = "ready"
                   /\ p = Begun(b, Begin(tree, proc[b].ask, b))
                \/ \E q : GoodStep(Continue(tree, proc[b], q, b), proc[b])
                          /\ p = Continue(tree, proc[b], q, b).proc
    BY <1>4, RunIsStep
  <2>2. proc'[b].ask = p.ask /\ proc'[b].left = p.left
    BY <2>1 DEF Moves, TypeInv, GoodProc, Fields
  <2>3. Aimed(p)
    <3>1. CASE proc[b].state = "ready" /\ p = Begun(b, Begin(tree, proc[b].ask, b))
      <4>1. GoodProc(proc[b]) /\ GoodTree(tree)
        BY <3>1 DEF TypeInv, GoodActor
      <4>2. p.left = Begin(tree, proc[b].ask, b).left
        BY <3>1, <4>1 DEF Begun, GoodProc, Fields
      <4> QED
        BY <2>1, <4>1, <4>2, BeginAims DEF GoodProc
    <3>2. CASE \E q : GoodStep(Continue(tree, proc[b], q, b), proc[b])
                          /\ p = Continue(tree, proc[b], q, b).proc
      <4>1. p.left \subseteq proc[b].left
        BY <3>2 DEF GoodStep
      <4> QED
        BY <2>1, <4>1 DEF Aimed
    <3> QED
      BY <2>1, <3>1, <3>2
  <2> QED
    BY <2>2, <2>3 DEF Aimed
<1>5. CASE WriteStops(b)
  BY <1>5 DEF Aimed, WriteStops
<1> QED
  BY <1>1, <1>2, <1>3, <1>4, <1>5, ActorSteps

\* Where a process that goes on changes the tree.
Reached(t, p, q) ==
    \/ q \in At(t, p.fd)
    \/ IsPrefix(p.ask.path, q)
    \/ p.ask.op = "extract" /\ IsPrefix(p.ask.to, q)
    \/ p.ask.op = "cp" /\ \E at \in Paths : IsPrefix(p.dest, at) /\ q \in { at, Real(t, at) }

LEMMA StepTrees ==
    ASSUME NEW t, NEW p, NEW x, NEW errs
    PROVE  /\ Stepped(p, x, t, errs).tree = t
           /\ \A t2 : Yields(Step(p, x, t, errs, t2), t, t2)
BY DEF Stepped, Step, Yields

LEMMA ContinueChanges ==
    ASSUME NEW t, GoodTree(t), NEW p, GoodProc(p), Aimed(p), NEW x \in p.left, NEW me,
           NEW q \in Paths, Continue(t, p, x, me).tree[q] # t[q]
    PROVE  Reached(t, p, q)
<1>0. DOMAIN t = Paths
  BY DEF GoodTree
<1>9. \A errs, t2 : Step(p, x, t, errs, t2).tree = t \/ Step(p, x, t, errs, t2).tree = t2
  BY DEF Step, Stepped
<1>1. ASSUME p.ask.op = "rm", RmEntry(t, p, x).tree[q] # t[q] PROVE Reached(t, p, q)
  <2>1. Yields(RmEntry(t, p, x), t, [t EXCEPT ![x] = Absent])
    BY StepTrees DEF RmEntry
  <2>2. q = x
    BY <1>0, <1>1, <2>1 DEF Yields
  <2> QED
    BY <1>1, <2>2 DEF Aimed, Reached
<1>2. ASSUME WriteByte(t, p, x).tree[q] # t[q] PROVE Reached(t, p, q)
  <2>1. WriteByte(t, p, x).tree = Put(t, p.fd, p.at + 1, p.ask.data[p.at + 1])
    BY DEF WriteByte
  <2>2. q \in At(t, p.fd)
    BY <1>2, <2>1 DEF Put
  <2> QED
    BY <2>2 DEF Reached
<1>3. ASSUME p.ask.op = "wormhole receive", ReplaceFile(t, p, x, me).tree[q] # t[q]
      PROVE  Reached(t, p, q)
  <2>1. PICK n : \E errs : \/ ReplaceFile(t, p, x, me) = Step(p, x, t, errs, t)
                           \/ ReplaceFile(t, p, x, me) = Step(p, x, t, errs, [t EXCEPT ![x] = n])
    BY Zenon DEF ReplaceFile
  <2>3. ReplaceFile(t, p, x, me).tree = t \/ ReplaceFile(t, p, x, me).tree = [t EXCEPT ![x] = n]
    BY <1>9, <2>1
  <2>2. q = x
    BY <1>0, <1>3, <2>3
  <2> QED
    BY <1>3, <2>2 DEF Aimed, Reached
<1>4. ASSUME AddMember(t, p, x).tree[q] # t[q] PROVE Reached(t, p, q)
  <2>1. \/ \E errs : AddMember(t, p, x) = Stepped(p, x, t, errs)
        \/ \E p2, m, e : AddMember(t, p, x) = Stepped(p2, x, Store(t, p.fd, m), e)
    BY Zenon DEF AddMember
  <2>2. \A p2, t2, e : Stepped(p2, x, t2, e).tree = t2
    BY DEF Stepped
  <2>3. \E m : AddMember(t, p, x).tree = Store(t, p.fd, m)
    BY <1>4, <2>1, <2>2
  <2>4. q \in At(t, p.fd)
    BY <1>4, <2>3 DEF Store
  <2> QED
    BY <2>4 DEF Reached
<1>5. ASSUME p.ask.op = "extract", Unpack(t, p, x, me).tree[q] # t[q] PROVE Reached(t, p, q)
  <2>1. PICK n : \E errs : \/ Unpack(t, p, x, me) = Step(p, x, t, errs, t)
                           \/ Unpack(t, p, x, me) = Step(p, x, t, errs, [t EXCEPT ![x] = n])
    BY Zenon DEF Unpack
  <2>2. Unpack(t, p, x, me).tree = t \/ Unpack(t, p, x, me).tree = [t EXCEPT ![x] = n]
    BY <1>9, <2>1
  <2>3. q = x
    BY <1>0, <1>5, <2>2
  <2> QED
    BY <1>5, <2>3 DEF Aimed, Reached
<1>6. ASSUME p.ask.op = "cp", CopyEntry(t, p, x, me).tree[q] # t[q] PROVE Reached(t, p, q)
  <2> DEFINE at == p.dest \o Relative(p.ask.path, x)
  <2>1. PICK n, n2, to : /\ to \in { at, Real(t, at) }
            /\ \E errs : \/ CopyEntry(t, p, x, me) = Step(p, x, t, errs, [t EXCEPT ![to] = n])
                         \/ CopyEntry(t, p, x, me) = Step(p, x, t, errs, t)
                         \/ CopyEntry(t, p, x, me) = Step(p, x, t, errs, [t EXCEPT ![at] = n2])
    <3> DEFINE from == IF p.ask.flag THEN Real(t, x) ELSE x
               to == IF t[from].kind \in FileKinds THEN Real(t, at) ELSE at
               n == [t[from] EXCEPT !.id = t[to].id]
               n2 == [t[from] EXCEPT !.id = [by |-> me, at |-> at]]
    <3>1. \E errs : \/ CopyEntry(t, p, x, me) = Step(p, x, t, errs, [t EXCEPT ![to] = n])
                    \/ CopyEntry(t, p, x, me) = Step(p, x, t, errs, t)
                    \/ CopyEntry(t, p, x, me) = Step(p, x, t, errs, [t EXCEPT ![at] = n2])
      BY ZenonT(30) DEF CopyEntry
    <3>2. to \in { at, Real(t, at) }
      OBVIOUS
    <3> QED
      BY <3>1, <3>2, Zenon
  <2>2. \/ CopyEntry(t, p, x, me).tree = t
        \/ CopyEntry(t, p, x, me).tree = [t EXCEPT ![to] = n]
        \/ CopyEntry(t, p, x, me).tree = [t EXCEPT ![at] = n2]
    BY <1>9, <2>1
  <2>3. q \in { at, Real(t, at) }
    BY <1>0, <1>6, <2>1, <2>2
  <2>4. at \in Paths
    <3>1. Real(t, at) = at \/ at \in Paths
      BY DEF Real
    <3> QED
      BY <2>3, <3>1
  <2>5. IsPrefix(p.dest, at)
    <3>1. p.ask.path \in Path /\ x \in Path /\ p.dest \in Path
      BY AskOfProc DEF GoodProc
    <3>2. Relative(p.ask.path, x) \in Path
      BY <3>1, Concatenation
    <3> QED
      BY <3>1, <3>2, Concatenation
  <2> QED
    BY <1>6, <2>3, <2>4, <2>5 DEF Reached
<1>7. ASSUME p.ask.op = "receive", CreateFile(t, p, x, me).tree[q] # t[q] PROVE Reached(t, p, q)
  <2>1. Yields(CreateFile(t, p, x, me), t, [t EXCEPT ![x] = [New("file", me, x) EXCEPT !.data = p.ask.data]])
    BY StepTrees DEF CreateFile
  <2>2. q = x
    BY <1>0, <1>7, <2>1 DEF Yields
  <2> QED
    BY <1>7, <2>2 DEF Aimed, Reached
<1>8. \A errs : Stepped(p, x, t, errs).tree = t
  BY StepTrees
<1> QED
  BY <1>1, <1>2, <1>3, <1>4, <1>5, <1>6, <1>7, <1>8, Zenon DEF Continue

LEMMA MovesOn ==
    ASSUME TypeInv, NEW me \in Actors, NEW t, GoodTree(t), NEW p, GoodProc(p), Moves(me, t, p)
    PROVE  /\ tree' = (IF p.left = {} THEN Closed(t, p) ELSE t)
           /\ proc'[me].fd = p.fd /\ proc'[me].left = p.left /\ proc'[me].at = p.at
           /\ proc'[me].state = IF p.left = {} THEN "over" ELSE "going"
BY DEF Moves, TypeInv, GoodProc, Fields

\* An entry less is left, or a byte more is written.
LEMMA Progresses ==
    ASSUME NEW t, NEW p, GoodProc(p), CanGoOn(p), NEW q \in p.left, NEW me
    PROVE  LET r == Continue(t, p, q, me).proc IN r.left # p.left \/ r.at # p.at
<1>1. ASSUME NEW p2, NEW t2, NEW errs, p2.left = p.left, DOMAIN p2 = Fields
      PROVE  q \notin Stepped(p2, q, t2, errs).proc.left
  BY <1>1 DEF Stepped, Fields
<1>2. DOMAIN p = Fields
  BY DEF GoodProc
<1>3. \A t2, errs : q \notin Stepped(p, q, t2, errs).proc.left
  BY <1>1, <1>2
<1>4. \A t2, t3, errs : q \notin Step(p, q, t2, errs, t3).proc.left
  BY <1>3 DEF Step
<1>5. q \notin AddMember(t, p, q).proc.left
  <2> DEFINE more == [p EXCEPT !.out.names = @ \cup { q }]
  <2>1. more.left = p.left /\ DOMAIN more = Fields
    BY <1>2 DEF Fields
  <2>2. \E errs, t2 : AddMember(t, p, q) = Stepped(p, q, t, errs) \/ AddMember(t, p, q) = Stepped(more, q, t2, errs)
    BY Zenon DEF AddMember
  <2> HIDE DEF more
  <2> QED
    BY <1>1, <1>3, <2>1, <2>2
<1>6. WriteByte(t, p, q).proc.at # p.at
  <2>1. p.at \in Int
    BY AskOfProc DEF GoodProc
  <2>2. \A left : [p EXCEPT !.at = @ + 1, !.left = left].at = p.at + 1
    BY <1>2 DEF Fields
  <2>3. WriteByte(t, p, q).proc.at = p.at + 1
    BY <2>2 DEF WriteByte
  <2> QED
    BY <2>1, <2>3
<1>7. q \notin Unpack(t, p, q, me).proc.left
  <2>1. \E errs, t2 : Unpack(t, p, q, me) = Step(p, q, t, errs, t2)
    BY Zenon DEF Unpack
  <2> QED
    BY <1>4, <2>1
<1>8. q \notin CopyEntry(t, p, q, me).proc.left
  <2>1. \E errs, t2 : CopyEntry(t, p, q, me) = Step(p, q, t, errs, t2)
    BY ZenonT(30) DEF CopyEntry
  <2> QED
    BY <1>4, <2>1
<1>9. /\ q \notin RmEntry(t, p, q).proc.left
      /\ q \notin ReplaceFile(t, p, q, me).proc.left
      /\ q \notin CreateFile(t, p, q, me).proc.left
  BY <1>4 DEF RmEntry, ReplaceFile, CreateFile
<1>10. \/ q \notin Continue(t, p, q, me).proc.left
       \/ Continue(t, p, q, me).proc.at # p.at
  BY <1>3, <1>5, <1>6, <1>7, <1>8, <1>9, Zenon DEF Continue
<1> QED
  BY <1>10

LEMMA ChangesCovered ==
    ASSUME TypeInv, ControlInv, NEW me \in Actors, Runs(me), Aimed(proc[me])
    PROVE  /\ AtWork(me) /\ proc'[me] # proc[me]
           /\ \A q \in Paths : tree'[q] # tree[q] => Covers(tree, me, q, proc'[me].fd)
<1>1. PICK r, p :
             /\ GoodTree(r) /\ GoodProc(p) /\ p.ask = proc[me].ask /\ Moves(me, r, p)
             /\ \/ /\ proc[me].state = "ready"
                   /\ r = Begin(tree, proc[me].ask, me).tree
                   /\ p = Begun(me, Begin(tree, proc[me].ask, me))
                \/ \E q \in proc[me].left :
                     /\ proc[me].state = "going" /\ CanGoOn(proc[me]) /\ GoodProc(proc[me])
                     /\ q \in NextEntries(proc[me])
                     /\ r = Continue(tree, proc[me], q, me).tree
                     /\ p = Continue(tree, proc[me], q, me).proc
                     /\ GoodStep(Continue(tree, proc[me], q, me), proc[me])
  BY RunIsStep
<1>2. /\ tree' = (IF p.left = {} THEN Closed(r, p) ELSE r)
      /\ proc'[me].fd = p.fd /\ proc'[me].left = p.left /\ proc'[me].at = p.at
      /\ proc'[me].state = IF p.left = {} THEN "over" ELSE "going"
  <2>1. GoodTree(r) /\ GoodProc(p) /\ Moves(me, r, p)
    BY <1>1
  <2> QED
    BY <2>1, MovesOn, Zenon
<1>3. AtWork(me)
  <2>1. proc[me].state \in { "ready", "going" }
    BY DEF Runs, BeginCommand, GoOn
  <2> QED
    BY <2>1, Partition DEF AtWork, ControlInv, RequestInv, JobInv
<1>4. proc'[me] # proc[me]
  <2>1. CASE proc[me].state = "ready"
    BY <1>2, <2>1
  <2>2. ASSUME NEW q \in proc[me].left, CanGoOn(proc[me]), GoodProc(proc[me]),
               p = Continue(tree, proc[me], q, me).proc
        PROVE  proc'[me] # proc[me]
    BY <1>2, <2>2, Progresses
  <2> QED
    BY <1>1, <2>1, <2>2
<1>5. GoodTree(tree) /\ GoodProc(proc[me])
  BY DEF TypeInv, GoodActor, Runs, BeginCommand, GoOn
<1>6. ASSUME NEW q \in Paths, r[q] # tree[q] PROVE Covers(tree, me, q, proc'[me].fd)
  <2>1. CASE r = Begin(tree, proc[me].ask, me).tree
    <3>1. Meant(tree, proc[me].ask, q)
      BY <1>5, <1>6, <2>1, BeginChanges DEF GoodProc
    <3> QED
      BY <3>1 DEF Covers, Meant, Ask
  <2>2. ASSUME NEW x \in proc[me].left, GoodStep(Continue(tree, proc[me], x, me), proc[me]),
               r = Continue(tree, proc[me], x, me).tree, p = Continue(tree, proc[me], x, me).proc
        PROVE  Covers(tree, me, q, proc'[me].fd)
    <3>1. Reached(tree, proc[me], q)
      BY <1>5, <1>6, <2>2, ContinueChanges
    <3>2. proc'[me].fd = proc[me].fd
      BY <1>2, <2>2 DEF GoodStep
    <3>3. proc[me].ask.path # Root
      BY <1>5, AskOfProc, PathsArePaths
    <3> QED
      BY <3>1, <3>2, <3>3 DEF Covers, Reached, Ask
  <2> QED
    BY <1>1, <2>1, <2>2
<1>7. ASSUME NEW q \in Paths, tree'[q] # tree[q] PROVE Covers(tree, me, q, proc'[me].fd)
  <2>1. CASE tree' = Closed(r, p) /\ Closed(r, p)[q] # r[q] /\ r[q] = tree[q]
    <3>1. q \in At(r, p.fd)
      BY <2>1 DEF Closed
    <3>2. q \in At(tree, proc'[me].fd)
      BY <1>2, <2>1, <3>1 DEF At
    <3> QED
      BY <3>2 DEF Covers
  <2>2. CASE r[q] # tree[q]
    BY <1>6, <2>2
  <2> QED
    BY <1>2, <1>7, <2>1, <2>2
<1> QED
  BY <1>3, <1>4, <1>7

AimedInv == \A b \in Actors : Aimed(proc[b])

\* A path of the tree changes only by an actor that is at work, and where its
\* request names it: no command reaches past its arguments, whatever else changes
\* the tree while it runs.
THEOREM OnlyWhatIsAsked == Spec => ChangesAreAsked
<1>1. Init => TypeInv /\ ControlInv /\ AimedInv
  <2>1. Init => AimedInv
    <3>1. Aimed(Idle)
      BY DEF Idle, Aimed
    <3> QED
      BY <3>1 DEF Init, FilesInit, AimedInv
  <2> QED
    BY <2>1, InitTyped
<1>2. TypeInv /\ ControlInv /\ AimedInv /\ [Next]_vars => (TypeInv /\ ControlInv /\ AimedInv)'
  BY TypedStep, AimedStep DEF AimedInv
<1>3. ASSUME TypeInv, ControlInv, AimedInv, [Next]_vars
      PROVE  [\A q \in Paths : tree'[q] # tree[q] =>
                \E b \in Actors : /\ AtWork(b) /\ proc'[b] # proc[b]
                                  /\ Covers(tree, b, q, proc'[b].fd)]_vars
  <2>1. CASE \E me \in Actors : Runs(me)
    BY <1>3, <2>1, ChangesCovered DEF AimedInv
  <2>2. CASE ~ \E me \in Actors : Runs(me)
    <3>1. tree' = tree
      BY <1>3, <2>2, OnlyRunsChange
    <3> QED
      BY <3>1
  <2> QED
    BY <2>1, <2>2
<1>4. TypeInv /\ ControlInv /\ AimedInv /\ [Next]_vars =>
        [\A q \in Paths : tree'[q] # tree[q] =>
           \E b \in Actors : /\ AtWork(b) /\ proc'[b] # proc[b]
                             /\ Covers(tree, b, q, proc'[b].fd)]_vars
  BY <1>3
<1> QED
  BY <1>1, <1>2, <1>4, PTL DEF Spec, ChangesAreAsked

-----------------------------------------------------------------------------
(* Induction over numbers, from the well-founded order on them.             *)

Less == { p \in Nat \X Nat : p[1] < p[2] }

LEMMA LessIsWellFounded == IsWellFoundedOn(Less, Nat)
<1>1. IsWellFoundedOn({ ss \in Nat \X Nat : ss[1] < ss[2] }, Nat)
  BY NatLessThanWellFounded DEF OpToRel
<1> QED
  BY <1>1 DEF Less

LEMMA Least ==
    ASSUME NEW S, S \subseteq Nat, S # {}
    PROVE  \E x \in S : \A y \in S : x <= y
<1>1. PICK x \in S : \A y \in S : ~ (<< y, x >> \in Less)
  BY LessIsWellFounded, WFMin
<1>2. ASSUME NEW y \in S PROVE x <= y
  <2>1. x \in Nat /\ y \in Nat
    OBVIOUS
  <2>2. ~ (y < x)
    BY <1>1, <2>1 DEF Less
  <2> QED
    BY <2>1, <2>2
<1> QED
  BY <1>2

LEMMA Induction ==
    ASSUME NEW S, 0 \in S, \A n \in Nat : n \in S => n + 1 \in S
    PROVE  \A n \in Nat : n \in S
<1>1. SUFFICES ASSUME Nat \ S # {} PROVE FALSE
  OBVIOUS
<1>2. PICK x \in Nat \ S : \A y \in Nat \ S : x <= y
  BY <1>1, Least
<1>3. x # 0 /\ x - 1 \in Nat
  BY <1>2
<1>4. x - 1 \in S
  BY <1>2, <1>3
<1>5. x - 1 + 1 = x
  BY <1>2
<1> QED
  BY <1>2, <1>3, <1>4, <1>5

-----------------------------------------------------------------------------
(* Looking up paths.                                                        *)

Passable(t, q) == IF q = Root THEN TRUE ELSE t[q].kind = "dir" /\ t[q].open

\* What stops a look-up is the first directory that cannot be passed.
LEMMA WayMeans ==
    ASSUME NEW t, NEW p \in Path, p # Root
    PROVE  /\ Way(t, p) = {} <=> \A q \in Prefixes(p) \ { p } : Passable(t, q)
           /\ Way(t, p) = { Missing } =>
                \E q \in Prefixes(p) \ { p } :
                    /\ q # Root /\ t[q].kind = "absent"
                    /\ \A x \in Prefixes(q) \ { q } : Passable(t, x)
<1> DEFINE S == Prefixes(p) \ { p }
           first == { q \in Prefixes(Front(p)) :
                        ~Passable(t, q) /\ \A x \in Prefixes(Front(q)) : Passable(t, x) }
           what(q) == CASE t[q].kind = "absent" -> Missing
                        [] t[q].kind = "dir" -> Denied
                        [] OTHER -> NotDir
<1>1. Prefixes(Front(p)) = S
  BY PrefixesOfFront
<1>2. Way(t, p) = { what(q) : q \in first }
  BY Zenon DEF Way, Passable
<1>3. Way(t, p) = {} <=> first = {}
  <2> HIDE DEF first, what
  <2> QED
    BY <1>2
<1>4. \A q \in S : q \in Path /\ Len(q) \in Nat
  BY PrefixesMean DEF Path
<1>5. \A q \in S : ~Passable(t, q) => q # Root
  BY DEF Passable
<1>6. \A q \in first : /\ q \in S /\ q # Root /\ ~Passable(t, q)
                       /\ \A x \in Prefixes(q) \ { q } : Passable(t, x)
  BY <1>1, <1>4, <1>5, PrefixesOfFront
<1>7. ASSUME NEW q \in S, ~Passable(t, q) PROVE first # {}
  <2> DEFINE T == { y \in S : ~Passable(t, y) }
             L == { Len(y) : y \in T }
  <2>1. L \subseteq Nat /\ L # {}
    BY <1>4, <1>7
  <2>2. PICK n \in L : \A k \in L : n <= k
    BY <2>1, Least
  <2>3. PICK z \in T : n = Len(z)
    BY <2>2
  <2>4. z \in Path /\ z # Root /\ IsPrefix(z, p) /\ z \in S
    BY <1>4, <1>5, <2>3, PrefixesMean
  <2>5. ASSUME NEW x \in Prefixes(z) \ { z } PROVE Passable(t, x)
    <3>1. x \in Path /\ IsPrefix(x, z)
      BY <2>4, <2>5, PrefixesMean
    <3>2. Len(x) \in Nat /\ Len(z) \in Nat /\ Len(x) <= Len(z) /\ Len(x) # Len(z)
      <4>1. Len(x) \in Nat /\ Len(z) \in Nat
        BY <2>4, <3>1 DEF Path
      <4>2. Len(x) <= Len(z)
        BY <2>4, <3>1, PrefixMeans
      <4>3. Len(x) # Len(z)
        BY <2>4, <2>5, <3>1, PrefixOrder
      <4> QED
        BY <4>1, <4>2, <4>3
    <3>3. x \in S
      <4>1. IsPrefix(x, p)
        BY <2>4, <3>1, PrefixOrder
      <4>2. x # p
        <5>1. Len(z) <= Len(p) /\ Len(p) \in Nat
          BY <2>4, PrefixMeans DEF Path
        <5> QED
          BY <3>2, <5>1
      <4> QED
        BY <3>1, <4>1, <4>2, PrefixesMean
    <3>4. x \notin T
      BY <2>2, <2>3, <3>2
    <3> QED
      BY <3>3, <3>4
  <2>6. z \in first
    <3>1. Prefixes(Front(z)) = Prefixes(z) \ { z }
      BY <2>4, PrefixesOfFront
    <3> QED
      BY <1>1, <2>3, <2>4, <2>5, <3>1
  <2> QED
    BY <2>6
<1>8. Way(t, p) = {} <=> \A q \in S : Passable(t, q)
  <2> HIDE DEF first
  <2> QED
    BY <1>3, <1>6, <1>7
<1>9. ASSUME Way(t, p) = { Missing }
      PROVE  \E q \in S : /\ q # Root /\ t[q].kind = "absent"
                          /\ \A x \in Prefixes(q) \ { q } : Passable(t, x)
  <2>1. PICK q \in first : what(q) = Missing
    <3> HIDE DEF first, what
    <3> QED
      BY <1>2, <1>9
  <2>2. Missing # Denied /\ Missing # NotDir
    BY Zenon DEF Missing, Denied, NotDir
  <2>3. t[q].kind = "absent"
    BY <2>1, <2>2, Zenon
  <2> QED
    BY <1>6, <2>1, <2>3
<1> QED
  BY <1>8, <1>9

-----------------------------------------------------------------------------
(* Every path of the tree is in directories.                                *)

Above(p) == Prefixes(p) \ { p, Root }

LEMMA AboveMeans ==
    ASSUME NEW p \in Paths
    PROVE  \A q : q \in Above(p) <=> q \in Paths /\ IsPrefix(q, p) /\ q # p
<1>1. p \in Path /\ Prefixes(p) \subseteq Paths \cup { Root } /\ Root \notin Paths
  BY PathsArePaths
<1> QED
  BY <1>1, PathsArePaths, PrefixesMean DEF Above

LEMMA RootedMeans ==
    ASSUME NEW t, GoodTree(t)
    PROVE  Rooted(t) <=> \A p \in Paths : t[p].kind # "absent" => \A q \in Above(p) : t[q].kind = "dir"
BY DEF Rooted, GoodTree, GoodNode, Above

\* What is not a directory has nothing below it.
LEMMA NothingBelow ==
    ASSUME NEW t, Rooted(t), NEW x \in Paths, t[x].kind # "dir",
           NEW z \in Paths, IsPrefix(x, z), x # z
    PROVE  t[z].kind = "absent"
<1>1. x \in Above(z)
  BY AboveMeans
<1> QED
  BY <1>1 DEF Rooted, Above

\* A path that a look-up reaches is in directories.
LEMMA ReachedIsIn ==
    ASSUME NEW t, NEW p \in Paths, Way(t, p) = {}
    PROVE  \A q \in Above(p) : t[q].kind = "dir" /\ t[q].open
<1>1. p \in Path /\ p # Root
  BY PathsArePaths
<1>2. \A q \in Prefixes(p) \ { p } : Passable(t, q)
  BY <1>1, WayMeans
<1> QED
  BY <1>2 DEF Passable, Above

\* Something else at one path that is no directory.
LEMMA Replaced ==
    ASSUME NEW t, GoodTree(t), Rooted(t), NEW x,
           x \in Paths => t[x].kind # "dir" /\ \A q \in Above(x) : t[q].kind = "dir",
           NEW n, GoodTree([t EXCEPT ![x] = n])
    PROVE  Rooted([t EXCEPT ![x] = n])
<1> DEFINE t2 == [t EXCEPT ![x] = n]
<1>1. DOMAIN t = Paths /\ GoodTree(t2)
  BY DEF GoodTree
<1>2. SUFFICES ASSUME NEW p \in Paths, t2[p].kind # "absent", NEW q \in Above(p)
               PROVE  t2[q].kind = "dir"
  BY <1>1, RootedMeans
<1>3. q \in Paths /\ IsPrefix(q, p) /\ q # p
  BY AboveMeans
<1>4. CASE p = x
  BY <1>1, <1>3, <1>4
<1>5. CASE p # x
  <2>1. t[p].kind # "absent"
    BY <1>1, <1>2, <1>5
  <2>2. t[q].kind = "dir"
    BY <2>1, RootedMeans
  <2>3. q # x
    BY <1>3, <2>2
  <2> QED
    BY <1>1, <1>3, <2>2, <2>3
<1> QED
  BY <1>4, <1>5

\* Other nodes of the same kind, or other files.
LEMMA Reformed ==
    ASSUME NEW t, GoodTree(t), Rooted(t), NEW t2, GoodTree(t2),
           \A q \in Paths : \/ t2[q].kind = t[q].kind
                            \/ t[q].kind \in FileKinds /\ t2[q].kind \in FileKinds
    PROVE  Rooted(t2)
<1>1. SUFFICES ASSUME NEW p \in Paths, t2[p].kind # "absent", NEW q \in Above(p)
               PROVE  t2[q].kind = "dir"
  BY RootedMeans
<1>2. t[p].kind # "absent" /\ q \in Paths
  BY <1>1, AboveMeans DEF FileKinds
<1>3. t[q].kind = "dir"
  BY <1>2, RootedMeans
<1> QED
  BY <1>2, <1>3 DEF FileKinds

LEMMA FindMeans ==
    ASSUME NEW t, NEW p \in Path
    PROVE  /\ Find(t, p) = {} <=> Way(t, p) = {} /\ (p = Root \/ (p \in Paths /\ t[p].kind # "absent"))
           /\ Reach(t, p) = {} => Find(t, p) = {}
<1>1. \A errs, more : OrElse(errs, more) = {} <=> errs = {} /\ more = {}
  BY DEF OrElse
<1>2. \A cond \in BOOLEAN : \A err : When(cond, err) = {} <=> ~cond
  BY DEF When
<1> DEFINE there == p = Root \/ (p \in Paths /\ t[p].kind # "absent")
<1>3. Find(t, p) = {} <=> Way(t, p) = {} /\ there
  <2> DEFINE gone == p # Root /\ (p \notin Paths \/ t[p].kind = "absent")
  <2>1. gone = ~there /\ gone \in BOOLEAN
    OBVIOUS
  <2>2. Find(t, p) = OrElse(Way(t, p), When(gone, Missing))
    BY DEF Find
  <2> HIDE DEF gone, there
  <2>3. When(gone, Missing) = {} <=> there
    BY <1>2, <2>1
  <2> QED
    BY <1>1, <2>2, <2>3
<1>4. Reach(t, p) = {} => Find(t, p) = {}
  BY <1>1 DEF Reach
<1> QED
  BY <1>3, <1>4

LEMMA NotMadeMeans ==
    ASSUME NEW t, NEW at
    PROVE  NotMade(t, at) = {} <=> Way(t, at) = {} /\ at \in Paths /\ t[at].kind = "absent"
<1>1. \A errs, more : OrElse(errs, more) = {} <=> errs = {} /\ more = {}
  BY DEF OrElse
<1>2. \A cond \in BOOLEAN : \A err : When(cond, err) = {} <=> ~cond
  BY DEF When
<1> DEFINE stop == IF at \notin Paths THEN { NoSpace } ELSE When(t[at].kind # "absent", Exists)
<1>3. NotMade(t, at) = OrElse(Way(t, at), stop)
  BY DEF NotMade
<1>4. stop = {} <=> at \in Paths /\ t[at].kind = "absent"
  BY <1>2
<1> HIDE DEF stop
<1> QED
  BY <1>1, <1>3, <1>4

LEMMA WritableMeans ==
    ASSUME NEW t, NEW p, Writable(t, p) = {}
    PROVE  LET q == Real(t, p) IN
           /\ Way(t, q) = {} /\ q \in Paths \cup { Root } /\ ~Dir(t, q) /\ t[q].kind # "link"
<1> DEFINE q == Real(t, p)
           stop == IF q \notin Paths \cup { Root } THEN { NoSpace }
                   ELSE IF Dir(t, q) THEN { IsDir }
                   ELSE IF t[q].kind = "link" THEN { Loop } ELSE Shut(t, q)
<1>1. \A errs, more : OrElse(errs, more) = {} <=> errs = {} /\ more = {}
  BY DEF OrElse
<1>2. Writable(t, p) = OrElse(Way(t, p), OrElse(Way(t, q), stop))
  BY DEF Writable
<1>3. Way(t, q) = {} /\ stop = {}
  <2> HIDE DEF stop, q
  <2> QED
    BY <1>1, <1>2
<1> QED
  BY <1>3

-----------------------------------------------------------------------------
(* Commands that begin keep it so.                                          *)

LEMMA MkdirRooted ==
    ASSUME NEW t, GoodTree(t), Rooted(t), NEW a \in AskTypes, NEW me
    PROVE  /\ Rooted(Mkdir(t, a, me).tree)
           /\ Mkdir(t, a, me).tree # t => Find(Mkdir(t, a, me).tree, a.path) = {}
<1> DEFINE made == { q \in (IF a.flag THEN Prefixes(a.path) ELSE { a.path }) \ { Root } :
                        t[q].kind = "absent" }
           t2 == [q \in Paths |-> IF q \in made THEN New("dir", me, q) ELSE t[q]]
<1>1. CASE Mkdir(t, a, me).tree = t
  BY <1>1
<1>2. CASE Mkdir(t, a, me).tree # t
  <2>0. a.path \in Paths /\ a.path \in Path /\ a.path # Root
    BY PathsArePaths DEF AskTypes
  <2>1. /\ Mkdir(t, a, me).tree = t2
        /\ Way(t, a.path) = {} \/ (a.flag /\ Way(t, a.path) = { Missing })
        /\ a.path \in made \/ (a.flag /\ Dir(t, a.path))
    <3> DEFINE stop == Way(t, a.path)
               errs == IF stop # {} /\ ~(a.flag /\ stop = { Missing }) THEN stop
                       ELSE IF a.path \notin made /\ ~(a.flag /\ Dir(t, a.path))
                            THEN { Exists } ELSE {}
    <3>1. Mkdir(t, a, me) = AndList(t, errs, t2, a.path)
      BY DEF Mkdir
    <3>2. errs = {} /\ AndList(t, errs, t2, a.path).tree = t2
      <4> HIDE DEF errs, t2
      <4> QED
        BY <1>2, <3>1 DEF AndList, Fails, Did
    <3>3. errs = {} => /\ Way(t, a.path) = {} \/ (a.flag /\ Way(t, a.path) = { Missing })
                       /\ a.path \in made \/ (a.flag /\ Dir(t, a.path))
      <4> HIDE DEF made
      <4> QED
        OBVIOUS
    <3> QED
      BY <3>1, <3>2, <3>3
  <2>2. /\ DOMAIN t2 = Paths
        /\ \A q \in Paths : q \in made => t2[q].kind = "dir" /\ t2[q].open = TRUE
        /\ \A q \in Paths : q \notin made => t2[q] = t[q]
        /\ \A q \in made : t[q].kind = "absent" /\ q # Root
    <3>1. \A q : New("dir", me, q).kind = "dir" /\ New("dir", me, q).open = TRUE
      BY NewNode DEF Kinds
    <3> QED
      BY <3>1
  <2>3. \A q \in made : q \in Paths /\ IsPrefix(q, a.path)
    BY <2>0, PathsArePaths, PrefixesMean, PrefixOrder
  <2>4. a.flag => \A q \in Above(a.path) : t[q].kind = "absent" => q \in made
    BY DEF Above
  <2>5. GoodTree(t2)
    <3>1. \A q : GoodNode(New("dir", me, q))
      BY NewNode DEF Kinds
    <3> QED
      BY <3>1 DEF GoodTree
  <2> HIDE DEF made, t2
  <2>6. \A q \in Above(a.path) : Passable(t2, q)
    <3>1. CASE Way(t, a.path) = {}
      <4>1. \A q \in Above(a.path) : t[q].kind = "dir" /\ t[q].open /\ q \in Paths
        BY <2>0, <3>1, ReachedIsIn, AboveMeans
      <4>2. \A q \in Above(a.path) : q \notin made
        BY <2>2, <4>1
      <4> QED
        BY <2>2, <4>1, <4>2 DEF Passable
    <3>2. CASE a.flag /\ Way(t, a.path) = { Missing }
      <4>1. PICK y \in Prefixes(a.path) \ { a.path } :
                    /\ y # Root /\ t[y].kind = "absent"
                    /\ \A x \in Prefixes(y) \ { y } : Passable(t, x)
        BY <2>0, <3>2, WayMeans
      <4>2. y \in Above(a.path) /\ y \in Paths /\ IsPrefix(y, a.path)
        BY <2>0, <4>1, AboveMeans DEF Above
      <4>3. ASSUME NEW q \in Above(a.path) PROVE Passable(t2, q)
        <5>1. q \in Paths /\ IsPrefix(q, a.path) /\ q \in Path /\ y \in Path /\ q # Root
          BY <2>0, <4>2, AboveMeans, PathsArePaths
        <5>2. CASE t[q].kind = "absent"
          <6>1. q \in made
            BY <2>4, <3>2, <5>2
          <6> QED
            BY <2>2, <5>1, <6>1 DEF Passable
        <5>3. CASE t[q].kind # "absent"
          <6>1. q \notin made
            BY <2>2, <5>3
          <6>2. ~IsPrefix(y, q)
            <7>1. y # q
              BY <4>1, <5>3
            <7> QED
              BY <4>1, <4>2, <5>1, <5>3, <7>1, NothingBelow
          <6>3. IsPrefix(q, y) /\ q # y
            <7>1. Len(q) \in Nat /\ Len(y) \in Nat
              BY <5>1 DEF Path
            <7>2. IsPrefix(q, y) \/ IsPrefix(y, q)
              BY <2>0, <4>2, <5>1, <7>1, PrefixOrder
            <7> QED
              BY <4>1, <5>3, <6>2, <7>2
          <6>4. Passable(t, q)
            BY <4>1, <5>1, <6>3, PrefixesMean
          <6> QED
            BY <2>2, <5>1, <6>1, <6>4 DEF Passable
        <5> QED
          BY <5>2, <5>3
      <4> QED
        BY <4>3
    <3> QED
      BY <2>1, <3>1, <3>2
  <2>7. Way(t2, a.path) = {}
    <3>1. \A q \in Prefixes(a.path) \ { a.path } : Passable(t2, q)
      BY <2>6 DEF Above, Passable
    <3> QED
      BY <2>0, <3>1, WayMeans
  <2>8. t2[a.path].kind = "dir"
    BY <2>0, <2>1, <2>2 DEF Dir
  <2>9. Find(t2, a.path) = {}
    BY <2>0, <2>7, <2>8, FindMeans
  <2>10. Rooted(t2)
    <3>1. SUFFICES ASSUME NEW p \in Paths, t2[p].kind # "absent", NEW q \in Above(p)
                   PROVE  t2[q].kind = "dir"
      BY <2>5, RootedMeans
    <3>2. q \in Paths /\ IsPrefix(q, p) /\ q # p /\ p \in Path /\ q \in Path
      BY AboveMeans, PathsArePaths
    <3>3. CASE p \in made
      <4>1. IsPrefix(p, a.path)
        BY <2>3, <3>3
      <4>2. IsPrefix(q, a.path) /\ q # a.path
        BY <2>0, <3>2, <4>1, PrefixOrder
      <4>3. q \in Above(a.path)
        BY <2>0, <3>2, <4>2, AboveMeans
      <4> QED
        BY <2>6, <3>2, <4>3, PathsArePaths DEF Passable
    <3>4. CASE p \notin made
      <4>1. t[q].kind = "dir"
        BY <2>2, <3>1, <3>4, RootedMeans
      <4> QED
        BY <2>2, <3>2, <4>1
    <3> QED
      BY <3>3, <3>4
  <2> QED
    BY <2>1, <2>9, <2>10
<1> QED
  BY <1>1, <1>2

LEMMA SymlinkRooted ==
    ASSUME NEW t, GoodTree(t), Rooted(t), NEW a \in AskTypes, NEW me
    PROVE  /\ Rooted(Symlink(t, a, me).tree)
           /\ Symlink(t, a, me).tree # t => Find(Symlink(t, a, me).tree, a.to) = {}
<1> DEFINE at == Into(t, a.path, a.to)
           link == [New("link", me, at) EXCEPT !.to = a.path]
           t2 == [t EXCEPT ![at] = link]
<1>1. CASE Symlink(t, a, me).tree = t
  BY <1>1
<1>2. CASE Symlink(t, a, me).tree # t
  <2>0. a.path \in Paths /\ a.to \in Paths \cup { Root } /\ a.to \in Path
    BY PathsArePaths DEF AskTypes
  <2>1. Symlink(t, a, me).tree = t2 /\ NotMade(t, at) = {}
    <3>1. Symlink(t, a, me) = AndList(t, NotMade(t, at), t2, a.to)
      BY DEF Symlink
    <3> HIDE DEF t2, at
    <3> QED
      BY <1>2, <3>1 DEF AndList, Fails, Did
  <2>2. Way(t, at) = {} /\ at \in Paths /\ t[at].kind = "absent"
    BY <2>1, NotMadeMeans
  <2>3. GoodTree(t2) /\ link.kind = "link"
    <3>1. GoodNode(link)
      BY <2>0, LinkTo
    <3>2. link.kind = "link"
      BY DEF New, Absent
    <3> QED
      BY <3>1, <3>2, Changed
  <2>4. \A q \in Above(at) : t[q].kind = "dir" /\ t[q].open
    BY <2>2, ReachedIsIn
  <2>5. Rooted(t2)
    <3> HIDE DEF link, at
    <3> QED
      BY <2>2, <2>3, <2>4, Replaced
  <2>6. DOMAIN t = Paths /\ t2[at].kind = "link" /\ \A q \in Paths : q # at => t2[q] = t[q]
    BY <2>2, <2>3 DEF GoodTree
  <2>7. Find(t2, a.to) = {}
    <3>1. at = a.to \/ Find(t, a.to) = {}
      <4>1. at = a.to \/ Reach(t, a.to) = {}
        BY DEF Into
      <4> QED
        BY <2>0, <4>1, FindMeans
    <3> HIDE DEF at, link, t2
    <3>2. CASE a.to = Root
      BY <3>2, RootIsThere
    <3>3. CASE a.to # Root
      <4>1. a.to \in Paths /\ Way(t, a.to) = {}
        BY <2>0, <2>2, <3>1, <3>3, FindMeans
      <4>2. \A q \in Prefixes(a.to) \ { a.to } : Passable(t, q)
        BY <2>0, <3>3, <4>1, WayMeans
      <4>3. ASSUME NEW q \in Prefixes(a.to) \ { a.to } PROVE Passable(t2, q)
        <5>1. q = Root \/ q \in Paths
          BY <4>1, PathsArePaths
        <5>2. q # Root => q # at
          BY <2>2, <4>2 DEF Passable
        <5> QED
          BY <2>6, <4>2, <5>1, <5>2 DEF Passable
      <4>4. Way(t2, a.to) = {}
        BY <2>0, <3>3, <4>3, WayMeans
      <4>5. t2[a.to].kind # "absent"
        BY <2>0, <2>6, <3>1, <3>3, <4>1, FindMeans
      <4> QED
        BY <2>0, <4>1, <4>4, <4>5, FindMeans
    <3> QED
      BY <3>2, <3>3
  <2> QED
    BY <2>1, <2>5, <2>7
<1> QED
  BY <1>1, <1>2

LEMMA TruncateRooted ==
    ASSUME NEW t, GoodTree(t), Rooted(t), NEW p, Writable(t, p) = {}, NEW kind \in { "file", "cut" }, NEW me
    PROVE  Rooted(Truncate(t, Real(t, p), kind, me).tree)
<1> DEFINE q == Real(t, p)
           n == [New(kind, me, q) EXCEPT !.id = IF t[q].kind = "absent" THEN @ ELSE t[q].id]
<1>1. q \in Paths /\ t[q].kind # "dir" /\ Way(t, q) = {}
  BY WritableMeans DEF Dir
<1>2. GoodTree(Truncate(t, q, kind, me).tree)
  <2>1. q \in Path
    BY <1>1, PathsArePaths
  <2> QED
    BY <2>1, TruncateTyped DEF GoodResult
<1>3. Truncate(t, q, kind, me).tree = [t EXCEPT ![q] = n]
  BY DEF Truncate, Did
<1>4. \A x \in Above(q) : t[x].kind = "dir"
  BY <1>1, ReachedIsIn
<1> HIDE DEF q, n
<1>5. Rooted([t EXCEPT ![q] = n])
  BY <1>1, <1>2, <1>3, <1>4, Replaced
<1> QED
  BY <1>3, <1>5 DEF q

LEMMA WormholeRooted ==
    ASSUME NEW t, GoodTree(t), Rooted(t), NEW a \in AskTypes
    PROVE  Rooted(WormholeReceive(t, a).tree)
<1> DEFINE t2 == [q \in Paths |-> IF IsPrefix(a.path, q) THEN Absent ELSE t[q]]
<1>0. a.path \in Path
  BY PathsArePaths DEF AskTypes
<1>1. GoodTree(t2)
  BY AbsentNode DEF GoodTree
<1>2. ASSUME NEW p \in Paths, t2[p].kind # "absent", NEW q \in Above(p)
      PROVE  t2[q].kind = "dir"
  <2>1. ~IsPrefix(a.path, p) /\ t[p].kind # "absent"
    BY <1>2 DEF Absent
  <2>2. q \in Paths /\ IsPrefix(q, p) /\ q \in Path /\ p \in Path
    BY AboveMeans, PathsArePaths
  <2>3. ~IsPrefix(a.path, q)
    BY <1>0, <2>1, <2>2, PrefixOrder
  <2>4. t[q].kind = "dir"
    BY <2>1, RootedMeans
  <2> QED
    BY <2>2, <2>3, <2>4
<1>3. Rooted(t2)
  <2> HIDE DEF t2
  <2> QED
    BY <1>1, <1>2, RootedMeans
<1>4. Yields(WormholeReceive(t, a), t, t2)
  BY ResultTrees DEF WormholeReceive
<1> QED
  BY <1>3, <1>4 DEF Yields

LEMMA CollisionMeans ==
    ASSUME NEW t, NEW p, NEW at, Collision(t, p, at) = {}
    PROVE  /\ Find(t, p) = {} /\ Way(t, at) = {} /\ ~IsPrefix(p, at)
           /\ \A q \in Under(t, p) : at \o Relative(p, q) \in Paths
           /\ t[at].kind # "absent" => (Dir(t, p) <=> Dir(t, at))
<1>1. \A errs, more : OrElse(errs, more) = {} <=> errs = {} /\ more = {}
  BY DEF OrElse
<1>2. \A cond \in BOOLEAN : \A err : When(cond, err) = {} <=> ~cond
  BY DEF When
<1>3. OrElse(Find(t, p), Way(t, at)) = {}
  BY DEF Collision
<1>4. /\ ~IsPrefix(p, at)
      /\ \A q \in Under(t, p) : at \o Relative(p, q) \in Paths
      /\ t[at].kind # "absent" => When(Dir(t, p) # Dir(t, at), NotOver) = {}
  BY <1>3 DEF Collision
<1>5. (Dir(t, p) # Dir(t, at)) \in BOOLEAN
  OBVIOUS
<1>6. t[at].kind # "absent" => ~(Dir(t, p) # Dir(t, at))
  BY <1>2, <1>4, <1>5
<1>7. Dir(t, p) \in BOOLEAN /\ Dir(t, at) \in BOOLEAN
  BY DEF Dir
<1> QED
  BY <1>1, <1>3, <1>4, <1>6, <1>7

LEMMA RelativeMeans ==
    ASSUME NEW p \in Path, NEW q \in Path, IsPrefix(p, q)
    PROVE  /\ Relative(p, q) \in Path /\ Len(Relative(p, q)) = Len(q) - Len(p)
           /\ Len(p) \in Nat /\ Len(q) \in Nat /\ Len(p) <= Len(q)
           /\ \A i \in 1 .. Len(q) - Len(p) : Relative(p, q)[i] = q[Len(p) + i]
<1>1. Len(p) \in Nat /\ Len(q) \in Nat /\ Len(p) <= Len(q)
  BY PrefixMeans DEF Path
<1>2. /\ SubSeq(q, Len(p) + 1, Len(q)) \in Seq(STRING)
      /\ Len(SubSeq(q, Len(p) + 1, Len(q))) = Len(q) - Len(p)
      /\ \A i \in 1 .. Len(q) - Len(p) : SubSeq(q, Len(p) + 1, Len(q))[i] = q[Len(p) + i]
  BY <1>1, SubSeqProperties DEF Path
<1> QED
  BY <1>1, <1>2 DEF Relative, Path

LEMMA RelativeToSelf ==
    ASSUME NEW p \in Path, NEW x \in Path
    PROVE  x \o Relative(p, p) = x
<1>1. IsPrefix(p, p)
  BY PrefixOrder
<1>2. Relative(p, p) \in Path /\ Len(Relative(p, p)) = 0 /\ Len(x) \in Nat
  BY <1>1, RelativeMeans DEF Path
<1>3. ASSUME NEW y \in Path, Len(y) = 0 PROVE x \o y = x
  <2>1. x \o y \in Path /\ Len(x \o y) = Len(x) + Len(y) /\ IsPrefix(x, x \o y)
    BY <1>3, Concatenation
  <2>2. Len(x \o y) = Len(x)
    BY <1>2, <1>3, <2>1
  <2> QED
    BY <2>1, <2>2, PrefixOrder
<1> QED
  BY <1>2, <1>3

\* The same way down from one path and from another.
LEMMA Transplanted ==
    ASSUME NEW s \in Path, NEW at \in Path, NEW q \in Path, NEW p \in Path,
           IsPrefix(at, q), IsPrefix(q, p), q # p
    PROVE  /\ IsPrefix(s \o Relative(at, q), s \o Relative(at, p))
           /\ s \o Relative(at, q) # s \o Relative(at, p)
           /\ s \o Relative(at, q) \in Path
<1> DEFINE x == Relative(at, q)
           y == Relative(at, p)
<1>1. IsPrefix(at, p)
  BY PrefixOrder
<1>2. /\ x \in Path /\ Len(x) = Len(q) - Len(at)
      /\ \A i \in 1 .. Len(q) - Len(at) : x[i] = q[Len(at) + i]
      /\ y \in Path /\ Len(y) = Len(p) - Len(at)
      /\ \A i \in 1 .. Len(p) - Len(at) : y[i] = p[Len(at) + i]
      /\ Len(at) \in Nat /\ Len(q) \in Nat /\ Len(p) \in Nat /\ Len(at) <= Len(q)
  BY <1>1, RelativeMeans
<1>3. Len(q) <= Len(p) /\ \A i \in 1 .. Len(q) : q[i] = p[i]
  BY PrefixMeans
<1>4. Len(q) # Len(p)
  BY PrefixOrder
<1> HIDE DEF x, y
<1>5. Len(x) <= Len(y) /\ Len(x) # Len(y) /\ Len(x) \in Nat /\ Len(y) \in Nat
  BY <1>2, <1>3, <1>4
<1>6. \A i \in 1 .. Len(x) : x[i] = y[i]
  <2> SUFFICES ASSUME NEW i \in 1 .. Len(x) PROVE x[i] = y[i]
    OBVIOUS
  <2>1. i \in 1 .. Len(q) - Len(at) /\ i \in 1 .. Len(p) - Len(at) /\ Len(at) + i \in 1 .. Len(q)
    BY <1>2, <1>3, <1>5
  <2> QED
    BY <1>2, <1>3, <2>1
<1>7. Len(s) \in Nat
  BY DEF Path
<1>8. \A z \in Path : /\ s \o z \in Path /\ Len(s \o z) = Len(s) + Len(z)
                      /\ \A i \in 1 .. Len(s) + Len(z) :
                            (s \o z)[i] = IF i <= Len(s) THEN s[i] ELSE z[i - Len(s)]
  BY ConcatProperties DEF Path
<1>9. \A i \in 1 .. Len(s \o x) : (s \o x)[i] = (s \o y)[i]
  <2> SUFFICES ASSUME NEW i \in 1 .. Len(s \o x) PROVE (s \o x)[i] = (s \o y)[i]
    OBVIOUS
  <2>1. i \in 1 .. Len(s) + Len(x) /\ i \in 1 .. Len(s) + Len(y)
    BY <1>2, <1>5, <1>7, <1>8
  <2>2. i > Len(s) => x[i - Len(s)] = y[i - Len(s)]
    BY <1>5, <1>6, <1>7, <2>1
  <2> QED
    BY <1>2, <1>7, <1>8, <2>1, <2>2
<1>10. Len(s \o x) <= Len(s \o y) /\ Len(s \o x) # Len(s \o y)
  BY <1>2, <1>5, <1>7, <1>8
<1>11. s \o x \in Path /\ s \o y \in Path
  BY <1>2, <1>8
<1>12. IsPrefix(s \o x, s \o y) /\ s \o x # s \o y
  BY <1>9, <1>10, <1>11, PrefixMeans
<1> QED
  BY <1>11, <1>12 DEF x, y

LEMMA HasChild ==
    ASSUME NEW t, Rooted(t), NEW x \in Path, NEW z \in Paths, IsPrefix(x, z), x # z,
           t[z].kind # "absent"
    PROVE  Children(t, x) # {}
<1>1. z \in Path /\ Len(z) \in Nat /\ Len(x) \in Nat
  BY PathsArePaths DEF Path
<1>2. Len(x) + 1 \in 0 .. Len(z)
  <2>1. Len(x) <= Len(z)
    BY <1>1, PrefixMeans
  <2>2. Len(x) # Len(z)
    BY <1>1, PrefixOrder
  <2> QED
    BY <1>1, <2>1, <2>2
<1> DEFINE c == SubSeq(z, 1, Len(x) + 1)
<1>3. c \in Path /\ Len(c) = Len(x) + 1 /\ IsPrefix(c, z)
  BY <1>1, <1>2, Beginning
<1> HIDE DEF c
<1>4. IsPrefix(x, c)
  BY <1>1, <1>3, PrefixOrder
<1>5. c # Root
  BY <1>1, <1>3 DEF Root
<1>6. c \in Paths
  BY <1>1, <1>3, <1>5, PathsArePaths, PrefixesMean
<1>7. t[c].kind # "absent"
  <2>1. CASE c = z
    BY <2>1
  <2>2. CASE c # z
    <3>1. c \in Above(z)
      BY <1>3, <1>6, <2>2, AboveMeans
    <3> QED
      BY <3>1 DEF Rooted, Above
  <2> QED
    BY <2>1, <2>2
<1>8. c \in Children(t, x)
  BY <1>3, <1>4, <1>6, <1>7 DEF Children, Under
<1> QED
  BY <1>8

LEMMA MovedRooted ==
    ASSUME NEW t, GoodTree(t), Rooted(t), NEW s \in Paths, NEW at \in Path,
           Collision(t, s, at) = {}, Dir(t, at) => Children(t, at) = {}, at # Root,
           NEW t2, t2 = [q \in Paths |->
                           IF IsPrefix(at, q) /\ s \o Relative(at, q) \in Paths
                           THEN t[s \o Relative(at, q)]
                           ELSE IF IsPrefix(s, q) THEN Absent ELSE t[q]]
    PROVE  Rooted(t2)
<1>0. s \in Path /\ s # Root /\ IsPrefix(s, s)
  BY PathsArePaths, PrefixOrder
<1>1. /\ Find(t, s) = {} /\ Way(t, at) = {} /\ ~IsPrefix(s, at)
      /\ \A q \in Under(t, s) : at \o Relative(s, q) \in Paths
  BY CollisionMeans
<1>2. t[s].kind # "absent"
  BY <1>0, <1>1, FindMeans
<1>3. at \in Paths
  BY <1>0, <1>1, <1>2, RelativeToSelf DEF Under
<1>4. \A z \in Paths : IsPrefix(at, z) /\ z # at => t[z].kind = "absent"
  BY <1>3, NothingBelow, HasChild DEF Dir
<1>5. \A q \in Above(at) : t[q].kind = "dir"
  BY <1>1, <1>3, ReachedIsIn
<1>6. s \o Relative(at, at) = s
  BY <1>0, RelativeToSelf
<1>7. GoodTree(t2)
  BY AbsentNode DEF GoodTree
<1>8. \A q \in Paths : t2[q] = IF IsPrefix(at, q) /\ s \o Relative(at, q) \in Paths
                               THEN t[s \o Relative(at, q)]
                               ELSE IF IsPrefix(s, q) THEN Absent ELSE t[q]
  OBVIOUS
<1>9. SUFFICES ASSUME NEW p \in Paths, t2[p].kind # "absent", NEW q \in Above(p)
               PROVE  t2[q].kind = "dir"
  BY <1>7, RootedMeans
<1>10. p \in Path /\ q \in Paths /\ q \in Path /\ IsPrefix(q, p) /\ q # p
  BY AboveMeans, PathsArePaths
<1>11. CASE IsPrefix(at, p) /\ s \o Relative(at, p) \in Paths
  <2> DEFINE from == s \o Relative(at, p)
  <2>1. t[from].kind # "absent" /\ from \in Paths
    BY <1>8, <1>9, <1>11
  <2>2. CASE IsPrefix(at, q)
    <3> DEFINE from2 == s \o Relative(at, q)
    <3>1. IsPrefix(from2, from) /\ from2 # from /\ from2 \in Path
      BY <1>0, <1>10, <2>2, Transplanted
    <3>2. from2 \in Paths
      <4>1. from2 # Root
        <5>1. IsPrefix(s, from2)
          BY <1>0, <1>10, Concatenation
        <5>2. Len(s) <= Len(from2) /\ Len(s) \in Nat \ {0}
          BY <1>0, <3>1, <5>1, PrefixMeans DEF Path, Root
        <5> QED
          BY <5>2 DEF Root
      <4>2. from2 \in Prefixes(from) /\ from \in Path
        BY <2>1, <3>1, PathsArePaths, PrefixesMean
      <4> QED
        BY <2>1, <4>1, <4>2, PathsArePaths
    <3>3. t[from2].kind = "dir"
      <4>1. from2 \in Above(from)
        BY <2>1, <3>1, <3>2, AboveMeans
      <4> QED
        BY <2>1, <4>1, RootedMeans
    <3> QED
      BY <1>8, <1>10, <2>2, <3>2, <3>3
  <2>3. CASE ~IsPrefix(at, q)
    <3>1. IsPrefix(q, at) /\ q # at
      <4>1. Len(q) \in Nat /\ Len(at) \in Nat
        BY <1>10 DEF Path
      <4>2. IsPrefix(q, at) \/ IsPrefix(at, q)
        BY <1>10, <1>11, <4>1, PrefixOrder
      <4>3. IsPrefix(at, at)
        BY PrefixOrder
      <4> QED
        BY <2>3, <4>2, <4>3
    <3>2. t[q].kind = "dir"
      BY <1>3, <1>5, <1>10, <3>1, AboveMeans
    <3>3. ~IsPrefix(s, q)
      BY <1>0, <1>1, <1>10, <3>1, PrefixOrder
    <3> QED
      BY <1>8, <1>10, <2>3, <3>2, <3>3
  <2> QED
    BY <2>2, <2>3
<1>12. CASE ~(IsPrefix(at, p) /\ s \o Relative(at, p) \in Paths)
  <2>1. t2[p] = t[p] /\ ~IsPrefix(s, p)
    BY <1>8, <1>9, <1>12 DEF Absent
  <2>2. ~IsPrefix(at, p)
    BY <1>4, <1>6, <1>9, <1>12, <2>1
  <2>3. ~IsPrefix(at, q) /\ ~IsPrefix(s, q)
    BY <1>0, <1>10, <2>1, <2>2, PrefixOrder
  <2>4. t[q].kind = "dir"
    BY <1>9, <2>1, RootedMeans
  <2> QED
    BY <1>8, <1>10, <2>3, <2>4
<1> QED
  BY <1>11, <1>12

LEMMA MvRooted ==
    ASSUME NEW t, GoodTree(t), Rooted(t), NEW a \in AskTypes
    PROVE  Rooted(Mv(t, a).tree)
<1> DEFINE at == Into(t, a.path, a.to)
           moved == [q \in Paths |->
                       IF IsPrefix(at, q) /\ a.path \o Relative(at, q) \in Paths
                       THEN t[a.path \o Relative(at, q)]
                       ELSE IF IsPrefix(a.path, q) THEN Absent ELSE t[q]]
           errs == OrElse(Collision(t, a.path, at), When(Dir(t, at) /\ Children(t, at) # {}, NotEmpty))
<1>0. a.path \in Paths /\ a.to \in Paths \cup { Root }
  BY DEF AskTypes
<1>1. Mv(t, a) = Unless(t, errs, Fails(moved, {}))
  BY DEF Mv
<1>2. CASE errs = {}
  <2>1. Collision(t, a.path, at) = {} /\ (Dir(t, at) => Children(t, at) = {})
    BY <1>2 DEF OrElse, When
  <2>2. at \in Path /\ at # Root
    BY <1>0, IntoPath, IntoWhere
  <2>3. Rooted(moved)
    <3> HIDE DEF at
    <3> QED
      BY <1>0, <2>1, <2>2, MovedRooted
  <2>4. Mv(t, a).tree = moved
    <3> HIDE DEF errs, moved
    <3> QED
      BY <1>1, <1>2 DEF Unless, Fails, Did
  <2> QED
    BY <2>3, <2>4
<1>3. CASE errs # {}
  <2>1. Mv(t, a).tree = t
    <3> HIDE DEF errs, moved
    <3> QED
      BY <1>1, <1>3 DEF Unless, Fails, Did
  <2> QED
    BY <2>1
<1> QED
  BY <1>2, <1>3

LEMMA ChmodRooted ==
    ASSUME NEW t, GoodTree(t), Rooted(t), NEW a \in AskTypes
    PROVE  Rooted(Chmod(t, a).tree)
<1> DEFINE t2 == [t EXCEPT ![Real(t, a.path)].open = (a.word = "rw")]
<1>1. Yields(Chmod(t, a), t, t2)
  BY ResultTrees DEF Chmod
<1>2. GoodTree(t2)
  BY Opened
<1>3. \A q \in Paths : t2[q].kind = t[q].kind
  BY DEF GoodTree, GoodNode, NodeFields
<1>4. Rooted(t2)
  <2> HIDE DEF t2
  <2> QED
    BY <1>2, <1>3, Reformed
<1> QED
  BY <1>1, <1>4 DEF Yields

LEMMA BeginRooted ==
    ASSUME NEW t, GoodTree(t), Rooted(t), NEW a \in AskTypes, NEW me
    PROVE  Rooted(Begin(t, a, me).tree)
<1>1. Rooted(Upload(t, a, me).tree)
  <2>1. CASE Writable(t, a.path) = {}
    <3>1. Upload(t, a, me) = Truncate(t, Real(t, a.path), "file", me)
      BY <2>1 DEF Upload, Unless
    <3> QED
      BY <2>1, <3>1, TruncateRooted
  <2>2. CASE Writable(t, a.path) # {}
    BY <2>2 DEF Upload, Unless, Fails, Did
  <2> QED
    BY <2>1, <2>2
<1>2. Rooted(Compress(t, a, me).tree)
  <2>1. CASE Writable(t, a.to) = {}
    <3>1. Yields(Compress(t, a, me), t, Truncate(t, Real(t, a.to), "cut", me).tree)
      BY CompressYields
    <3>2. Rooted(Truncate(t, Real(t, a.to), "cut", me).tree)
      BY <2>1, TruncateRooted
    <3> QED
      BY <3>1, <3>2 DEF Yields
  <2>2. CASE Writable(t, a.to) # {}
    <3>1. \E did : Compress(t, a, me) = Unless(t, Writable(t, a.to), did)
      BY Zenon DEF Compress
    <3> QED
      BY <2>2, <3>1 DEF Unless, Fails, Did
  <2> QED
    BY <2>1, <2>2
<1>3. /\ Rooted(Chown(t, a).tree) /\ Rooted(Rm(t, a).tree) /\ Rooted(Extract(t, a).tree)
      /\ Rooted(Cp(t, a).tree) /\ Rooted(Receive(t, a).tree) /\ Rooted(Send(t, a).tree)
      /\ Rooted(FileType(t, a).tree) /\ Rooted(Stat(t, a).tree) /\ Rooted(Ls(t, a).tree)
      /\ Rooted(Read(t, a).tree)
  BY TreeKept
<1>4. /\ Rooted(Chmod(t, a).tree) /\ Rooted(Mkdir(t, a, me).tree) /\ Rooted(Symlink(t, a, me).tree)
      /\ Rooted(WormholeReceive(t, a).tree) /\ Rooted(Mv(t, a).tree)
  BY ChmodRooted, MkdirRooted, SymlinkRooted, WormholeRooted, MvRooted
<1> QED
  BY <1>1, <1>2, <1>3, <1>4, Zenon DEF Begin

-----------------------------------------------------------------------------
(* Commands that go on keep it so.                                          *)

LEMMA StepResult ==
    ASSUME NEW t, NEW p, NEW q, NEW errs, NEW t2
    PROVE  Step(p, q, t, errs, t2).tree = IF errs = {} THEN t2 ELSE t
BY DEF Step, Stepped

LEMMA NoErrors ==
    /\ \A errs, more : OrElse(errs, more) = {} <=> errs = {} /\ more = {}
    /\ \A cond \in BOOLEAN : \A err : When(cond, err) = {} <=> ~cond
BY DEF OrElse, When

LEMMA ReplacedThere ==
    ASSUME NEW t, GoodTree(t), Rooted(t), NEW x, NEW n, GoodTree([t EXCEPT ![x] = n]),
           x \in Paths => t[x].kind # "dir" /\ Way(t, x) = {}
    PROVE  Rooted([t EXCEPT ![x] = n])
<1>1. x \in Paths => t[x].kind # "dir" /\ \A q \in Above(x) : t[q].kind = "dir"
  BY ReachedIsIn
<1> QED
  BY <1>1, Replaced

LEMMA RmEntryRooted ==
    ASSUME NEW t, GoodTree(t), Rooted(t), NEW p, NEW q \in Paths
    PROVE  Rooted(RmEntry(t, p, q).tree)
<1> DEFINE errs == OrElse(Find(t, q), When(Children(t, q) # {}, NotEmpty))
           t2 == [t EXCEPT ![q] = Absent]
<1>1. RmEntry(t, p, q).tree = IF errs = {} THEN t2 ELSE t
  BY StepResult DEF RmEntry
<1>2. CASE errs = {}
  <2>1. Children(t, q) = {} /\ q \in Path
    <3>1. When(Children(t, q) # {}, NotEmpty) = {}
      BY <1>2, NoErrors
    <3> QED
      BY <3>1, PathsArePaths DEF When
  <2>2. GoodTree(t2)
    BY AbsentNode, Changed
  <2>3. ASSUME NEW x \in Paths, t2[x].kind # "absent", NEW y \in Above(x) PROVE t2[y].kind = "dir"
    <3>1. x # q /\ t[x].kind # "absent"
      BY <2>3, AbsentNode DEF GoodTree
    <3>2. y \in Paths /\ IsPrefix(y, x) /\ y # x
      BY <2>3, AboveMeans
    <3>3. y # q
      BY <2>1, <3>1, <3>2, HasChild
    <3>4. t[y].kind = "dir"
      BY <2>3, <3>1, RootedMeans
    <3> QED
      BY <3>2, <3>3, <3>4 DEF GoodTree
  <2>4. Rooted(t2)
    <3> HIDE DEF t2
    <3> QED
      BY <2>2, <2>3, RootedMeans
  <2> QED
    BY <1>1, <1>2, <2>4
<1> QED
  BY <1>1, <1>2

LEMMA PutRooted ==
    ASSUME NEW t, GoodTree(t), Rooted(t), NEW fd, NEW i, NEW byte, GoodTree(Put(t, fd, i, byte))
    PROVE  Rooted(Put(t, fd, i, byte))
<1>1. ASSUME NEW q \in Paths
      PROVE  \/ Put(t, fd, i, byte)[q].kind = t[q].kind
             \/ t[q].kind \in FileKinds /\ Put(t, fd, i, byte)[q].kind \in FileKinds
  <2>1. CASE q \in At(t, fd)
    <3>1. \A data : [t[q] EXCEPT !.kind = "file", !.holds = {}, !.data = data].kind = "file"
      BY DEF GoodTree, GoodNode, NodeFields
    <3>2. Put(t, fd, i, byte)[q].kind = "file"
      BY <2>1, <3>1 DEF Put
    <3> QED
      BY <2>1, <3>2 DEF At, FileKinds
  <2>2. CASE q \notin At(t, fd)
    BY <2>2 DEF Put
  <2> QED
    BY <2>1, <2>2
<1> QED
  BY <1>1, Reformed

LEMMA StoreRooted ==
    ASSUME NEW t, GoodTree(t), Rooted(t), NEW fd, NEW m, GoodTree(Store(t, fd, m))
    PROVE  Rooted(Store(t, fd, m))
<1>1. \A q \in Paths : Store(t, fd, m)[q].kind = t[q].kind
  BY DEF Store, GoodTree, GoodNode, NodeFields
<1> QED
  BY <1>1, Reformed

LEMMA ClosedRooted ==
    ASSUME NEW t, GoodTree(t), Rooted(t), NEW p
    PROVE  Rooted(Closed(t, p))
<1>1. \A q \in Paths : \/ Closed(t, p)[q].kind = t[q].kind
                       \/ t[q].kind \in FileKinds /\ Closed(t, p)[q].kind \in FileKinds
  BY DEF Closed, At, FileKinds, GoodTree, GoodNode, NodeFields
<1> QED
  BY <1>1, ClosedTyped, Reformed

LEMMA UnpackRooted ==
    ASSUME NEW t, GoodTree(t), Rooted(t), NEW p, GoodProc(p), p.ask.op = "extract",
           NEW q \in p.left, NEW me
    PROVE  Rooted(Unpack(t, p, q, me).tree)
<1> DEFINE m == CHOOSE x \in p.cargo : p.dest \o x.name = q
           n == [New(m.kind, me, q) EXCEPT !.data = m.data, !.to = m.to, !.holds = m.holds]
           stop == IF q \notin Paths THEN { NoSpace } ELSE When(Dir(t, q) /\ m.kind # "dir", Exists)
           t2 == IF m.kind = "dir" /\ Dir(t, q) THEN t ELSE [t EXCEPT ![q] = n]
           errs == OrElse(Way(t, q), stop)
<1>1. Unpack(t, p, q, me) = Step(p, q, t, errs, t2)
  BY DEF Unpack
<1>2. Unpack(t, p, q, me).tree = IF errs = {} THEN t2 ELSE t
  <2> HIDE DEF errs, t2
  <2> QED
    BY <1>1, StepResult
<1>3. GoodTree(Unpack(t, p, q, me).tree)
  BY UnpackTyped DEF GoodStep
<1>4. CASE errs = {} /\ ~(m.kind = "dir" /\ Dir(t, q))
  <2>1. Way(t, q) = {} /\ stop = {}
    BY <1>4, NoErrors
  <2>2. q \in Paths /\ ~(Dir(t, q) /\ m.kind # "dir")
    BY <2>1, NoErrors
  <2>3. t[q].kind # "dir"
    BY <1>4, <2>2 DEF Dir
  <2>4. Unpack(t, p, q, me).tree = [t EXCEPT ![q] = n]
    BY <1>2, <1>4
  <2> HIDE DEF n
  <2>5. Rooted([t EXCEPT ![q] = n])
    BY <1>3, <2>1, <2>2, <2>3, <2>4, ReplacedThere
  <2> QED
    BY <2>4, <2>5
<1>5. CASE errs # {} \/ (m.kind = "dir" /\ Dir(t, q))
  BY <1>2, <1>5
<1> QED
  BY <1>4, <1>5

LEMMA CopyEntryRooted ==
    ASSUME NEW t, GoodTree(t), Rooted(t), NEW p, GoodProc(p), p.ask.op = "cp", NEW q \in p.left, NEW me
    PROVE  Rooted(CopyEntry(t, p, q, me).tree)
<1> DEFINE from == IF p.ask.flag THEN Real(t, q) ELSE q
           at == p.dest \o Relative(p.ask.path, q)
           to == IF t[from].kind \in FileKinds THEN Real(t, at) ELSE at
           kept == t[from].kind \in FileKinds /\ t[to].kind \in FileKinds /\ t[to].open
           inplace == [t EXCEPT ![to] = [t[from] EXCEPT !.id = t[to].id]]
           anew == [t EXCEPT ![at] = [t[from] EXCEPT !.id = [by |-> me, at |-> at]]]
           way == IF to = at THEN Way(t, at) ELSE Reach(t, at)
           over == OrElse(way, When(t[to].kind # "absent" /\ Dir(t, from) # Dir(t, to), NotOver))
           errs == OrElse(OrElse(Find(t, q), IF p.ask.flag THEN Reach(t, q) ELSE {}),
                          OrElse(IF Dir(t, from) THEN {} ELSE Shut(t, from), over))
           t2 == IF kept THEN inplace ELSE IF Dir(t, at) THEN t ELSE anew
<1>1. CopyEntry(t, p, q, me) = Step(p, q, t, errs, t2)
  BY ZenonT(30) DEF CopyEntry
<1>2. CopyEntry(t, p, q, me).tree = IF errs = {} THEN t2 ELSE t
  <2> HIDE DEF errs, t2
  <2> QED
    BY <1>1, StepResult
<1>3. GoodTree(CopyEntry(t, p, q, me).tree)
  BY CopyEntryTyped DEF GoodStep
<1>4. q \in Paths /\ at \in Path
  <2>1. q \in Paths /\ q \in Path /\ p.ask.path \in Path /\ p.dest \in Path
    BY AskOfProc, PathsArePaths DEF GoodProc, TreeOperations
  <2>2. Relative(p.ask.path, q) \in Path
    BY <2>1, Concatenation
  <2> QED
    BY <2>1, <2>2, Concatenation
<1>5. errs = {} => Way(t, at) = {}
  <2>1. errs = {} => over = {}
    <3> HIDE DEF over
    <3> QED
      BY NoErrors
  <2>3. over = {} => way = {}
    <3> HIDE DEF way
    <3> QED
      BY NoErrors
  <2>2. Reach(t, at) = {} => Way(t, at) = {}
    BY <1>4, FindMeans
  <2> QED
    BY <2>1, <2>2, <2>3
<1>6. CASE errs = {} /\ kept
  <2>1. t2 = inplace /\ t[from].kind \in FileKinds /\ t[to].kind \in FileKinds
    BY <1>6
  <2>2. from \in Paths
    BY <1>4, RealPath
  <2>3. \A id : [t[from] EXCEPT !.id = id].kind = t[from].kind
    BY <2>2 DEF GoodTree, GoodNode, NodeFields
  <2>4. \A x \in Paths : \/ inplace[x].kind = t[x].kind
                         \/ t[x].kind \in FileKinds /\ inplace[x].kind \in FileKinds
    <3> HIDE DEF from, to
    <3> QED
      BY <2>1, <2>3 DEF GoodTree
  <2> HIDE DEF from, at, to, kept, inplace, anew, way, t2
  <2>5. GoodTree(inplace)
    BY <1>2, <1>3, <1>6, <2>1
  <2>6. Rooted(inplace)
    BY <2>4, <2>5, Reformed
  <2> QED
    BY <1>2, <1>6, <2>1, <2>6
<1>7. CASE errs = {} /\ ~kept /\ ~Dir(t, at)
  <2>1. t2 = anew /\ t[at].kind # "dir"
    BY <1>7 DEF Dir
  <2>2. GoodTree(anew)
    <3> HIDE DEF anew, t2
    <3> QED
      BY <1>2, <1>3, <1>7, <2>1
  <2> HIDE DEF from, at
  <2>3. Rooted(anew)
    BY <1>5, <1>7, <2>1, <2>2, ReplacedThere
  <2> HIDE DEF anew, t2
  <2> QED
    BY <1>2, <1>7, <2>1, <2>3
<1>8. CASE errs # {} \/ (~kept /\ Dir(t, at))
  <2>1. errs = {} => t2 = t
    BY <1>8
  <2> HIDE DEF t2
  <2> QED
    BY <1>2, <2>1
<1> QED
  BY <1>6, <1>7, <1>8

LEMMA ReplaceFileRooted ==
    ASSUME NEW t, GoodTree(t), Rooted(t), NEW p, GoodProc(p), NEW q, NEW me
    PROVE  Rooted(ReplaceFile(t, p, q, me).tree) /\ Rooted(CreateFile(t, p, q, me).tree)
<1> DEFINE n == [New("file", me, q) EXCEPT !.data = p.ask.data]
<1>1. GoodTree([t EXCEPT ![q] = n])
  BY AskOfProc, FileWith, Changed
<1> HIDE DEF n
<1>2. Rooted(ReplaceFile(t, p, q, me).tree)
  <2>1. ReplaceFile(t, p, q, me).tree =
            IF Way(t, q) = {} THEN IF t[q].kind = "dir" THEN t ELSE [t EXCEPT ![q] = n] ELSE t
    BY StepResult DEF ReplaceFile, n
  <2>2. Way(t, q) = {} /\ t[q].kind # "dir" => Rooted([t EXCEPT ![q] = n])
    BY <1>1, ReplacedThere
  <2> QED
    BY <2>1, <2>2
<1>3. Rooted(CreateFile(t, p, q, me).tree)
  <2>1. CreateFile(t, p, q, me).tree = IF NotMade(t, q) = {} THEN [t EXCEPT ![q] = n] ELSE t
    BY StepResult DEF CreateFile, n
  <2>2. NotMade(t, q) = {} => Rooted([t EXCEPT ![q] = n])
    BY <1>1, NotMadeMeans, ReplacedThere
  <2> QED
    BY <2>1, <2>2
<1> QED
  BY <1>2, <1>3

LEMMA ContinueRooted ==
    ASSUME NEW t, GoodTree(t), Rooted(t), NEW p, GoodProc(p), CanGoOn(p), NEW q \in p.left, NEW me
    PROVE  Rooted(Continue(t, p, q, me).tree)
<1>1. p.ask.op = "rm" => Rooted(RmEntry(t, p, q).tree)
  BY RmEntryRooted DEF GoodProc, TreeOperations
<1>2. p.ask.op = "upload" => Rooted(WriteByte(t, p, q).tree)
  <2>1. WriteByte(t, p, q).tree = Put(t, p.fd, p.at + 1, p.ask.data[p.at + 1])
    BY DEF WriteByte
  <2>2. p.ask.op = "upload" => GoodTree(WriteByte(t, p, q).tree)
    BY WriteByteTyped DEF GoodStep
  <2> QED
    BY <2>1, <2>2, PutRooted
<1>3. p.ask.op = "compress" => Rooted(AddMember(t, p, q).tree)
  <2>1. \/ \E errs : AddMember(t, p, q) = Stepped(p, q, t, errs)
        \/ \E p2, m, e : AddMember(t, p, q) = Stepped(p2, q, Store(t, p.fd, m), e)
    BY Zenon DEF AddMember
  <2>2. \A p2, t2, e : Stepped(p2, q, t2, e).tree = t2
    BY DEF Stepped
  <2>3. AddMember(t, p, q).tree = t \/ \E m : AddMember(t, p, q).tree = Store(t, p.fd, m)
    BY <2>1, <2>2
  <2>4. p.ask.op = "compress" => GoodTree(AddMember(t, p, q).tree)
    BY AddMemberTyped DEF GoodStep
  <2> QED
    BY <2>3, <2>4, StoreRooted
<1>4. \A errs : Rooted(Stepped(p, q, t, errs).tree)
  BY DEF Stepped
<1> QED
  BY <1>1, <1>2, <1>3, <1>4, UnpackRooted, CopyEntryRooted, ReplaceFileRooted, Zenon DEF Continue

LEMMA RootedStep ==
    ASSUME TypeInv, ControlInv, [Next]_vars, Rooted(tree)
    PROVE  Rooted(tree')
<1>1. CASE \E b \in Actors : Runs(b)
  <2>1. PICK me \in Actors : Runs(me)
    BY <1>1
  <2>2. PICK r, p :
             /\ GoodTree(r) /\ GoodProc(p) /\ p.ask = proc[me].ask /\ Moves(me, r, p)
             /\ \/ /\ proc[me].state = "ready"
                   /\ r = Begin(tree, proc[me].ask, me).tree
                   /\ p = Begun(me, Begin(tree, proc[me].ask, me))
                \/ \E q \in proc[me].left :
                     /\ proc[me].state = "going" /\ CanGoOn(proc[me]) /\ GoodProc(proc[me])
                     /\ q \in NextEntries(proc[me])
                     /\ r = Continue(tree, proc[me], q, me).tree
                     /\ p = Continue(tree, proc[me], q, me).proc
                     /\ GoodStep(Continue(tree, proc[me], q, me), proc[me])
    BY <2>1, RunIsStep
  <2>3. GoodTree(tree) /\ p.ask \in AskTypes
    BY <2>2 DEF TypeInv, GoodProc
  <2>4. Rooted(r)
    BY <2>2, <2>3, BeginRooted, ContinueRooted
  <2>5. tree' = IF p.left = {} THEN Closed(r, p) ELSE r
    BY <2>2, MovesOn
  <2> QED
    BY <2>2, <2>4, <2>5, ClosedRooted
<1>2. CASE ~ \E b \in Actors : Runs(b)
  BY <1>2, OnlyRunsChange
<1> QED
  BY <1>1, <1>2

\* However requests and jobs interleave, what is in the tree stays in directories
\* of the tree: no command (commands/*.py, job_*.sh) leaves an entry behind in a
\* directory that another one has taken away, or a link that leads to the root.
THEOREM StaysRooted == Spec => []Rooted(tree)
<1>1. Init => TypeInv /\ ControlInv /\ Rooted(tree)
  BY InitTyped, TreesAssumption DEF Init, FilesInit
<1>2. TypeInv /\ ControlInv /\ Rooted(tree) /\ [Next]_vars => (TypeInv /\ ControlInv /\ Rooted(tree))'
  BY TypedStep, RootedStep
<1> QED
  BY <1>1, <1>2, PTL DEF Spec

-----------------------------------------------------------------------------
(* Who changed the tree.                                                    *)

MarksInv ==
    /\ DOMAIN marks = Actors
    /\ \A b \in Actors : marks[b] \in [changed : BOOLEAN, disturbed : BOOLEAN]

\* How the step of a process marks each actor.
LEMMA MovesMark ==
    ASSUME TypeInv, MarksInv, NEW me \in Actors, NEW t, NEW p, Moves(me, t, p), NEW b \in Actors
    PROVE  /\ marks'[b] \in [changed : BOOLEAN, disturbed : BOOLEAN]
           /\ tree' = tree => marks'[b] = marks[b]
           /\ tree' # tree /\ b = me => marks'[b].changed /\ marks'[b].disturbed = marks[b].disturbed
           /\ tree' # tree /\ b # me =>
                /\ marks'[b].changed = marks[b].changed
                /\ marks'[b].disturbed <=> marks[b].disturbed \/ proc[b].state \notin { "none", "ready" }
<1>1. PICK m \in [changed : BOOLEAN, disturbed : BOOLEAN] : m = marks[b]
  BY DEF MarksInv
<1>2. marks'[b] = IF tree' = tree THEN m
                  ELSE IF b = me THEN [m EXCEPT !.changed = TRUE]
                  ELSE [m EXCEPT !.disturbed = @ \/ proc[b].state \notin { "none", "ready" }]
  BY <1>1 DEF Moves
<1>3. [m EXCEPT !.changed = TRUE] \in [changed : BOOLEAN, disturbed : BOOLEAN]
      /\ [m EXCEPT !.changed = TRUE].changed
      /\ [m EXCEPT !.changed = TRUE].disturbed = m.disturbed
  OBVIOUS
<1>4. \A d \in BOOLEAN : /\ [m EXCEPT !.disturbed = @ \/ d] \in [changed : BOOLEAN, disturbed : BOOLEAN]
                         /\ [m EXCEPT !.disturbed = @ \/ d].changed = m.changed
                         /\ [m EXCEPT !.disturbed = @ \/ d].disturbed <=> m.disturbed \/ d
  OBVIOUS
<1>5. CASE tree' = tree
  BY <1>1, <1>2, <1>5
<1>6. CASE tree' # tree /\ b = me
  BY <1>1, <1>2, <1>3, <1>6
<1>7. CASE tree' # tree /\ b # me
  <2>1. marks'[b] = [m EXCEPT !.disturbed = @ \/ proc[b].state \notin { "none", "ready" }]
    BY <1>2, <1>7
  <2>2. (proc[b].state \notin { "none", "ready" }) \in BOOLEAN
    OBVIOUS
  <2> QED
    BY <1>1, <1>4, <1>7, <2>1, <2>2
<1> QED
  BY <1>5, <1>6, <1>7

LEMMA MarksStep ==
    ASSUME TypeInv, ControlInv, MarksInv, [Next]_vars
    PROVE  MarksInv'
<1>1. ASSUME NEW me \in Actors, Runs(me) PROVE MarksInv'
  <2>1. PICK r, p : Moves(me, r, p)
    BY <1>1, RunIsStep
  <2>2. DOMAIN marks' = Actors
    BY <2>1 DEF Moves
  <2>3. \A b \in Actors : marks'[b] \in [changed : BOOLEAN, disturbed : BOOLEAN]
    BY <2>1, MovesMark
  <2> QED
    BY <2>2, <2>3 DEF MarksInv
<1>2. CASE ~ \E b \in Actors : Runs(b)
  BY <1>2, OnlyRunsChange DEF MarksInv
<1> QED
  BY <1>1, <1>2

-----------------------------------------------------------------------------
(* Commands that do all or nothing.                                         *)

Light == FileOperations \ { "rm", "compress", "extract" }

\* Where such a command can go on: to a listing that will find its path.
LEMMA BeginLight ==
    ASSUME NEW t, GoodTree(t), Rooted(t), NEW a \in AskTypes, a.op \in Light, NEW me,
           NEW r, r = Begin(t, a, me)
    PROVE  /\ a.op = "upload" /\ r.left # {} => r.errs = {}
           /\ r.tree # t =>
                \/ a.op = "chmod" /\ Way(r.tree, a.path) # {}
                \/ r.errs = {} /\ (a.op # "upload" => \A q \in r.left : Find(r.tree, q) = {})
<1>0. a.path \in Paths /\ a.path \in Path /\ a.to \in Path
  BY PathsArePaths DEF AskTypes
<1>1. ASSUME NEW errs, NEW t2, NEW x
      PROVE  LET d == AndList(t, errs, t2, x) IN
             d.tree # t => d.tree = t2 /\ d.errs = {} /\ d.left = { x } /\ errs = {}
  BY DEF AndList, Fails, Did
<1>2. CASE a.op = "chmod"
  <2> DEFINE t2 == [t EXCEPT ![Real(t, a.path)].open = (a.word = "rw")]
  <2>1. r = AndList(t, Reach(t, a.path), t2, a.path)
    BY <1>2, Zenon DEF Begin, Chmod
  <2>2. \A q \in Paths : t2[q].kind = t[q].kind
    BY DEF GoodTree, GoodNode, NodeFields
  <2> HIDE DEF t2
  <2>3. r.tree # t => r.tree = t2 /\ r.errs = {} /\ r.left = { a.path } /\ Reach(t, a.path) = {}
    BY <1>1, <2>1
  <2>4. Reach(t, a.path) = {} => t[a.path].kind # "absent"
    BY <1>0, FindMeans, PathsArePaths
  <2>5. Reach(t, a.path) = {} /\ Way(t2, a.path) = {} => Find(t2, a.path) = {}
    BY <1>0, <2>2, <2>4, FindMeans
  <2> QED
    BY <1>2, <2>3, <2>5
<1>3. CASE a.op = "mkdir"
  <2>1. r = Mkdir(t, a, me)
    BY <1>3, Zenon DEF Begin
  <2>2. \E errs, t2 : Mkdir(t, a, me) = AndList(t, errs, t2, a.path)
    BY Zenon DEF Mkdir
  <2>3. r.tree # t => r.errs = {} /\ r.left = { a.path }
    BY <1>1, <2>1, <2>2
  <2>4. r.tree # t => Find(r.tree, a.path) = {}
    BY <2>1, MkdirRooted
  <2> QED
    BY <1>3, <2>3, <2>4
<1>4. CASE a.op = "symlink"
  <2>1. r = Symlink(t, a, me)
    BY <1>4, Zenon DEF Begin
  <2>2. \E errs, t2 : Symlink(t, a, me) = AndList(t, errs, t2, a.to)
    BY Zenon DEF Symlink
  <2>3. r.tree # t => r.errs = {} /\ r.left = { a.to }
    BY <1>1, <2>1, <2>2
  <2>4. r.tree # t => Find(r.tree, a.to) = {}
    BY <2>1, SymlinkRooted
  <2> QED
    BY <1>4, <2>3, <2>4
<1>5. CASE a.op = "upload"
  <2> DEFINE q == Real(t, a.path)
             id == [by |-> me, at |-> q]
  <2>1. r = Upload(t, a, me)
    BY <1>5, Zenon DEF Begin
  <2>2. Truncate(t, q, "file", me).errs = {}
    BY DEF Truncate, Did
  <2>3. r = IF Writable(t, a.path) = {} THEN Truncate(t, q, "file", me) ELSE Fails(t, Writable(t, a.path))
    BY <2>1 DEF Upload, Unless
  <2>4. \A errs : Fails(t, errs).left = {} /\ Fails(t, errs).tree = t
    BY DEF Fails, Did
  <2> HIDE DEF q
  <2> QED
    BY <1>5, <2>2, <2>3, <2>4
<1>6. CASE a.op \notin { "chmod", "mkdir", "symlink", "upload" }
  <2>1. a.op \in { "chown", "ls", "checksum", "file", "stat", "head", "tail", "view", "download" }
    BY <1>6 DEF Light, FileOperations
  <2>2. r \in { Chown(t, a), Ls(t, a), FileType(t, a), Stat(t, a), Read(t, a) }
    BY <2>1, Zenon DEF Begin
  <2> QED
    BY <1>6, <2>2, TreeKept
<1> QED
  BY <1>2, <1>3, <1>4, <1>5, <1>6

\* How such a command goes on.
LEMMA ContinueLight ==
    ASSUME NEW t, NEW p, GoodProc(p), p.ask.op \in Light, NEW q \in p.left, NEW me,
           NEW r, r = Continue(t, p, q, me)
    PROVE  /\ p.ask.op = "upload" => r.proc.errs = p.errs
           /\ p.ask.op # "upload" => r.tree = t /\ r.proc.errs = p.errs \cup Find(t, q)
<1>1. CASE p.ask.op = "upload"
  <2>1. r = WriteByte(t, p, q)
    BY <1>1, Zenon DEF Continue
  <2>2. \A left : [p EXCEPT !.at = @ + 1, !.left = left].errs = p.errs
    BY DEF GoodProc, Fields
  <2>3. WriteByte(t, p, q).proc.errs = p.errs
    BY <2>2 DEF WriteByte
  <2> QED
    BY <1>1, <2>1, <2>3
<1>2. CASE p.ask.op # "upload"
  <2>1. p.ask.op \notin { "rm", "upload", "wormhole receive", "compress", "extract", "cp", "receive", "send" }
    BY <1>2 DEF Light, FileOperations
  <2>2. r = Stepped(p, q, t, Find(t, q))
    BY <2>1, Zenon DEF Continue
  <2>3. Stepped(p, q, t, Find(t, q)).proc.errs = p.errs \cup Find(t, q)
    BY DEF Stepped, GoodProc, Fields
  <2> QED
    BY <1>2, <2>2, <2>3 DEF Stepped
<1> QED
  BY <1>1, <1>2

LEMMA ClosedOther ==
    ASSUME NEW t, NEW p, p.ask.op # "compress"
    PROVE  Closed(t, p) = t
BY DEF Closed

\* An upload that could not write its bytes.
Short(b) == proc[b].state = "over" /\ proc[b].ask.op = "upload" /\ proc[b].errs = { NoSpace }

\* A process of such a command that changed the tree, if it was alone.
Clean(b) ==
    LET p == proc[b] IN
    /\ p.state \in { "none", "ready" } => ~marks[b].changed
    /\ p.ask.op = "upload" /\ p.state = "going" => p.errs = {}
    /\ /\ p.ask.op \in Light /\ p.state \in { "going", "over", "dead" }
       /\ marks[b].changed /\ ~marks[b].disturbed
       => \/ p.ask.op = "chmod" /\ Way(tree, p.ask.path) # {}
          \/ p.errs = {} /\ (p.ask.op # "upload" => \A q \in p.left : Find(tree, q) = {})

LEMMA RunsClean ==
    ASSUME TypeInv, ControlInv, MarksInv, Rooted(tree), NEW me \in Actors, Runs(me), Clean(me)
    PROVE  Clean(me)'
<1>1. PICK r, p :
             /\ GoodTree(r) /\ GoodProc(p) /\ p.ask = proc[me].ask /\ Moves(me, r, p)
             /\ \/ /\ proc[me].state = "ready"
                   /\ r = Begin(tree, proc[me].ask, me).tree
                   /\ p = Begun(me, Begin(tree, proc[me].ask, me))
                \/ \E q \in proc[me].left :
                     /\ proc[me].state = "going" /\ CanGoOn(proc[me]) /\ GoodProc(proc[me])
                     /\ q \in NextEntries(proc[me])
                     /\ r = Continue(tree, proc[me], q, me).tree
                     /\ p = Continue(tree, proc[me], q, me).proc
                     /\ GoodStep(Continue(tree, proc[me], q, me), proc[me])
  BY RunIsStep
<1> DEFINE a == proc[me].ask
<1>2. GoodTree(tree) /\ a \in AskTypes
  BY <1>1 DEF TypeInv, GoodProc
<1>3. /\ proc'[me].ask = a /\ proc'[me].errs = p.errs /\ proc'[me].left = p.left
      /\ proc'[me].state = IF p.left = {} THEN "over" ELSE "going"
  BY <1>1 DEF Moves, TypeInv, GoodProc, Fields
<1>4. a.op \in Light => tree' = r
  <2>1. tree' = IF p.left = {} THEN Closed(r, p) ELSE r
    BY <1>1, MovesOn
  <2>2. a.op \in Light => Closed(r, p) = r
    BY <1>1, ClosedOther DEF Light
  <2> QED
    BY <2>1, <2>2
<1>5. /\ tree' = tree => marks'[me] = marks[me]
      /\ tree' # tree => marks'[me].disturbed = marks[me].disturbed
  BY <1>1, MovesMark
<1>6. a.op = "upload" => a.op \in Light
  BY DEF Light, FileOperations
<1>7. CASE /\ proc[me].state = "ready"
           /\ r = Begin(tree, a, me).tree /\ p = Begun(me, Begin(tree, a, me))
  <2>1. PICK d : d = Begin(tree, a, me)
    OBVIOUS
  <2>2. GoodProc(proc[me])
    BY <1>7 DEF TypeInv, GoodActor
  <2>3. p.left = d.left /\ p.errs = d.errs /\ r = d.tree
    BY <1>7, <2>1, <2>2 DEF Begun, GoodProc, Fields
  <2>4. a.op \in Light =>
           /\ a.op = "upload" /\ p.left # {} => p.errs = {}
           /\ r # tree =>
                \/ a.op = "chmod" /\ Way(r, a.path) # {}
                \/ p.errs = {} /\ (a.op # "upload" => \A q \in p.left : Find(r, q) = {})
    BY <1>2, <2>1, <2>3, BeginLight
  <2>5. ~marks[me].changed
    BY <1>7 DEF Clean
  <2> QED
    BY <1>3, <1>4, <1>5, <1>6, <2>4, <2>5 DEF Clean
<1>8. ASSUME NEW q \in proc[me].left, proc[me].state = "going", GoodProc(proc[me]),
             r = Continue(tree, proc[me], q, me).tree, p = Continue(tree, proc[me], q, me).proc,
             GoodStep(Continue(tree, proc[me], q, me), proc[me])
      PROVE  Clean(me)'
  <2>1. /\ a.op = "upload" => p.errs = proc[me].errs
        /\ a.op \in Light /\ a.op # "upload" => r = tree /\ p.errs = proc[me].errs \cup Find(tree, q)
    BY <1>6, <1>8, ContinueLight
  <2>2. p.left \subseteq proc[me].left
    BY <1>8 DEF GoodStep
  <2>3. a.op = "upload" => p.errs = {}
    BY <1>8, <2>1 DEF Clean
  <2>4. a.op \in Light /\ a.op # "upload" => tree' = tree /\ marks'[me] = marks[me]
    BY <1>4, <1>5, <2>1
  <2> QED
    BY <1>3, <1>8, <2>1, <2>2, <2>3, <2>4 DEF Clean
<1> QED
  BY <1>1, <1>7, <1>8

LEMMA CleanStep ==
    ASSUME TypeInv, ControlInv, MarksInv, Rooted(tree), [Next]_vars, NEW b \in Actors,
           Clean(b) \/ Short(b)
    PROVE  (Clean(b) \/ Short(b))'
<1>1. CASE Runs(b)
  <2>1. ~Short(b)
    BY <1>1, RunsKeep DEF Short
  <2> QED
    BY <1>1, <2>1, RunsClean
<1>2. ASSUME NEW me \in Actors, Runs(me), me # b PROVE (Clean(b) \/ Short(b))'
  <2>1. PICK r, p : Moves(me, r, p)
    BY <1>2, RunIsStep
  <2>2. proc'[b] = proc[b]
    BY <1>2, RunsKeep
  <2>3. /\ tree' = tree => marks'[b] = marks[b]
        /\ tree' # tree =>
             /\ marks'[b].changed = marks[b].changed
             /\ marks'[b].disturbed <=> marks[b].disturbed \/ proc[b].state \notin { "none", "ready" }
    BY <1>2, <2>1, MovesMark
  <2> QED
    BY <2>2, <2>3 DEF Clean, Short
<1>3. CASE ~ \E me \in Actors : Runs(me)
  <2>1. UNCHANGED << tree, marks >>
    BY <1>3, OnlyRunsChange
  <2>2. CASE proc'[b] = proc[b]
    BY <2>1, <2>2 DEF Clean, Short
  <2>3. CASE proc[b].state = "none" /\ proc'[b].state \in { "none", "ready" }
    BY <2>1, <2>3 DEF Clean, Short
  <2>4. CASE /\ proc'[b] = [proc[b] EXCEPT !.state = "dead"] /\ proc'[b].state = "dead"
             /\ proc[b].state \in { "ready", "going" }
    <3>1. /\ proc'[b].ask = proc[b].ask /\ proc'[b].left = proc[b].left
          /\ proc'[b].errs = proc[b].errs
      BY <2>4
    <3> QED
      BY <2>1, <2>4, <3>1 DEF Clean, Short
  <2>5. CASE WriteStops(b)
    BY <2>5 DEF Short, WriteStops
  <2> QED
    BY <1>3, <2>2, <2>3, <2>4, <2>5, ActorSteps
<1> QED
  BY <1>1, <1>2, <1>3

\* A refusal is given to a request without a process, or to the messages of one
\* that is over or was killed.
Told(r) ==
    answer[r].code \in { 400, 403, 404, 500 } =>
        \/ proc[r].state = "none"
        \/ /\ proc[r].state = "dead" \/ (proc[r].state = "over" /\ proc[r].errs # {})
           /\ answer[r].code = ErrorCode(proc[r].errs)

LEMMA ToldStep ==
    ASSUME TypeInv, ControlInv, [Next]_vars, NEW r \in Requests, Told(r)
    PROVE  Told(r)'
<1>0. r \in Actors /\ RequestInv(r) /\ RequestInv(r)'
  BY TypedStep, Partition DEF ControlInv
<1>1. CASE answer'[r] = answer[r]
  <2>1. CASE Runs(r)
    <3>1. proc[r].state \in { "ready", "going" }
      BY <1>0, <2>1, RunsKeep
    <3> QED
      BY <1>0, <1>1, <3>1 DEF Told, RequestInv, Waiting
  <2>2. CASE ~Runs(r)
    <3>1. CASE proc'[r] = proc[r]
      BY <1>1, <3>1 DEF Told
    <3>2. CASE proc[r].state = "none" /\ proc'[r].state \in { "none", "ready" }
      BY <1>0, <1>1, <3>2 DEF Told, RequestInv, Waiting
    <3>3. CASE proc[r].state \in { "ready", "going" }
      BY <1>0, <1>1, <3>3 DEF Told, RequestInv, Waiting
    <3> QED
      BY <1>0, <2>2, <3>1, <3>2, <3>3, ActorSteps DEF WriteStops
  <2> QED
    BY <2>1, <2>2
<1>2. CASE answer'[r] = Coded(Waiting)
  BY <1>2 DEF Told, Coded, NoAnswer, Waiting
<1>3. CASE proc'[r] = proc[r] /\ proc[r].state = "none"
  BY <1>3 DEF Told
<1>4. CASE proc'[r] = proc[r] /\ \E code \in { 408, 413, 424 } : answer'[r] = Coded(code)
  BY <1>4 DEF Told, Coded, NoAnswer
<1>5. CASE /\ proc'[r] = proc[r]
           /\ proc[r].state = "dead" \/ (proc[r].state = "over" /\ proc[r].errs # {})
           /\ \E code : answer'[r] = Coded(code) /\ code = ErrorCode(proc[r].errs)
  BY <1>5 DEF Told, Coded, NoAnswer
<1>6. CASE proc[r].state = "over" /\ answer'[r] = Success(proc[r].ask, proc[r].out)
  <2>1. proc[r].ask.op \in FileOperations
    BY <1>0, <1>6 DEF RequestInv
  <2>2. Success(proc[r].ask, proc[r].out).code \in { 200, 201, 204, 413 }
    BY <2>1, SuccessCodes
  <2> QED
    BY <1>6, <2>2 DEF Told
<1> QED
  BY <1>1, <1>2, <1>3, <1>4, <1>5, <1>6, RequestSteps

-----------------------------------------------------------------------------
(* Transfers by the streamer.                                               *)

\* open(target, "xb") makes a file only where nothing is.
LEMMA Exclusive ==
    ASSUME NEW t, GoodTree(t), NEW p, NEW x, NEW me, NEW q \in Paths, t[q].kind # "absent"
    PROVE  CreateFile(t, p, x, me).tree[q] = t[q]
<1> DEFINE t2 == [t EXCEPT ![x] = [New("file", me, x) EXCEPT !.data = p.ask.data]]
<1>1. ASSUME NotMade(t, x) = {} PROVE t2[q] = t[q]
  <2>1. x # q
    BY <1>1, NotMadeMeans
  <2> QED
    BY <2>1 DEF GoodTree
<1>2. CreateFile(t, p, x, me).tree = (IF NotMade(t, x) = {} THEN t2 ELSE t)
  BY StepResult DEF CreateFile
<1> QED
  BY <1>1, <1>2

LEMMA ReceivesBeside ==
    ASSUME TypeInv, ControlInv, [Next]_vars, NEW j \in Jobs, Ask(j).op = "receive", proc'[j] # proc[j],
           NEW q \in Paths, tree[q].kind # "absent"
    PROVE  tree'[q] = tree[q]
<1>0. j \in Actors
  BY Partition
<1>1. CASE Runs(j)
  <2>1. PICK r, p :
             /\ GoodTree(r) /\ GoodProc(p) /\ p.ask = proc[j].ask /\ Moves(j, r, p)
             /\ \/ r = Begin(tree, proc[j].ask, j).tree
                \/ \E x : r = Continue(tree, proc[j], x, j).tree
    BY <1>0, <1>1, RunIsStep
  <2>2. tree' = r
    <3>1. tree' = (IF p.left = {} THEN Closed(r, p) ELSE r)
      BY <1>0, <2>1, MovesOn
    <3>2. Closed(r, p) = r
      BY <2>1, ClosedOther DEF Ask
    <3> QED
      BY <3>1, <3>2
  <2>3. Begin(tree, proc[j].ask, j) = Receive(tree, proc[j].ask)
    BY Zenon DEF Begin, Ask
  <2>4. \A x : Continue(tree, proc[j], x, j) = CreateFile(tree, proc[j], x, j)
    BY Zenon DEF Continue, Ask
  <2>5. \A x : CreateFile(tree, proc[j], x, j).tree[q] = tree[q]
    BY Exclusive DEF TypeInv
  <2>6. Receive(tree, proc[j].ask).tree = tree
    BY TreeKept
  <2> QED
    BY <2>1, <2>2, <2>3, <2>4, <2>5, <2>6
<1>2. ASSUME NEW me \in Actors, Runs(me), me # j PROVE FALSE
  BY <1>0, <1>2, RunsKeep
<1>3. CASE ~ \E me \in Actors : Runs(me)
  BY <1>3, OnlyRunsChange
<1> QED
  BY <1>1, <1>2, <1>3

\* A file at the target of a transfer by the streamer stays, however late the job
\* comes to it and whatever else goes on (open(target, "xb") in
\* streamer_receive).
THEOREM ReceiverReplacesNothing == Spec => StreamerSparesFiles
<1>1. TypeInv /\ ControlInv /\ [Next]_vars =>
        [\A j \in Jobs : Ask(j).op = "receive" /\ proc'[j] # proc[j] =>
           \A q \in Paths : tree[q].kind # "absent" => tree'[q] = tree[q]]_vars
  BY ReceivesBeside
<1> QED
  BY <1>1, InitTyped, TypedStep, PTL DEF Spec, StreamerSparesFiles

-----------------------------------------------------------------------------
(* Lines and characters.                                                    *)

NLsBefore(s, i) == { j \in 1 .. i - 1 : s[j] = NL }

LEMMA LengthIsNat == ASSUME NEW s \in Seq(Nat) PROVE Len(s) \in Nat
OBVIOUS

LEMMA EndedMeans ==
    ASSUME NEW s \in Seq(Nat)
    PROVE  /\ Ended(s, 1) = 0
           /\ \A i \in Nat \ {0} : Ended(s, i) \in Nat /\ Ended(s, i) = Cardinality(NLsBefore(s, i))
                                   /\ IsFiniteSet(NLsBefore(s, i))
           /\ \A i \in 1 .. Len(s) : Ended(s, i + 1) = IF s[i] = NL THEN Ended(s, i) + 1 ELSE Ended(s, i)
           /\ \A i, j \in 1 .. Len(s) + 1 : i <= j => Ended(s, i) <= Ended(s, j)
<1>0. Len(s) \in Nat
  BY LengthIsNat
<1>1. \A i \in Nat \ {0} : Ended(s, i) = Cardinality(NLsBefore(s, i))
  BY DEF Ended, NLsBefore
<1>2. ASSUME NEW i \in Nat \ {0}
      PROVE  IsFiniteSet(NLsBefore(s, i)) /\ Cardinality(NLsBefore(s, i)) \in Nat
  <2>1. NLsBefore(s, i) \subseteq 1 .. i - 1 /\ i - 1 \in Nat
    BY DEF NLsBefore
  <2> QED
    BY <2>1, InOneTo, FS_Subset, FS_CardinalityType
<1>3. Ended(s, 1) = 0
  <2>1. NLsBefore(s, 1) = {}
    BY DEF NLsBefore
  <2>2. Ended(s, 1) = Cardinality(NLsBefore(s, 1))
    BY <1>1
  <2>3. Cardinality({}) = 0
    BY FS_EmptySet
  <2> QED
    BY <2>1, <2>2, <2>3
<1>4. ASSUME NEW i \in 1 .. Len(s)
      PROVE  Ended(s, i + 1) = IF s[i] = NL THEN Ended(s, i) + 1 ELSE Ended(s, i)
  <2>0. i \in Nat \ {0} /\ i + 1 \in Nat \ {0}
    BY <1>0
  <2>1. NLsBefore(s, i + 1) = IF s[i] = NL THEN NLsBefore(s, i) \cup { i } ELSE NLsBefore(s, i)
    BY <2>0 DEF NLsBefore
  <2>2. i \notin NLsBefore(s, i)
    BY <2>0 DEF NLsBefore
  <2>3. Cardinality(NLsBefore(s, i) \cup { i }) = Cardinality(NLsBefore(s, i)) + 1
    BY <1>2, <2>0, <2>2, FS_AddElement
  <2> QED
    BY <1>1, <2>0, <2>1, <2>3
<1>5. ASSUME NEW i \in 1 .. Len(s) + 1, NEW j \in 1 .. Len(s) + 1, i <= j
      PROVE  Ended(s, i) <= Ended(s, j)
  <2>0. i \in Nat \ {0} /\ j \in Nat \ {0}
    BY <1>0
  <2>1. NLsBefore(s, i) \subseteq NLsBefore(s, j)
    BY <1>5, <2>0 DEF NLsBefore
  <2> QED
    BY <1>1, <1>2, <2>0, <2>1, FS_Subset
<1> QED
  BY <1>1, <1>2, <1>3, <1>4, <1>5

\* As many lines begin up to a position as have ended before it, and the first.
LEMMA LinesUpTo ==
    ASSUME NEW s \in Seq(Nat), NEW i \in 1 .. Len(s)
    PROVE  Cardinality({ j \in Lines(s) : j <= i }) = Ended(s, i) + 1
<1> DEFINE U(k) == { j \in Lines(s) : j <= k }
           Good == { k \in Nat : k + 1 \in 1 .. Len(s) => IsFiniteSet(U(k + 1)) /\ Cardinality(U(k + 1)) = Ended(s, k + 1) + 1 }
<1>0. Len(s) \in Nat /\ i \in Nat
  BY LengthIsNat
<1>1. 0 \in Good
  <2>1. ASSUME 0 + 1 \in 1 .. Len(s)
        PROVE  IsFiniteSet(U(0 + 1)) /\ Cardinality(U(0 + 1)) = Ended(s, 0 + 1) + 1
    <3>1. U(1) = { 1 }
      BY <1>0, <2>1 DEF Lines
    <3>2. IsFiniteSet({ 1 }) /\ Cardinality({ 1 }) = 1
      BY FS_Singleton
    <3>3. Ended(s, 1) = 0 /\ 0 + 1 = 1
      BY EndedMeans
    <3> HIDE DEF U
    <3> QED
      BY <3>1, <3>2, <3>3
  <2> QED
    BY <2>1
<1>2. ASSUME NEW n \in Nat, n \in Good PROVE n + 1 \in Good
  <2>1. ASSUME n + 1 + 1 \in 1 .. Len(s)
        PROVE  /\ IsFiniteSet(U(n + 1 + 1))
               /\ Cardinality(U(n + 1 + 1)) = Ended(s, n + 1 + 1) + 1
    <3>1. n + 1 \in 1 .. Len(s) /\ n + 1 \in Nat
      BY <1>0, <2>1
    <3>2. IsFiniteSet(U(n + 1)) /\ Cardinality(U(n + 1)) = Ended(s, n + 1) + 1
      BY <1>2, <3>1
    <3>3. Ended(s, n + 1 + 1) = IF s[n + 1] = NL THEN Ended(s, n + 1) + 1 ELSE Ended(s, n + 1)
      BY <3>1, EndedMeans
    <3>4. U(n + 1 + 1) = IF s[n + 1] = NL THEN U(n + 1) \cup { n + 1 + 1 } ELSE U(n + 1)
      BY <1>0, <2>1 DEF Lines
    <3>5. n + 1 + 1 \notin U(n + 1)
      BY <1>0
    <3>6. Ended(s, n + 1) \in Nat
      BY <3>1, EndedMeans
    <3> HIDE DEF U
    <3>7. /\ IsFiniteSet(U(n + 1) \cup { n + 1 + 1 })
          /\ Cardinality(U(n + 1) \cup { n + 1 + 1 }) = Cardinality(U(n + 1)) + 1
      BY <3>2, <3>5, FS_AddElement
    <3> QED
      BY <3>2, <3>3, <3>4, <3>6, <3>7
  <2> HIDE DEF U
  <2> QED
    BY <2>1
<1>3. i - 1 \in Good /\ i - 1 + 1 = i
  <2>1. i - 1 \in Nat /\ i - 1 + 1 = i
    BY <1>0
  <2> HIDE DEF Good
  <2> QED
    BY <1>1, <1>2, <2>1, Induction
<1> QED
  BY <1>3

\* Each line but those behind the last has a beginning.
LEMMA LineBegins ==
    ASSUME NEW s \in Seq(Nat), NEW m \in Nat, m < Cardinality(Lines(s))
    PROVE  \E i \in Lines(s) : Ended(s, i) = m /\ \A j \in 1 .. Len(s) : Ended(s, j) < m <=> j < i
<1>0. Len(s) \in Nat
  BY LengthIsNat
<1>1. Len(s) # 0 /\ Cardinality(Lines(s)) = Ended(s, Len(s)) + 1
  <2>1. CASE Len(s) = 0
    <3>1. Lines(s) = {}
      BY <2>1 DEF Lines
    <3> QED
      BY <3>1, FS_EmptySet
  <2>2. CASE Len(s) # 0
    <3>1. Lines(s) = { j \in Lines(s) : j <= Len(s) }
      BY <1>0 DEF Lines
    <3>2. Len(s) \in 1 .. Len(s)
      BY <1>0, <2>2
    <3> QED
      BY <2>2, <3>1, <3>2, LinesUpTo
  <2> QED
    BY <2>1, <2>2
<1> DEFINE S == { i \in 1 .. Len(s) : ~(Ended(s, i) < m) }
<1>2. Ended(s, Len(s)) \in Nat /\ Len(s) \in S
  BY <1>0, <1>1, EndedMeans
<1>3. PICK i \in S : \A j \in S : i <= j
  <2>1. S \subseteq Nat /\ S # {}
    BY <1>0, <1>2
  <2> HIDE DEF S
  <2> QED
    BY <2>1, Least
<1>4. i \in 1 .. Len(s) /\ i \in Nat /\ Ended(s, i) \in Nat /\ ~(Ended(s, i) < m)
  BY <1>0, <1>3, EndedMeans
<1>5. i \in Lines(s) /\ Ended(s, i) = m
  <2>1. CASE i = 1
    BY <1>0, <1>4, <2>1, EndedMeans DEF Lines
  <2>2. CASE i # 1
    <3>1. i - 1 \in 1 .. Len(s) /\ i - 1 + 1 = i /\ i - 1 \in Nat \ {0}
      BY <1>0, <1>4, <2>2
    <3>2. Ended(s, i - 1) < m
      BY <1>3, <1>4, <3>1
    <3>3. Ended(s, i - 1) \in Nat
      BY <3>1, EndedMeans
    <3>4. Ended(s, i) = IF s[i - 1] = NL THEN Ended(s, i - 1) + 1 ELSE Ended(s, i - 1)
      BY <3>1, EndedMeans
    <3> QED
      BY <1>4, <3>2, <3>3, <3>4 DEF Lines
  <2> QED
    BY <2>1, <2>2
<1>6. ASSUME NEW j \in 1 .. Len(s) PROVE Ended(s, j) < m <=> j < i
  <2>1. CASE j < i
    BY <1>0, <1>3, <1>4, <2>1
  <2>2. CASE ~(j < i)
    <3>1. i <= j /\ i \in 1 .. Len(s) + 1 /\ j \in 1 .. Len(s) + 1 /\ j \in Nat \ {0}
      BY <1>0, <1>4, <2>2
    <3>2. Ended(s, i) <= Ended(s, j) /\ Ended(s, j) \in Nat
      BY <3>1, EndedMeans
    <3> QED
      BY <1>5, <2>2, <3>2
  <2> QED
    BY <2>1, <2>2
<1> QED
  BY <1>5, <1>6

\* What is kept are the lines, or the bytes, before the next one.
LEMMA KeptIsBefore ==
    ASSUME NEW s \in Seq(Nat), NEW m \in Nat, NEW inLines \in BOOLEAN
    PROVE  /\ Whole(s, inLines) \in Nat /\ Size(s, inLines) = Whole(s, inLines)
           /\ m <= Whole(s, inLines) => From(s, m + 1, inLines) = Kept(s, m, inLines) + 1
           /\ m >= Whole(s, inLines) => /\ Kept(s, m, inLines) = Len(s)
                                         /\ From(s, m + 1, inLines) \in Nat
                                         /\ From(s, m + 1, inLines) > Len(s)
<1>0. Len(s) \in Nat
  BY LengthIsNat
<1>1. CASE ~inLines
  BY <1>0, <1>1 DEF Whole, Size, From, Kept
<1>2. CASE inLines
  <2> DEFINE all == Cardinality(Lines(s))
             T == { i \in 1 .. Len(s) : Ended(s, i) < m }
  <2>1. Whole(s, inLines) = all /\ Size(s, inLines) = LineCount(s) /\ Kept(s, m, inLines) = Cardinality(T)
    BY <1>2 DEF Whole, Size, Kept
  <2>2. all \in Nat /\ LineCount(s) = all /\ (Len(s) # 0 => all = Ended(s, Len(s)) + 1)
    <3>1. CASE Len(s) = 0
      <4>1. Lines(s) = {} /\ s = << >>
        BY <3>1 DEF Lines
      <4>2. Len(s) + 1 = 1 /\ Ended(s, 1) = 0
        <5>1. Ended(s, 1) = 0
          BY EndedMeans
        <5> QED
          BY <3>1, <5>1
      <4>3. all = 0
        BY <4>1, FS_EmptySet
      <4>4. LineCount(s) = 0
        BY <4>1, <4>2 DEF LineCount
      <4> QED
        BY <3>1, <4>3, <4>4
    <3>2. CASE Len(s) # 0
      <4>1. Lines(s) = { j \in Lines(s) : j <= Len(s) } /\ Len(s) \in 1 .. Len(s)
        BY <1>0, <3>2 DEF Lines
      <4>2. all = Ended(s, Len(s)) + 1 /\ Ended(s, Len(s)) \in Nat
        BY <1>0, <4>1, LinesUpTo, EndedMeans
      <4>3. Ended(s, Len(s) + 1) = IF s[Len(s)] = NL THEN Ended(s, Len(s)) + 1 ELSE Ended(s, Len(s))
        BY <4>1, EndedMeans
      <4>4. s # << >> /\ Last(s) = s[Len(s)]
        BY <3>2 DEF Last
      <4> QED
        BY <4>2, <4>3, <4>4 DEF LineCount
    <3> QED
      BY <3>1, <3>2
  <2>3. CASE m < all
    <3>1. PICK i \in Lines(s) : Ended(s, i) = m /\ \A j \in 1 .. Len(s) : Ended(s, j) < m <=> j < i
      BY <2>3, LineBegins
    <3>2. i \in 1 .. Len(s) /\ i \in Nat
      BY <1>0, <3>1 DEF Lines
    <3>3. T = 1 .. i - 1
      BY <1>0, <3>1, <3>2
    <3>4. Cardinality(1 .. i - 1) = i - 1
      BY <3>2, InOneTo
    <3>5. ASSUME NEW k \in Lines(s), Cardinality({ j \in Lines(s) : j <= k }) = m + 1 PROVE k = i
      <4>1. k \in 1 .. Len(s) /\ k \in Nat \ {0} /\ k - 1 + 1 = k
        BY <1>0 DEF Lines
      <4>2. Ended(s, k) + 1 = m + 1 /\ Ended(s, k) \in Nat
        BY <3>5, <4>1, LinesUpTo, EndedMeans
      <4>3. ~(k < i)
        BY <3>1, <4>1, <4>2
      <4>4. CASE i < k
        <5>1. k - 1 \in 1 .. Len(s) /\ k - 1 \in Nat \ {0} /\ s[k - 1] = NL
          BY <1>0, <3>2, <4>1, <4>4 DEF Lines
        <5>2. Ended(s, k) = Ended(s, k - 1) + 1 /\ Ended(s, k - 1) \in Nat
          BY <4>1, <5>1, EndedMeans
        <5>3. Ended(s, k - 1) < m
          BY <4>2, <5>2
        <5> QED
          BY <3>1, <3>2, <4>1, <4>4, <5>1, <5>3
      <4> QED
        BY <3>2, <4>1, <4>3, <4>4
    <3>6. Cardinality({ j \in Lines(s) : j <= i }) = m + 1
      BY <3>1, <3>2, LinesUpTo
    <3>7. /\ From(s, m + 1, inLines) = CHOOSE k \in Lines(s) : Cardinality({ j \in Lines(s) : j <= k }) = m + 1
          /\ ~(m + 1 > all)
      <4>1. ~(m + 1 > all)
        BY <2>2, <2>3
      <4> QED
        BY <1>2, <4>1 DEF From
    <3>8. i = CHOOSE k \in Lines(s) : Cardinality({ j \in Lines(s) : j <= k }) = m + 1
      BY <3>1, <3>5, <3>6
    <3>9. From(s, m + 1, inLines) = i
      BY <3>7, <3>8
    <3> HIDE DEF all, T
    <3> QED
      BY <2>1, <2>2, <2>3, <3>2, <3>3, <3>4, <3>9
  <2>4. CASE m >= all
    <3>1. T = 1 .. Len(s)
      <4>1. ASSUME NEW i \in 1 .. Len(s) PROVE Ended(s, i) < m
        <5>1. i \in 1 .. Len(s) + 1 /\ Len(s) \in 1 .. Len(s) + 1 /\ i <= Len(s)
              /\ i \in Nat \ {0} /\ Len(s) \in Nat \ {0}
          BY <1>0
        <5>2. Ended(s, i) <= Ended(s, Len(s)) /\ Ended(s, i) \in Nat /\ Ended(s, Len(s)) \in Nat
          BY <5>1, EndedMeans
        <5> QED
          BY <2>2, <2>4, <5>1, <5>2
      <4> QED
        BY <4>1
    <3>2. Cardinality(1 .. Len(s)) = Len(s)
      BY <1>0, InOneTo
    <3>3. From(s, m + 1, inLines) = Len(s) + 1
      <4>1. m + 1 > all
        BY <2>2, <2>4
      <4> QED
        BY <1>2, <4>1 DEF From
    <3>4. m <= all => m = all
      BY <2>2, <2>4
    <3> HIDE DEF all, T
    <3> QED
      BY <1>0, <2>1, <2>2, <2>4, <3>1, <3>2, <3>3
  <2> QED
    BY <2>2, <2>3, <2>4
<1> QED
  BY <1>1, <1>2

LEMMA EmptyPart ==
    ASSUME NEW s \in Seq(Nat), NEW m \in Nat, NEW n \in Int, m > n
    PROVE  SubSeq(s, m, n) = << >>
OBVIOUS

\* head and tail print the range that they are asked for, where the numbers they are
\* given are no zeros, and but for a tail without its heading.
LEMMA HeadAndTailRight ==
    ASSUME NEW s \in Seq(Nat), NEW a \in AskTypes, a.op \in { "head", "tail" },
           ~HasZero(a), ~SkipsHeading(a)
    PROVE  ReadBytes(s, a) = RangeOf(s, a)
<1> DEFINE n == Number(a)
           inLines == InLines(a)
           all == Whole(s, inLines)
           skips == a.flag /\ (a.bytes > 0 \/ a.lines > 0)
           less == IF n < all THEN n ELSE all
           rest == IF n < all THEN all - n ELSE 0
           behind(k) == From(s, k + 1, inLines)
<1>0. n \in Nat /\ n >= 1 /\ inLines \in BOOLEAN /\ Len(s) \in Nat
  BY NumberIsNat, LengthIsNat
<1>1. all \in Nat /\ Size(s, inLines) = all
  BY <1>0, KeptIsBefore
<1>2. /\ Minus(Size(s, inLines), n) = rest /\ rest \in Nat /\ rest <= all /\ less \in Nat /\ less <= all
      /\ all - less = rest
  BY <1>0, <1>1 DEF Minus
<1>3. \A m \in Nat : m <= all => From(s, m + 1, inLines) = Kept(s, m, inLines) + 1
  BY <1>0, KeptIsBefore
<1>4. \A m \in Nat : m >= all => /\ Kept(s, m, inLines) = Len(s) /\ From(s, m + 1, inLines) \in Nat
                                 /\ From(s, m + 1, inLines) > Len(s)
  BY <1>0, KeptIsBefore
<1>5. \A m \in Nat : Kept(s, m, inLines) \in Nat
  BY <1>0, KeptBounds
<1>10. /\ Num(a) = n /\ (a.bytes < 0 <=> inLines) /\ (a.flag /\ Given(a) <=> skips)
       /\ ~(a.op = "tail" /\ skips)
  <2>1. /\ a.bytes \in Nat \cup { -1 } /\ a.lines \in Nat \cup { -1 }
        /\ a.bytes # 0 /\ a.lines # 0
    BY DEF AskTypes, HasZero
  <2>2. Num(a) = n
    BY <2>1 DEF Num, Number
  <2>3. (a.bytes < 0) = inLines
    BY <2>1 DEF InLines
  <2>4. Given(a) <=> (a.bytes > 0 \/ a.lines > 0)
    BY <2>1 DEF Given
  <2> QED
    BY <2>2, <2>3, <2>4, Zenon DEF SkipsHeading
<1>11. /\ a.op = "head" /\ ~skips => RangeOf(s, a) = SubSeq(s, 1, behind(less) - 1)
       /\ a.op = "head" /\ skips => RangeOf(s, a) = SubSeq(s, 1, behind(all - less) - 1)
       /\ a.op = "tail" /\ ~skips => RangeOf(s, a) = SubSeq(s, behind(all - less), Len(s))
  <2>1. (a.bytes < 0) = inLines
    BY <1>0, <1>10
  <2> QED
    BY <1>10, <2>1 DEF RangeOf
<1>6. CASE a.op = "head" /\ ~skips
  <2>1. ReadBytes(s, a) = SubSeq(s, 1, Kept(s, n, inLines))
    BY <1>6 DEF ReadBytes, HeadOf, First
  <2>2. RangeOf(s, a) = SubSeq(s, 1, From(s, less + 1, inLines) - 1)
    BY <1>6, <1>11
  <2>3. Kept(s, less, inLines) = Kept(s, n, inLines)
    BY <1>0, <1>1, <1>4
  <2>4. From(s, less + 1, inLines) = Kept(s, less, inLines) + 1 /\ Kept(s, less, inLines) \in Nat
    BY <1>2, <1>3, <1>5
  <2> HIDE DEF n, inLines, all, skips, less, rest, behind
  <2> QED
    BY <2>1, <2>2, <2>3, <2>4
<1>7. CASE a.op = "head" /\ skips
  <2>1. ReadBytes(s, a) = SubSeq(s, 1, Kept(s, rest, inLines))
    BY <1>2, <1>7 DEF ReadBytes, HeadOf, First
  <2>2. RangeOf(s, a) = SubSeq(s, 1, From(s, rest + 1, inLines) - 1)
    BY <1>2, <1>7, <1>11
  <2>4. From(s, rest + 1, inLines) = Kept(s, rest, inLines) + 1 /\ Kept(s, rest, inLines) \in Nat
    BY <1>2, <1>3, <1>5
  <2> HIDE DEF n, inLines, all, skips, less, rest, behind
  <2> QED
    BY <2>1, <2>2, <2>4
<1>8. CASE a.op = "tail" /\ ~skips
  <2>1. ReadBytes(s, a) = SubSeq(s, Kept(s, rest, inLines) + 1, Len(s))
    BY <1>2, <1>8 DEF ReadBytes, TailOf, Skip
  <2>2. RangeOf(s, a) = SubSeq(s, From(s, rest + 1, inLines), Len(s))
    BY <1>2, <1>8, <1>11
  <2>4. From(s, rest + 1, inLines) = Kept(s, rest, inLines) + 1
    BY <1>2, <1>3
  <2> HIDE DEF n, inLines, all, skips, less, rest, behind
  <2> QED
    BY <2>1, <2>2, <2>4
<1> QED
  BY <1>6, <1>7, <1>8, <1>10

LEMMA SliceMeans ==
    ASSUME NEW s \in Seq(Nat), NEW from \in Nat, NEW size \in Nat
    PROVE  /\ Slice(s, from, size) \in Seq(Nat)
           /\ Len(Slice(s, from, size)) = IF Len(s) <= from THEN 0
                                          ELSE IF Len(s) < from + size THEN Len(s) - from ELSE size
           /\ \A i \in 1 .. Len(Slice(s, from, size)) : Slice(s, from, size)[i] = s[from + i]
<1> DEFINE upto == IF Len(s) < from + size THEN Len(s) ELSE from + size
<1>1. Len(s) \in Nat /\ upto \in Nat /\ upto <= Len(s) /\ upto <= from + size
      /\ (upto = Len(s) \/ upto = from + size)
  BY LengthIsNat
<1>2. Slice(s, from, size) = SubSeq(s, from + 1, upto)
  BY DEF Slice
<1>3. Len(s) < from + size => upto = Len(s)
  OBVIOUS
<1>4. ~(Len(s) < from + size) => upto = from + size
  OBVIOUS
<1> HIDE DEF upto
<1>5. /\ SubSeq(s, from + 1, upto) \in Seq(Nat)
      /\ Len(SubSeq(s, from + 1, upto)) = IF from + 1 <= upto THEN upto - (from + 1) + 1 ELSE 0
      /\ \A i \in 1 .. upto - (from + 1) + 1 : SubSeq(s, from + 1, upto)[i] = s[from + 1 + i - 1]
  <2>1. from + 1 \in Int /\ upto \in Int /\ from + 1 >= 1 /\ upto <= Len(s)
    BY <1>1
  <2> QED
    BY <2>1, Part
<1>6. Len(Slice(s, from, size)) = IF Len(s) <= from THEN 0
                                  ELSE IF Len(s) < from + size THEN Len(s) - from ELSE size
  <2>1. CASE Len(s) < from + size
    <3>1. Len(SubSeq(s, from + 1, upto)) = IF from + 1 <= Len(s) THEN Len(s) - (from + 1) + 1 ELSE 0
      BY <1>3, <1>5, <2>1
    <3> QED
      BY <1>1, <1>2, <2>1, <3>1
  <2>2. CASE ~(Len(s) < from + size)
    <3>1. Len(SubSeq(s, from + 1, upto))
             = IF from + 1 <= from + size THEN from + size - (from + 1) + 1 ELSE 0
      BY <1>4, <1>5, <2>2
    <3> QED
      BY <1>1, <1>2, <2>2, <3>1
  <2> QED
    BY <2>1, <2>2
<1>7. ASSUME NEW i \in 1 .. Len(Slice(s, from, size)) PROVE Slice(s, from, size)[i] = s[from + i]
  <2>1. i \in 1 .. upto - (from + 1) + 1 /\ i \in Nat
    BY <1>1, <1>2, <1>5
  <2>2. from + 1 + i - 1 = from + i
    BY <2>1
  <2> QED
    BY <1>2, <1>5, <2>1, <2>2
<1> QED
  BY <1>2, <1>5, <1>6, <1>7

\* A slice of a slice is one of the whole, if it does not reach beyond the first.
LEMMA SliceOfSlice ==
    ASSUME NEW s \in Seq(Nat), NEW from \in Nat, NEW size \in Nat, NEW off \in Nat, NEW n \in Nat,
           off + n <= size
    PROVE  Slice(Slice(s, from, size), off, n) = Slice(s, from + off, n)
<1> DEFINE one == Slice(s, from, size)
           two == Slice(one, off, n)
           all == Slice(s, from + off, n)
<1>0. Len(s) \in Nat /\ from + off \in Nat
  BY LengthIsNat
<1>1. /\ one \in Seq(Nat)
      /\ Len(one) = IF Len(s) <= from THEN 0 ELSE IF Len(s) < from + size THEN Len(s) - from ELSE size
      /\ \A i \in 1 .. Len(one) : one[i] = s[from + i]
  BY SliceMeans
<1>2. /\ all \in Seq(Nat)
      /\ Len(all) = IF Len(s) <= from + off THEN 0
                    ELSE IF Len(s) < from + off + n THEN Len(s) - (from + off) ELSE n
      /\ \A i \in 1 .. Len(all) : all[i] = s[from + off + i]
  BY <1>0, SliceMeans
<1> HIDE DEF one, all
<1>3. /\ two \in Seq(Nat)
      /\ Len(two) = IF Len(one) <= off THEN 0 ELSE IF Len(one) < off + n THEN Len(one) - off ELSE n
      /\ \A i \in 1 .. Len(two) : two[i] = one[off + i]
  BY <1>1, SliceMeans
<1> HIDE DEF two
<1>4. Len(one) \in Nat
  BY <1>1, LengthIsNat
<1>5. Len(two) = Len(all)
  <2>1. CASE Len(s) <= from
    <3>1. Len(one) = 0 /\ Len(s) <= from + off
      BY <1>0, <1>1, <2>1
    <3> QED
      BY <1>2, <1>3, <3>1
  <2>2. CASE ~(Len(s) <= from) /\ Len(s) < from + size
    <3>1. Len(one) = Len(s) - from
      BY <1>1, <2>2
    <3>2. Len(one) <= off <=> Len(s) <= from + off
      BY <1>0, <3>1
    <3>3. Len(one) < off + n <=> Len(s) < from + off + n
      BY <1>0, <3>1
    <3>4. Len(one) - off = Len(s) - (from + off)
      BY <1>0, <3>1
    <3>5. CASE Len(s) <= from + off
      BY <1>2, <1>3, <3>2, <3>5
    <3>6. CASE ~(Len(s) <= from + off) /\ Len(s) < from + off + n
      <4>1. Len(two) = Len(one) - off
        BY <1>3, <3>2, <3>3, <3>6
      <4>2. Len(all) = Len(s) - (from + off)
        BY <1>2, <3>6
      <4> QED
        BY <3>4, <4>1, <4>2
    <3>7. CASE ~(Len(s) <= from + off) /\ ~(Len(s) < from + off + n)
      <4>1. Len(two) = n
        BY <1>3, <3>2, <3>3, <3>7
      <4>2. Len(all) = n
        BY <1>2, <3>7
      <4> QED
        BY <4>1, <4>2
    <3> QED
      BY <3>5, <3>6, <3>7
  <2>3. CASE ~(Len(s) <= from) /\ ~(Len(s) < from + size)
    <3>1. Len(one) = size /\ ~(Len(one) < off + n) /\ ~(Len(s) < from + off + n)
      BY <1>0, <1>1, <2>3
    <3>2. Len(two) = n
      BY <1>3, <1>4, <3>1
    <3>3. Len(all) = n
      BY <1>0, <1>2, <3>1
    <3> QED
      BY <3>2, <3>3
  <2> QED
    BY <2>1, <2>2, <2>3
<1>6. ASSUME NEW i \in 1 .. Len(two) PROVE two[i] = all[i]
  <2>1. i \in Nat /\ i >= 1 /\ Len(two) \in Nat /\ i <= Len(two)
    BY <1>3, LengthIsNat
  <2>2. off + i \in 1 .. Len(one)
    BY <1>3, <1>4, <2>1
  <2>3. two[i] = s[from + (off + i)]
    BY <1>1, <1>3, <2>2
  <2>4. all[i] = s[from + off + i]
    BY <1>2, <1>5
  <2>5. from + (off + i) = from + off + i
    BY <2>1
  <2> QED
    BY <2>3, <2>4, <2>5
<1>7. two = all
  BY <1>2, <1>3, <1>5, <1>6, SeqEqual
<1> QED
  BY <1>7 DEF one, two, all

\* The chunk cut out of two blocks is the range that view is asked for: dd begins at
\* the last block that does not begin behind it, and a chunk is no longer than a block.
LEMMA ChunkRight ==
    ASSUME NEW s \in Seq(Nat), NEW a \in AskTypes, a.op = "view", Within(a)
    PROVE  Chunk(TwoBlocks(s, a), a) = RangeOf(s, a)
<1>1. a.offset \in Nat /\ a.bytes \in Nat \ {0}
  BY DEF Within, ViewRefused, AskTypes
<1> DEFINE q == (a.offset \div a.bytes) * a.bytes
           r == a.offset % a.bytes
<1>2. q \in Nat /\ r \in 0 .. a.bytes - 1 /\ a.offset = q + r
  <2>1. \A m \in Nat, n \in Nat \ {0} : (m \div n) * n \in Nat /\ m % n \in 0 .. n - 1 /\ m = (m \div n) * n + (m % n)
    BY BlockStart
  <2> QED
    BY <1>1, <2>1
<1>3. TwoBlocks(s, a) = Slice(s, q, 2 * a.bytes)
  BY DEF TwoBlocks
<1>4. Chunk(TwoBlocks(s, a), a) = Slice(Slice(s, q, 2 * a.bytes), r, a.bytes)
  BY <1>3 DEF Chunk
<1> HIDE DEF q, r
<1>5. r \in Nat /\ 2 * a.bytes \in Nat /\ a.bytes \in Nat /\ r + a.bytes <= 2 * a.bytes
  BY <1>1, <1>2
<1>6. Slice(Slice(s, q, 2 * a.bytes), r, a.bytes) = Slice(s, q + r, a.bytes)
  <2>0. PICK size, n \in Nat : size = 2 * a.bytes /\ n = a.bytes /\ r + n <= size
    BY <1>5
  <2> DEFINE Fits(f, z, o, m) == Slice(Slice(s, f, z), o, m) = Slice(s, f + o, m)
  <2>1. \A f, z, o, m \in Nat : o + m <= z => Fits(f, z, o, m)
    BY SliceOfSlice, Zenon
  <2>2. q \in Nat /\ r \in Nat
    BY <1>2, <1>5
  <2> HIDE DEF Fits
  <2>3. Fits(q, size, r, n)
    BY <2>0, <2>1, <2>2
  <2> QED
    BY <2>0, <2>3 DEF Fits
<1>7. Len(s) \in Nat
  BY LengthIsNat
<1>8. Slice(s, a.offset, a.bytes) = RangeOf(s, a)
  <2>1. RangeOf(s, a) = SubSeq(s, a.offset + 1, IF a.offset + a.bytes < Len(s) THEN a.offset + a.bytes ELSE Len(s))
    BY Zenon DEF RangeOf
  <2>2. (IF a.offset + a.bytes < Len(s) THEN a.offset + a.bytes ELSE Len(s))
         = (IF Len(s) < a.offset + a.bytes THEN Len(s) ELSE a.offset + a.bytes)
    BY <1>1, <1>7
  <2> QED
    BY <2>1, <2>2 DEF Slice
<1> QED
  BY <1>2, <1>4, <1>6, <1>8

\* A text of characters of one byte is what it is decoded from.
LEMMA DecodeNarrow ==
    ASSUME NEW s \in Seq(Nat), \A i \in 1 .. Len(s) : s[i] \notin { Wide, Rest }
    PROVE  Decode(s) = s
<1> DEFINE whole(i) == i < Len(s) /\ s[i] = Wide /\ s[i + 1] = Rest
           starts == { i \in 1 .. Len(s) : i = 1 \/ ~whole(i - 1) }
           char(i) == IF whole(i) THEN 89 ELSE IF s[i] \in { Wide, Rest } THEN 99 ELSE s[i]
           nth(k) == CHOOSE i \in starts : Cardinality({ j \in starts : j <= i }) = k
<1>0. Len(s) \in Nat /\ DOMAIN s = 1 .. Len(s) /\ s \in [1 .. Len(s) -> Nat]
  BY LenProperties
<1>1. Decode(s) = [k \in 1 .. Cardinality(starts) |-> char(nth(k))]
  BY DEF Decode
<1>2. \A i \in 1 .. Len(s) : ~whole(i)
  BY DEF Wide
<1>3. starts = 1 .. Len(s)
  <2>1. \A i \in 1 .. Len(s) : i = 1 \/ i - 1 \in 1 .. Len(s)
    BY <1>0
  <2> QED
    BY <1>2, <2>1
<1>4. \A i \in 1 .. Len(s) : char(i) = s[i]
  BY <1>2
<1> HIDE DEF whole, char, starts
<1>5. ASSUME NEW k \in 1 .. Len(s) PROVE nth(k) = k
  <2>1. \A i \in 1 .. Len(s) : { j \in starts : j <= i } = 1 .. i
    BY <1>0, <1>3
  <2>2. \A i \in 1 .. Len(s) : i \in Nat /\ Cardinality(1 .. i) = i
    BY <1>0, InOneTo
  <2>3. \A i \in 1 .. Len(s) : Cardinality({ j \in starts : j <= i }) = i
    BY <2>1, <2>2
  <2> QED
    BY <1>3, <2>3
<1> HIDE DEF nth
<1>6. Cardinality(starts) = Len(s)
  BY <1>0, <1>3, InOneTo
<1>7. Decode(s) = [k \in 1 .. Len(s) |-> s[k]]
  BY <1>1, <1>4, <1>5, <1>6
<1> QED
  BY <1>0, <1>7

Readers == { "head", "tail", "view" }

LEMMA NarrowPart ==
    ASSUME NEW s \in Seq(Nat), Narrow(s), NEW m \in Int, NEW n \in Int, m >= 1, n <= Len(s)
    PROVE  \A i \in 1 .. Len(SubSeq(s, m, n)) : SubSeq(s, m, n)[i] \notin { Wide, Rest }
<1>1. Len(s) \in Nat /\ DOMAIN s = 1 .. Len(s)
  BY LenProperties
<1>2. /\ Len(SubSeq(s, m, n)) = IF m <= n THEN n - m + 1 ELSE 0
      /\ \A i \in 1 .. n - m + 1 : SubSeq(s, m, n)[i] = s[m + i - 1]
  BY Part
<1>3. ASSUME NEW i \in 1 .. Len(SubSeq(s, m, n)) PROVE SubSeq(s, m, n)[i] \notin { Wide, Rest }
  <2>1. i \in 1 .. n - m + 1
    BY <1>2
  <2>2. m + i - 1 \in 1 .. Len(s)
    BY <1>1, <2>1
  <2> QED
    BY <1>1, <1>2, <2>1, <2>2 DEF Narrow
<1> QED
  BY <1>3

LEMMA NarrowReading ==
    ASSUME NEW s \in Seq(Nat), Narrow(s), NEW a \in AskTypes, a.op \in Readers, Within(a)
    PROVE  Decode(ReadBytes(s, a)) = ReadBytes(s, a)
<1>0. Len(s) \in Nat /\ ReadBytes(s, a) \in Seq(Nat)
  BY LengthIsNat, ReadBytesTyped
<1>1. \E m, n \in Int : m >= 1 /\ n <= Len(s) /\ ReadBytes(s, a) = SubSeq(s, m, n)
  <2>1. Number(a) \in Nat /\ Number(a) - 1 \in Nat /\ InLines(a) \in BOOLEAN
    BY NumberIsNat
  <2>2. Minus(Size(s, InLines(a)), Number(a)) \in Nat
    BY <2>1, SizeIsNat DEF Minus
  <2>3. \A k \in Nat : Kept(s, k, InLines(a)) \in 0 .. Len(s)
    BY <2>1, KeptBounds
  <2>4. ASSUME NEW k \in Nat
        PROVE  /\ \E m, n \in Int : m >= 1 /\ n <= Len(s) /\ First(s, k, InLines(a)) = SubSeq(s, m, n)
               /\ \E m, n \in Int : m >= 1 /\ n <= Len(s) /\ Skip(s, k, InLines(a)) = SubSeq(s, m, n)
    <3>1. PICK l \in 0 .. Len(s) : l = Kept(s, k, InLines(a))
      BY <2>3
    <3>2. l \in Int /\ l <= Len(s) /\ l + 1 \in Int /\ l + 1 >= 1 /\ First(s, k, InLines(a)) = SubSeq(s, 1, l)
          /\ Skip(s, k, InLines(a)) = SubSeq(s, l + 1, Len(s))
      BY <1>0, <3>1 DEF First, Skip
    <3>3. \E m, n \in Int : m >= 1 /\ n <= Len(s) /\ First(s, k, InLines(a)) = SubSeq(s, m, n)
      <4> WITNESS 1 \in Int, l \in Int
      <4> QED
        BY <3>2
    <3>4. \E m, n \in Int : m >= 1 /\ n <= Len(s) /\ Skip(s, k, InLines(a)) = SubSeq(s, m, n)
      <4>1. Len(s) \in Int /\ Len(s) <= Len(s)
        BY <1>0
      <4> WITNESS l + 1 \in Int, Len(s) \in Int
      <4> QED
        BY <3>2, <4>1
    <3> QED
      BY <3>3, <3>4
  <2>5. CASE a.op = "head"
    <3>1. \E k \in Nat : ReadBytes(s, a) = First(s, k, InLines(a))
      BY <2>1, <2>2, <2>5 DEF ReadBytes, HeadOf
    <3> QED
      BY <2>4, <3>1
  <2>6. CASE a.op = "tail"
    <3>1. \E k \in Nat : ReadBytes(s, a) = Skip(s, k, InLines(a))
      BY <2>1, <2>2, <2>6 DEF ReadBytes, TailOf
    <3> QED
      BY <2>4, <3>1
  <2>7. CASE a.op = "view"
    <3>1. a.offset \in Nat /\ a.bytes \in Nat \ {0}
      BY <2>7 DEF Within, ViewRefused, AskTypes
    <3>2. \A m \in Nat, n \in Nat \ {0} : (m \div n) * n \in Nat
      BY BlockStart
    <3>3. PICK from \in Nat : from = (a.offset \div a.bytes) * a.bytes
      BY <3>1, <3>2
    <3>4. PICK size \in Nat : size = 2 * a.bytes
      BY <3>1
    <3>5. ReadBytes(s, a) = Slice(s, from, size)
      BY <2>7, <3>3, <3>4 DEF ReadBytes, TwoBlocks
    <3>6. PICK n \in Int : n = IF Len(s) < from + size THEN Len(s) ELSE from + size
      BY <1>0
    <3>7. n <= Len(s) /\ from + 1 \in Int /\ from + 1 >= 1 /\ ReadBytes(s, a) = SubSeq(s, from + 1, n)
      BY <1>0, <3>5, <3>6 DEF Slice
    <3> QED
      BY <3>7
  <2> QED
    BY <2>5, <2>6, <2>7 DEF Readers
<1>2. \A i \in 1 .. Len(ReadBytes(s, a)) : ReadBytes(s, a)[i] \notin { Wide, Rest }
  BY <1>1, NarrowPart
<1> QED
  BY <1>0, <1>2, DecodeNarrow

\* What an answer says of a text that was read.
LEMMA ReadingIsAnswered ==
    ASSUME NEW s \in Seq(Nat), Narrow(s), NEW a \in AskTypes, a.op \in Readers, Within(a),
           ~HasZero(a), ~SkipsHeading(a), NEW out, out.bytes = ReadBytes(s, a)
    PROVE  Success(a, out).bytes = RangeOf(s, a)
<1>0. { "head", "tail", "view", "download", "upload" }
        \cap (DOMAIN InspectOps \cup DOMAIN AttributeOps \cup DOMAIN TreeOps \cup DOMAIN ArchiveOps) = {}
  BY DEF InspectOps, AttributeOps, TreeOps, ArchiveOps
<1>1. Decode(out.bytes) = ReadBytes(s, a)
  BY NarrowReading
<1>2. CASE a.op = "head"
  <2>1. Success(a, out) = HeadAnswer(a, out.bytes)
    BY <1>0, <1>2, Zenon DEF Success
  <2> QED
    BY <1>1, <1>2, <2>1, HeadAndTailRight DEF HeadAnswer
<1>3. CASE a.op = "tail"
  <2>1. Success(a, out) = TailAnswer(a, out.bytes)
    BY <1>0, <1>3, Zenon DEF Success
  <2> QED
    BY <1>1, <1>3, <2>1, HeadAndTailRight DEF TailAnswer
<1>4. CASE a.op = "view"
  <2>1. Success(a, out) = ViewAnswer(a, out.bytes)
    BY <1>0, <1>4, Zenon DEF Success
  <2>2. ReadBytes(s, a) = TwoBlocks(s, a)
    BY <1>4, Zenon DEF ReadBytes
  <2>3. ViewAnswer(a, out.bytes).bytes = Chunk(Decode(out.bytes), a)
    BY DEF ViewAnswer, Coded, NoAnswer
  <2> QED
    BY <1>1, <1>4, <2>1, <2>2, <2>3, ChunkRight
<1> QED
  BY <1>2, <1>3, <1>4 DEF Readers

LEMMA BeginReads ==
    ASSUME NEW t, NEW a, a.op \in Readers, NEW me, NEW r, r = Begin(t, a, me)
    PROVE  /\ r.tree = t /\ r.left = {}
           /\ r.errs = {} => r.out.bytes = ReadBytes(t[Real(t, a.path)].data, a)
<1> DEFINE text == ReadBytes(t[Real(t, a.path)].data, a)
<1>1. r = Read(t, a)
  <2>1. a.op \notin { "chmod", "chown", "mkdir", "symlink", "rm", "upload", "wormhole receive", "compress",
                      "extract", "mv", "cp", "receive", "send", "file", "stat", "ls" }
    BY DEF Readers
  <2> QED
    BY <2>1, Zenon DEF Begin
<1>2. Read(t, a) = IF Readable(t, a.path) = {} THEN Shows(t, {}, text, {})
                   ELSE Fails(t, Readable(t, a.path))
  BY DEF Read, Unless
<1> HIDE DEF text
<1>3. \A errs : Fails(t, errs).tree = t /\ Fails(t, errs).left = {} /\ Fails(t, errs).errs = errs
  BY DEF Fails, Did
<1>4. /\ Shows(t, {}, text, {}).tree = t /\ Shows(t, {}, text, {}).left = {}
      /\ Shows(t, {}, text, {}).out.bytes = text
  BY DEF Shows, Fails, Did
<1>5. CASE Readable(t, a.path) = {}
  BY <1>1, <1>2, <1>4, <1>5 DEF text
<1>6. CASE Readable(t, a.path) # {}
  BY <1>1, <1>2, <1>3, <1>6
<1> QED
  BY <1>5, <1>6

\* A process that has read has nothing left to do, and has read what is still there,
\* unless another actor changed the tree.
Saw(b) ==
    LET p == proc[b] IN
    p.ask.op \in Readers /\ p.state \in { "going", "over" } =>
       /\ p.left = {}
       /\ p.errs = {} /\ ~marks[b].disturbed
            => p.out.bytes = ReadBytes(tree[Real(tree, p.ask.path)].data, p.ask)

LEMMA RunsSee ==
    ASSUME TypeInv, ControlInv, MarksInv, NEW me \in Actors, Runs(me), Saw(me)
    PROVE  Saw(me)'
<1>1. PICK r, p :
             /\ GoodTree(r) /\ GoodProc(p) /\ p.ask = proc[me].ask /\ Moves(me, r, p)
             /\ \/ /\ proc[me].state = "ready"
                   /\ r = Begin(tree, proc[me].ask, me).tree
                   /\ p = Begun(me, Begin(tree, proc[me].ask, me))
                \/ \E q \in proc[me].left :
                     /\ proc[me].state = "going" /\ CanGoOn(proc[me]) /\ GoodProc(proc[me])
                     /\ q \in NextEntries(proc[me])
                     /\ r = Continue(tree, proc[me], q, me).tree
                     /\ p = Continue(tree, proc[me], q, me).proc
                     /\ GoodStep(Continue(tree, proc[me], q, me), proc[me])
  BY RunIsStep
<1> DEFINE a == proc[me].ask
<1>2. proc'[me].ask = a
  BY RunsKeep
<1>3. CASE a.op \in Readers
  <2>1. proc[me].state = "ready" /\ r = Begin(tree, a, me).tree /\ p = Begun(me, Begin(tree, a, me))
    BY <1>1, <1>3 DEF Saw
  <2>2. PICK d : d = Begin(tree, a, me)
    OBVIOUS
  <2>3. GoodProc(proc[me])
    BY <2>1 DEF TypeInv, GoodActor
  <2>4. p.left = d.left /\ p.errs = d.errs /\ p.out = d.out /\ r = d.tree
    BY <2>1, <2>2, <2>3 DEF Begun, GoodProc, Fields
  <2>5. /\ r = tree /\ p.left = {}
        /\ p.errs = {} => p.out.bytes = ReadBytes(tree[Real(tree, a.path)].data, a)
    <3>1. /\ d.tree = tree /\ d.left = {}
          /\ d.errs = {} => d.out.bytes = ReadBytes(tree[Real(tree, a.path)].data, a)
      BY <1>3, <2>2, BeginReads
    <3> QED
      BY <2>4, <3>1
  <2>6. tree' = tree
    <3>1. Closed(r, p) = r
      BY <1>1, <1>3, ClosedOther DEF Readers
    <3> QED
      BY <1>1, <2>5, <3>1, MovesOn
  <2>7. marks'[me] = marks[me]
    BY <1>1, <2>6, MovesMark
  <2>8. proc'[me].left = p.left /\ proc'[me].errs = p.errs /\ proc'[me].out = p.out
    BY <1>1 DEF Moves, TypeInv, GoodProc, Fields
  <2> QED
    BY <1>2, <2>5, <2>6, <2>8 DEF Saw
<1>4. CASE a.op \notin Readers
  BY <1>2, <1>4 DEF Saw
<1> QED
  BY <1>3, <1>4

LEMMA SawStep ==
    ASSUME TypeInv, ControlInv, MarksInv, [Next]_vars, NEW b \in Actors, Saw(b)
    PROVE  Saw(b)'
<1>1. CASE Runs(b)
  BY <1>1, RunsSee
<1>2. ASSUME NEW me \in Actors, Runs(me), me # b PROVE Saw(b)'
  <2>1. PICK r, p : Moves(me, r, p)
    BY <1>2, RunIsStep
  <2>2. proc'[b] = proc[b]
    BY <1>2, RunsKeep
  <2>3. /\ tree' = tree => marks'[b] = marks[b]
        /\ tree' # tree =>
             (marks'[b].disturbed <=> marks[b].disturbed \/ proc[b].state \notin { "none", "ready" })
    BY <1>2, <2>1, MovesMark
  <2>4. CASE tree' = tree
    BY <2>2, <2>3, <2>4 DEF Saw
  <2>5. CASE tree' # tree
    BY <2>2, <2>3, <2>5 DEF Saw
  <2> QED
    BY <2>4, <2>5
<1>3. CASE ~ \E me \in Actors : Runs(me)
  <2>1. UNCHANGED << tree, marks >>
    BY <1>3, OnlyRunsChange
  <2>2. CASE proc'[b] = proc[b]
    BY <2>1, <2>2 DEF Saw
  <2>3. CASE proc'[b].state \in { "none", "ready", "dead" }
    BY <2>3 DEF Saw
  <2>4. CASE WriteStops(b)
    BY <2>4 DEF Saw, WriteStops, Readers
  <2> QED
    BY <1>3, <2>2, <2>3, <2>4, ActorSteps
<1> QED
  BY <1>1, <1>2, <1>3

\* A 200 is what is made of a process that is over, without messages.
Earned(r) ==
    answer[r].code = 200 =>
        /\ proc[r].state = "over" /\ proc[r].errs = {}
        /\ answer[r] = Success(proc[r].ask, proc[r].out)

LEMMA EarnedStep ==
    ASSUME TypeInv, ControlInv, [Next]_vars, NEW r \in Requests, Earned(r)
    PROVE  Earned(r)'
<1>0. r \in Actors
  BY Partition
<1>1. CASE answer'[r] = answer[r]
  <2>1. CASE answer[r].code # 200
    BY <1>1, <2>1 DEF Earned
  <2>2. CASE answer[r].code = 200
    <3>1. proc[r].state = "over"
      BY <2>2 DEF Earned
    <3>2. ~Runs(r)
      BY <1>0, <3>1, RunsKeep
    <3>3. proc'[r] = proc[r]
      BY <1>0, <3>1, <3>2, ActorSteps DEF WriteStops
    <3> QED
      BY <1>1, <3>3 DEF Earned
  <2> QED
    BY <2>1, <2>2
<1>2. ASSUME NEW code, answer'[r] = Coded(code), code # 200 PROVE Earned(r)'
  BY <1>2 DEF Earned, Coded, NoAnswer
<1>3. CASE /\ proc'[r] = proc[r] /\ proc[r].state = "over" /\ proc[r].errs = {}
           /\ answer'[r] = Success(proc[r].ask, proc[r].out)
  BY <1>3 DEF Earned
<1>4. Waiting # 200
  BY DEF Waiting
<1> QED
  BY <1>1, <1>2, <1>3, <1>4, RequestSteps

\* head, tail and view answer with the range of the file that the documentation of
\* get_head, get_tail and get_view (router.py) promises, at every size, offset and end
\* of the file, unless another actor changed the tree or the text has characters of
\* several bytes. It is not so where a number is 0, or for a tail without its heading.
THEOREM RangesAreRight == Spec => []RangesRight
<1> DEFINE Seen == MarksInv /\ \A r \in Requests : Saw(r) /\ Earned(r)
<1>1. Init => TypeInv /\ ControlInv /\ Seen
  <2> SUFFICES ASSUME Init PROVE Seen
    BY InitTyped
  <2>1. MarksInv
    BY DEF Init, FilesInit, MarksInv
  <2>2. ASSUME NEW r \in Requests PROVE Saw(r) /\ Earned(r)
    <3>1. r \in Actors /\ proc[r].state = "none"
      BY Partition DEF Init, FilesInit, Idle
    <3>2. ControlInv
      BY InitTyped
    <3>3. answer[r].code # 200
      BY <3>1, <3>2 DEF ControlInv, RequestInv, None
    <3> QED
      BY <3>1, <3>3 DEF Saw, Earned
  <2> QED
    BY <2>1, <2>2
<1>2. TypeInv /\ ControlInv /\ Seen /\ [Next]_vars => (TypeInv /\ ControlInv /\ Seen)'
  BY TypedStep, MarksStep, SawStep, EarnedStep, Partition
<1>3. TypeInv /\ ControlInv /\ Seen => RangesRight
  <2> SUFFICES ASSUME TypeInv, ControlInv, Seen, NEW r \in Requests,
                      answer[r].code = 200, Ask(r).op \in Readers, ~marks[r].disturbed, Narrow(Text(r)),
                      ~HasZero(Ask(r)), ~SkipsHeading(Ask(r))
               PROVE  answer[r].bytes = RangeOf(Text(r), Ask(r))
    BY DEF RangesRight, Shown, Readers
  <2> DEFINE s == Text(r)
  <2>1. /\ proc[r].state = "over" /\ proc[r].errs = {}
        /\ answer[r] = Success(Ask(r), proc[r].out)
    BY DEF Earned, Ask
  <2>2. proc[r].out.bytes = ReadBytes(s, Ask(r))
    BY <2>1 DEF Saw, Ask, Text
  <2>3. Ask(r) \in AskTypes /\ Within(Ask(r))
    BY <2>1, Partition DEF TypeInv, GoodActor, GoodProc, Ask
  <2>4. s \in Seq(Nat)
    <3>1. Ask(r).path \in Paths /\ GoodTree(tree)
      BY <2>3 DEF AskTypes, TypeInv
    <3>2. Real(tree, Ask(r).path) \in Paths
      BY <3>1, RealPath
    <3> QED
      BY <3>1, <3>2 DEF GoodTree, GoodNode, Text
  <2> QED
    BY <2>1, <2>2, <2>3, <2>4, ReadingIsAnswered
<1> QED
  BY <1>1, <1>2, <1>3, PTL DEF Spec

\* What each command has done when nothing failed so far: what makes its effect
\* complete as soon as nothing is left.
HasSet(t, p) ==
    /\ p.left = { p.ask.path } \/ Find(t, p.ask.path) = {}
    /\ Find(t, p.ask.path) = {} =>
          Reach(t, p.ask.path) = {} /\ t[Real(t, p.ask.path)].open = (p.ask.word = "rw")

HasMade(t, p) == Dir(t, p.ask.path)

HasLinked(t, p) ==
    \E q \in Paths : /\ q \in { p.ask.to, Append(Real(t, p.ask.to), Last(p.ask.path)) }
                     /\ t[q].kind = "link"
                     /\ t[q].to = p.ask.path

HasRemoved(t, p) == Under(t, p.ask.path) \subseteq p.left

HasWritten(t, p) ==
    LET x == Real(t, p.ask.path)
    IN  /\ x \in At(t, p.fd) /\ Way(t, p.ask.path) = {}
        /\ t[x].data = SubSeq(p.ask.data, 1, p.at)
        /\ p.left = {} => p.at = Len(p.ask.data)

Source(t, p, q) == IF p.ask.flag THEN Real(t, q) ELSE q

HasPacked(t, p) ==
    LET x == Real(t, p.ask.to)
        packed == (Under(t, p.ask.path) \ { x }) \ p.left
    IN  /\ x \in At(t, p.fd) /\ t[x].kind = "cut"
        /\ p.ask.word = "" =>
             /\ p.dest = Front(p.ask.path) /\ p.left \subseteq Under(t, p.ask.path)
             /\ t[x].holds = { Member(t, p, q) : q \in packed }
             /\ \A q \in packed : Source(t, p, q) \notin At(t, p.fd)

HasUnpacked(t, p) ==
    LET at(m) == p.ask.to \o m.name
        archive == { p.ask.path, Real(t, p.ask.path) }
    IN  /\ p.dest = p.ask.to /\ Way(t, p.ask.path) = {}
        /\ archive \cap { at(m) : m \in p.cargo } = {} => t[Real(t, p.ask.path)].holds = p.cargo
        /\ (\A m, n \in p.cargo : m.name = n.name => m = n)
             => \A m \in p.cargo : at(m) \in p.left \/ (at(m) \in Paths /\ Same(m, t[at(m)]))

-----------------------------------------------------------------------------

Quiet(errs) == errs = {}

LEMMA ListedMeans ==
    ASSUME NEW t, NEW errs, NEW changed, NEW path, NEW r, r = AndList(t, errs, changed, path), Quiet(r.errs)
    PROVE  Quiet(errs) /\ r.tree = changed /\ r.left = { path }
<1>1. CASE errs = {}
  <2>1. r = Did(changed, { path }, {})
    BY <1>1 DEF AndList
  <2> QED
    BY <1>1, <2>1 DEF Did, Quiet
<1>2. CASE errs # {}
  <2>1. r = Fails(t, errs)
    BY <1>2 DEF AndList
  <2> QED
    BY <1>2, <2>1 DEF Did, Quiet, Fails
<1> QED
  BY <1>1, <1>2

LEMMA UnlessMeans ==
    ASSUME NEW t, NEW errs, NEW did, NEW r, r = Unless(t, errs, did), Quiet(r.errs)
    PROVE  Quiet(errs) /\ r = did
<1>1. CASE errs = {}
  BY <1>1 DEF Unless, Quiet
<1>2. CASE errs # {}
  <2>1. r = Fails(t, errs)
    BY <1>2 DEF Unless
  <2> QED
    BY <1>2, <2>1 DEF Did, Quiet, Fails
<1> QED
  BY <1>1, <1>2

LEMMA ReachMeans ==
    ASSUME NEW t, NEW p \in Path
    PROVE  Reach(t, p) = {} <=>
              Find(t, p) = {} /\ Find(t, Real(t, p)) = {}
                /\ (Real(t, p) = Root \/ t[Real(t, p)].kind # "link")
<1> DEFINE x == Real(t, p)
<1>1. Reach(t, p) = OrElse(Find(t, p), OrElse(Find(t, x), When(x # Root /\ t[x].kind = "link", Loop)))
  BY DEF Reach
<1>2. (x # Root /\ t[x].kind = "link") \in BOOLEAN
  OBVIOUS
<1>3. PICK wrong \in BOOLEAN : wrong = (x # Root /\ t[x].kind = "link")
  OBVIOUS
<1> HIDE DEF x
<1>4. When(wrong, Loop) = {} <=> ~wrong
  BY NoErrors
<1>5. Reach(t, p) = {} <=> Find(t, p) = {} /\ Find(t, x) = {} /\ ~wrong
  BY <1>1, <1>3, <1>4, NoErrors
<1> QED
  BY <1>3, <1>5 DEF x

\* A path that can be looked up still can, when the directories above it are as they were.
LEMMA WayStays ==
    ASSUME NEW t, NEW p \in Paths, Way(t, p) = {}, NEW u,
           \A q \in Above(p) : t[q].kind = "dir" /\ t[q].open => u[q].kind = "dir" /\ u[q].open
    PROVE  Way(u, p) = {}
<1>1. p \in Path /\ p # Root
  BY PathsArePaths
<1>2. \A q \in Above(p) : t[q].kind = "dir" /\ t[q].open
  BY ReachedIsIn
<1>3. \A q \in Prefixes(p) \ { p } : Passable(u, q)
  BY <1>2 DEF Above, Passable
<1> QED
  BY <1>1, <1>3, WayMeans

\* Where a path leads: the target of a link that is at it.
LEMMA RealMeans ==
    ASSUME NEW t, NEW p \in Paths, Way(t, p) = {}
    PROVE  Real(t, p) = IF t[p].kind = "link" THEN t[p].to ELSE p
BY DEF Real

LEMMA BeginSets ==
    ASSUME NEW t, GoodTree(t), NEW a \in AskTypes, a.op = "chmod", NEW me,
           Quiet(Begin(t, a, me).errs)
    PROVE  \A p : p.ask = a /\ p.left = Begin(t, a, me).left => HasSet(Begin(t, a, me).tree, p)
<1> DEFINE x == Real(t, a.path)
           u == [t EXCEPT ![x].open = (a.word = "rw")]
<1>0. a.path \in Paths /\ a.path \in Path /\ a.path # Root
  BY PathsArePaths DEF AskTypes
<1>1. Begin(t, a, me) = AndList(t, Reach(t, a.path), u, a.path)
  BY Zenon DEF Begin, Chmod
<1>2. x \in Paths /\ x \in Path /\ x # Root
  BY <1>0, RealPath, PathsArePaths
<1>3. /\ \A q \in Paths : u[q].kind = t[q].kind /\ u[q].to = t[q].to /\ (q # x => u[q].open = t[q].open)
      /\ u[x].open = (a.word = "rw")
  BY <1>2 DEF GoodTree, GoodNode, NodeFields
<1> HIDE DEF u
<1>4. Reach(t, a.path) = {} /\ Begin(t, a, me).tree = u /\ Begin(t, a, me).left = { a.path }
  <2>1. Quiet(Reach(t, a.path)) /\ Begin(t, a, me).tree = u /\ Begin(t, a, me).left = { a.path }
    BY <1>1, ListedMeans
  <2> QED
    BY <2>1 DEF Quiet
<1>5. /\ Way(t, a.path) = {} /\ t[a.path].kind # "absent" /\ Way(t, x) = {} /\ t[x].kind # "absent"
      /\ t[x].kind # "link"
  <2>1. Find(t, a.path) = {} /\ Find(t, x) = {} /\ t[x].kind # "link"
    BY <1>0, <1>2, <1>4, ReachMeans
  <2> QED
    BY <1>0, <1>2, <2>1, FindMeans
<1>6. ASSUME Find(u, a.path) = {}
      PROVE  Reach(u, a.path) = {} /\ u[Real(u, a.path)].open = (a.word = "rw")
  <2>1. Way(u, a.path) = {}
    BY <1>0, <1>6, FindMeans
  <2>2. Real(u, a.path) = x
    BY <1>0, <1>3, <1>5, <2>1, RealMeans
  <2>3. Way(u, x) = {}
    <3>1. x \notin Above(x) /\ Above(x) \subseteq Paths
      BY <1>2, AboveMeans
    <3> QED
      BY <1>2, <1>3, <1>5, <3>1, WayStays
  <2>4. Find(u, x) = {} /\ u[x].kind # "link"
    BY <1>2, <1>3, <1>5, <2>3, FindMeans
  <2> QED
    BY <1>0, <1>3, <1>6, <2>2, <2>4, ReachMeans
<1> HIDE DEF x
<1> QED
  BY <1>4, <1>6 DEF HasSet

LEMMA BeginMakes ==
    ASSUME NEW t, GoodTree(t), NEW a \in AskTypes, a.op = "mkdir", NEW me,
           Quiet(Begin(t, a, me).errs)
    PROVE  \A p : p.ask = a => HasMade(Begin(t, a, me).tree, p)
<1> DEFINE made == { q \in (IF a.flag THEN Prefixes(a.path) ELSE { a.path }) \ { Root } :
                        t[q].kind = "absent" }
           u == [q \in Paths |-> IF q \in made THEN New("dir", me, q) ELSE t[q]]
           stop == Way(t, a.path)
           errs == IF stop # {} /\ ~(a.flag /\ stop = { Missing }) THEN stop
                   ELSE IF a.path \notin made /\ ~(a.flag /\ Dir(t, a.path))
                        THEN { Exists } ELSE {}
<1>0. a.path \in Paths /\ a.path # Root
  BY PathsArePaths DEF AskTypes
<1>1. Begin(t, a, me) = AndList(t, errs, u, a.path)
  BY Zenon DEF Begin, Mkdir
<1>2. /\ a.path \in made => u[a.path] = New("dir", me, a.path)
      /\ a.path \notin made => u[a.path] = t[a.path]
  BY <1>0
<1>3. errs = {} => a.path \in made \/ Dir(t, a.path)
  OBVIOUS
<1>4. New("dir", me, a.path).kind = "dir"
  BY DEF New, Absent
<1> HIDE DEF made, u, errs, stop
<1>5. errs = {} /\ Begin(t, a, me).tree = u
  <2>1. Quiet(errs) /\ Begin(t, a, me).tree = u
    BY <1>1, ListedMeans
  <2> QED
    BY <2>1 DEF Quiet
<1> QED
  BY <1>0, <1>2, <1>3, <1>4, <1>5 DEF HasMade, Dir

LEMMA BeginLinks ==
    ASSUME NEW t, GoodTree(t), NEW a \in AskTypes, a.op = "symlink", NEW me,
           Quiet(Begin(t, a, me).errs)
    PROVE  \A p : p.ask = a => HasLinked(Begin(t, a, me).tree, p)
<1> DEFINE at == Into(t, a.path, a.to)
           link == [New("link", me, at) EXCEPT !.to = a.path]
           u == [t EXCEPT ![at] = link]
<1>0. a.path \in Paths /\ a.to \in Paths \cup { Root } /\ a.to \in Path
  BY PathsArePaths DEF AskTypes
<1>1. Begin(t, a, me) = AndList(t, NotMade(t, at), u, a.to)
  BY Zenon DEF Begin, Symlink
<1>2. link.kind = "link" /\ link.to = a.path
  BY DEF New, Absent
<1> HIDE DEF link
<1>3. NotMade(t, at) = {} /\ Begin(t, a, me).tree = u
  <2> HIDE DEF u, at
  <2>1. Quiet(NotMade(t, at)) /\ Begin(t, a, me).tree = u
    BY <1>1, ListedMeans
  <2> QED
    BY <2>1 DEF Quiet
<1>4. at \in Paths /\ t[at].kind = "absent"
  BY <1>3, NotMadeMeans
<1>5. u[at] = link /\ \A q \in Paths : q # at => u[q] = t[q]
  BY <1>4 DEF GoodTree
<1>6. at = a.to \/ (Reach(t, a.to) = {} /\ at = Append(Real(t, a.to), Last(a.path)))
  BY DEF Into
<1> HIDE DEF at, u
<1>7. CASE at = a.to
  BY <1>2, <1>3, <1>4, <1>5, <1>7 DEF HasLinked
<1>8. CASE Reach(t, a.to) = {} /\ at = Append(Real(t, a.to), Last(a.path))
  <2>1. Real(u, a.to) = Real(t, a.to)
    <3>1. CASE a.to = Root
      BY <3>1, RootIsThere
    <3>2. CASE a.to \in Paths
      <4>1. Way(t, a.to) = {} /\ t[a.to].kind # "absent"
        BY <1>0, <1>8, <3>2, FindMeans, PathsArePaths
      <4>2. \A q \in Above(a.to) : q \in Paths /\ t[q].kind = "dir"
        BY <3>2, <4>1, ReachedIsIn, AboveMeans
      <4>3. Way(u, a.to) = {}
        BY <1>4, <1>5, <3>2, <4>1, <4>2, WayStays
      <4>4. u[a.to] = t[a.to]
        BY <1>4, <1>5, <3>2, <4>1
      <4> QED
        BY <3>2, <4>1, <4>3, <4>4, RealMeans
    <3> QED
      BY <1>0, <3>1, <3>2
  <2> QED
    BY <1>2, <1>3, <1>4, <1>5, <1>8, <2>1 DEF HasLinked
<1> QED
  BY <1>6, <1>7, <1>8

LEMMA BeginRemoves ==
    ASSUME NEW t, NEW a, a.op = "rm", NEW me,
           Quiet(Begin(t, a, me).errs)
    PROVE  \A p : p.ask = a /\ p.left = Begin(t, a, me).left => HasRemoved(Begin(t, a, me).tree, p)
<1> DEFINE d == Did(t, Visited(t, a.path), Unvisited(t, a.path))
<1>1. Begin(t, a, me) = Unless(t, Find(t, a.path), d)
  BY Zenon DEF Begin, Rm
<1>2. d.tree = t /\ d.left = Visited(t, a.path) /\ d.errs = Unvisited(t, a.path)
  BY DEF Did
<1> HIDE DEF d
<1>3. Begin(t, a, me) = d
  BY <1>1, UnlessMeans
<1>4. Quiet(Unvisited(t, a.path)) => Visited(t, a.path) = Under(t, a.path)
  BY DEF Unvisited, Quiet
<1> QED
  BY <1>2, <1>3, <1>4 DEF HasRemoved

LEMMA SteppedMeans ==
    ASSUME NEW p, GoodProc(p), NEW q, NEW t, NEW errs, NEW r, r = Stepped(p, q, t, errs)
    PROVE  r.tree = t /\ r.proc.left = p.left \ { q } /\ r.proc.errs = p.errs \cup errs
BY DEF Stepped, GoodProc, Fields

LEMMA StepMeans ==
    ASSUME NEW p, GoodProc(p), NEW q, NEW t, NEW errs, NEW t2, NEW r,
           r = Step(p, q, t, errs, t2), Quiet(r.proc.errs)
    PROVE  Quiet(errs) /\ Quiet(p.errs) /\ r.tree = t2 /\ r.proc.left = p.left \ { q }
<1>1. PICK u : u = IF errs = {} THEN t2 ELSE t
  OBVIOUS
<1>2. r = Stepped(p, q, u, errs)
  BY <1>1 DEF Step
<1>3. r.tree = u /\ r.proc.left = p.left \ { q } /\ r.proc.errs = p.errs \cup errs
  BY <1>2, SteppedMeans
<1>4. p.errs \cup errs = {}
  BY <1>3 DEF Quiet
<1> QED
  BY <1>1, <1>3, <1>4 DEF Quiet

Listers == { "chmod", "mkdir", "symlink" }

\* The listing that follows changes nothing.
LEMMA ListingKeeps ==
    ASSUME NEW t, NEW p, GoodProc(p), p.ask.op \in Listers, NEW q \in p.left, NEW me,
           Quiet(Continue(t, p, q, me).proc.errs)
    PROVE  Continue(t, p, q, me).tree = t /\ Quiet(p.errs) /\ Quiet(Find(t, q)) /\ Continue(t, p, q, me).proc.left = p.left \ { q }
<1>1. Continue(t, p, q, me) = Stepped(p, q, t, Find(t, q))
  <2>1. p.ask.op \notin { "rm", "upload", "wormhole receive", "compress", "extract", "cp", "receive", "send" }
    BY DEF Listers
  <2> QED
    BY <2>1, Zenon DEF Continue
<1>2. PICK errs : errs = Find(t, q)
  OBVIOUS
<1>3. Continue(t, p, q, me).tree = t /\ Continue(t, p, q, me).proc.left = p.left \ { q } /\ Continue(t, p, q, me).proc.errs = p.errs \cup errs
  BY <1>1, <1>2, SteppedMeans
<1> QED
  BY <1>2, <1>3 DEF Quiet

LEMMA ListingDone ==
    ASSUME NEW t, NEW p, GoodProc(p), p.ask.op \in Listers, NEW q \in p.left, NEW me,
           Quiet(Continue(t, p, q, me).proc.errs)
    PROVE  \A p2 : p2.ask = p.ask /\ p2.left = Continue(t, p, q, me).proc.left =>
              /\ HasSet(t, p) => HasSet(Continue(t, p, q, me).tree, p2)
              /\ HasMade(t, p) => HasMade(Continue(t, p, q, me).tree, p2)
              /\ HasLinked(t, p) => HasLinked(Continue(t, p, q, me).tree, p2)
<1>1. Continue(t, p, q, me).tree = t /\ Quiet(Find(t, q)) /\ Continue(t, p, q, me).proc.left = p.left \ { q }
  BY ListingKeeps
<1>2. ASSUME NEW p2, p2.ask = p.ask, p2.left = Continue(t, p, q, me).proc.left, HasSet(t, p) PROVE HasSet(Continue(t, p, q, me).tree, p2)
  <2>1. Find(t, p.ask.path) = {}
    BY <1>1, <1>2 DEF HasSet, Quiet
  <2> QED
    BY <1>1, <1>2, <2>1 DEF HasSet
<1>3. ASSUME NEW p2, p2.ask = p.ask
      PROVE  (HasMade(t, p) => HasMade(Continue(t, p, q, me).tree, p2)) /\ (HasLinked(t, p) => HasLinked(Continue(t, p, q, me).tree, p2))
  BY <1>1, <1>3 DEF HasMade, HasLinked
<1> QED
  BY <1>2, <1>3

LEMMA RemovalGoesOn ==
    ASSUME NEW t, GoodTree(t), NEW p, GoodProc(p), p.ask.op = "rm", NEW q \in p.left, NEW me,
           Quiet(Continue(t, p, q, me).proc.errs), HasRemoved(t, p)
    PROVE  \A p2 : p2.ask = p.ask /\ p2.left = Continue(t, p, q, me).proc.left => HasRemoved(Continue(t, p, q, me).tree, p2)
<1> DEFINE u == [t EXCEPT ![q] = Absent]
           errs == OrElse(Find(t, q), When(Children(t, q) # {}, NotEmpty))
<1>1. Continue(t, p, q, me) = Step(p, q, t, errs, u)
  BY Zenon DEF Continue, RmEntry
<1>2. q \in Paths => u[q].kind = "absent"
  BY AbsentNode DEF GoodTree
<1>3. \A z \in Paths : z # q => u[z] = t[z]
  BY DEF GoodTree
<1> HIDE DEF u, errs
<1>4. Continue(t, p, q, me).tree = u /\ Continue(t, p, q, me).proc.left = p.left \ { q }
  BY <1>1, StepMeans
<1>5. Under(u, p.ask.path) \subseteq Under(t, p.ask.path) \ { q }
  BY <1>2, <1>3 DEF Under
<1> QED
  BY <1>4, <1>5 DEF HasRemoved

-----------------------------------------------------------------------------
(* What is written into a file.                                             *)

\* A file that is opened to be written to is there, empty, and the one that the
\* process has open.
LEMMA TruncatedThere ==
    ASSUME NEW t, GoodTree(t), NEW p \in Paths, Quiet(Writable(t, p)), NEW kind \in { "file", "cut" },
           NEW me, NEW x, x = Real(t, p), NEW d, d = Truncate(t, x, kind, me)
    PROVE  /\ x \in Paths /\ d.left = { x } /\ d.errs = {}
           /\ \A q \in Paths : q # x => d.tree[q] = t[q]
           /\ t[x].kind \notin { "dir", "link" }
           /\ d.tree[x].kind = kind /\ d.tree[x].data = << >> /\ d.tree[x].holds = {}
           /\ d.tree[x].id = d.fd
           /\ Real(d.tree, p) = x /\ Way(d.tree, p) = {}
<1>1. x \in Paths
  BY RealPath
<1>0. Writable(t, p) = {}
  BY DEF Quiet
<1>2. t[x].kind \notin { "dir", "link" } /\ Way(t, p) = {}
  <2>1. ~Dir(t, x) /\ t[x].kind # "link"
    BY <1>0, WritableMeans
  <2>2. Way(t, p) = {}
    <3>1. \E more : Writable(t, p) = OrElse(Way(t, p), more)
      BY DEF Writable
    <3> QED
      BY <1>0, <3>1, NoErrors
  <2> QED
    BY <2>1, <2>2 DEF Dir
<1> DEFINE id == IF t[x].kind = "absent" THEN [by |-> me, at |-> x] ELSE t[x].id
           n == [New(kind, me, x) EXCEPT !.id = IF t[x].kind = "absent" THEN @ ELSE t[x].id]
           u == [t EXCEPT ![x] = n]
<1>3. n.kind = kind /\ n.data = << >> /\ n.holds = {} /\ n.id = id
  BY DEF New, Absent
<1> HIDE DEF n, id
<1>4. d.tree = u /\ d.left = { x } /\ d.errs = {} /\ d.fd = id
  BY DEF Truncate, Did, n, id
<1>5. u[x] = n /\ \A q \in Paths : q # x => u[q] = t[q]
  BY <1>1 DEF GoodTree
<1> HIDE DEF u
<1>6. Way(u, p) = {}
  <2>1. Above(p) \subseteq Paths
    BY AboveMeans
  <2> QED
    BY <1>2, <1>5, <2>1, WayStays
<1>7. Real(u, p) = x
  <2>1. Real(u, p) = IF u[p].kind = "link" THEN u[p].to ELSE p
    BY <1>6, RealMeans
  <2>2. x = IF t[p].kind = "link" THEN t[p].to ELSE p
    BY <1>2, RealMeans
  <2>3. CASE p = x
    BY <1>3, <1>5, <2>1, <2>3
  <2>4. CASE p # x
    BY <1>5, <2>1, <2>2, <2>4
  <2> QED
    BY <2>3, <2>4
<1> QED
  BY <1>1, <1>2, <1>3, <1>4, <1>5, <1>6, <1>7

LEMMA BeginWrites ==
    ASSUME NEW t, GoodTree(t), NEW a \in AskTypes, a.op = "upload", NEW me,
           Quiet(Begin(t, a, me).errs)
    PROVE  \A p : p.ask = a /\ p.left = Begin(t, a, me).left /\ p.fd = Begin(t, a, me).fd /\ p.at = 0 => HasWritten(Begin(t, a, me).tree, p)
<1>0. a.path \in Paths
  BY DEF AskTypes
<1>1. PICK x : x = Real(t, a.path)
  OBVIOUS
<1>2. Begin(t, a, me) = Unless(t, Writable(t, a.path), Truncate(t, x, "file", me))
  BY <1>1, Zenon DEF Begin, Upload
<1>3. Quiet(Writable(t, a.path)) /\ Begin(t, a, me) = Truncate(t, x, "file", me)
  BY <1>2, UnlessMeans
<1>4. /\ x \in Paths /\ Begin(t, a, me).left = { x }
      /\ Begin(t, a, me).tree[x].kind = "file" /\ Begin(t, a, me).tree[x].data = << >> /\ Begin(t, a, me).tree[x].id = Begin(t, a, me).fd
      /\ Real(Begin(t, a, me).tree, a.path) = x /\ Way(Begin(t, a, me).tree, a.path) = {}
  BY <1>0, <1>1, <1>3, TruncatedThere
<1>5. x \in At(Begin(t, a, me).tree, Begin(t, a, me).fd)
  BY <1>4 DEF At, FileKinds
<1>6. SubSeq(a.data, 1, 0) = << >>
  <2>1. a.data \in Seq(Nat) /\ Len(a.data) \in Nat
    BY LengthIsNat DEF AskTypes
  <2>2. PICK e : e = SubSeq(a.data, 1, 0)
    OBVIOUS
  <2>3. e \in Seq(Nat) /\ Len(e) = 0
    BY <2>1, <2>2, Part
  <2> QED
    BY <2>2, <2>3, EmptySeq
<1> QED
  BY <1>4, <1>5, <1>6 DEF HasWritten

\* What a path leads to stays, when only files are written to.
LEMMA RealStays ==
    ASSUME NEW t, NEW u, NEW p \in Paths, Way(t, p) = {},
           \A q \in Paths : \/ u[q].kind = t[q].kind /\ u[q].to = t[q].to /\ u[q].open = t[q].open
                            \/ t[q].kind \in FileKinds /\ u[q].kind \in FileKinds
    PROVE  Way(u, p) = {} /\ Real(u, p) = Real(t, p)
<1>1. "dir" \notin FileKinds /\ "link" \notin FileKinds
  BY DEF FileKinds
<1>2. Way(u, p) = {}
  <2>1. Above(p) \subseteq Paths
    BY AboveMeans
  <2> QED
    BY <1>1, <2>1, WayStays
<1>3. Real(t, p) = (IF t[p].kind = "link" THEN t[p].to ELSE p) /\ Real(u, p) = IF u[p].kind = "link" THEN u[p].to ELSE p
  BY <1>2, RealMeans
<1> QED
  BY <1>1, <1>2, <1>3

LEMMA BytePut ==
    ASSUME NEW t, GoodTree(t), NEW fd, NEW s \in Seq(Nat), NEW i \in 1 .. Len(s),
           NEW x \in At(t, fd), t[x].data = SubSeq(s, 1, i - 1)
    PROVE  Put(t, fd, i, s[i])[x].data = SubSeq(s, 1, i)
<1>1. Len(s) \in Nat /\ i \in Nat /\ i >= 1 /\ i - 1 \in Nat /\ x \in Paths
  BY LengthIsNat DEF At
<1>2. /\ t[x].data \in Seq(Nat) /\ Len(t[x].data) = i - 1 /\ \A j \in 1 .. i - 1 : t[x].data[j] = s[j]
  <2>1. 1 <= i - 1 \/ i = 1
    BY <1>1
  <2>2. PICK d : d = t[x].data
    OBVIOUS
  <2>3. d \in Seq(Nat) /\ Len(d) = i - 1 /\ \A j \in 1 .. i - 1 : d[j] = s[j]
    BY <1>1, <2>1, <2>2, Part
  <2> QED
    BY <2>2, <2>3
<1> DEFINE long == IF Len(t[x].data) < i THEN i ELSE Len(t[x].data)
           new == [j \in 1 .. long |-> IF j = i THEN s[i]
                                       ELSE IF j <= Len(t[x].data) THEN t[x].data[j] ELSE NL]
<1>3. Put(t, fd, i, s[i])[x].data = new
  BY <1>1 DEF Put, GoodTree, GoodNode, NodeFields
<1>4. long = i
  BY <1>1, <1>2
<1>5. new \in [1 .. i -> Nat] /\ \A j \in 1 .. i : new[j] = s[j]
  <2>1. \A j \in 1 .. i : s[j] \in Nat
    BY <1>1
  <2>2. \A j \in 1 .. i : new[j] = s[j]
    BY <1>1, <1>2, <1>4
  <2>3. DOMAIN new = 1 .. i
    BY <1>4
  <2>4. new = [j \in 1 .. i |-> new[j]]
    BY <2>3
  <2> HIDE DEF new
  <2> QED
    BY <2>1, <2>2, <2>4
<1> HIDE DEF new
<1>6. PICK d : d = SubSeq(s, 1, i)
  OBVIOUS
<1>7. d \in Seq(Nat) /\ Len(d) = i /\ \A j \in 1 .. i : d[j] = s[j]
  BY <1>1, <1>6, Part
<1>8. new \in Seq(Nat) /\ Len(new) = i
  <2>1. new \in Seq(Nat) /\ DOMAIN new = 1 .. i
    BY <1>1, <1>5, SeqDef
  <2> QED
    BY <1>1, <2>1, LenProperties
<1> QED
  BY <1>3, <1>5, <1>6, <1>7, <1>8, SeqEqual

LEMMA PutThere ==
    ASSUME NEW t, GoodTree(t), NEW fd, NEW i, NEW byte, NEW z \in Paths
    PROVE  /\ z \notin At(t, fd) => Put(t, fd, i, byte)[z] = t[z]
           /\ z \in At(t, fd) => t[z].kind \in FileKinds /\ t[z].id = fd
                                   /\ Put(t, fd, i, byte)[z].kind = "file" /\ Put(t, fd, i, byte)[z].id = fd
<1>1. z \notin At(t, fd) => Put(t, fd, i, byte)[z] = t[z]
  BY DEF Put
<1>2. ASSUME z \in At(t, fd)
      PROVE  \E data : Put(t, fd, i, byte)[z] = [t[z] EXCEPT !.kind = "file", !.holds = {}, !.data = data]
  <2> DEFINE data == [j \in 1 .. (IF Len(t[z].data) < i THEN i ELSE Len(t[z].data)) |->
                         IF j = i THEN byte
                         ELSE IF j <= Len(t[z].data) THEN t[z].data[j] ELSE NL]
  <2>1. Put(t, fd, i, byte)[z] = [t[z] EXCEPT !.kind = "file", !.holds = {}, !.data = data]
    BY <1>2 DEF Put, GoodTree, GoodNode, NodeFields
  <2> HIDE DEF data
  <2> QED
    BY <2>1
<1>3. GoodNode(t[z])
  BY DEF GoodTree
<1>4. \A data : LET n == [t[z] EXCEPT !.kind = "file", !.holds = {}, !.data = data] IN
           n.kind = "file" /\ n.id = t[z].id
  BY <1>3 DEF GoodNode, NodeFields
<1> QED
  BY <1>1, <1>2, <1>4 DEF At

LEMMA WritingGoesOn ==
    ASSUME NEW t, GoodTree(t), NEW p, GoodProc(p), CanGoOn(p), p.ask.op = "upload",
           NEW q, NEW me, HasWritten(t, p)
    PROVE  \A p2 : LET r == Continue(t, p, q, me) IN
              p2.ask = p.ask /\ p2.fd = p.fd /\ p2.left = r.proc.left /\ p2.at = r.proc.at
                => HasWritten(r.tree, p2)
<1>0. PICK s, i, x : s = p.ask.data /\ i = p.at + 1 /\ x = Real(t, p.ask.path)
  OBVIOUS
<1> DEFINE u == Put(t, p.fd, i, s[i])
<1>1. p.ask.path \in Paths /\ s \in Seq(Nat) /\ Len(s) \in Nat
  BY <1>0, AskOfProc, LengthIsNat
<1>2. p.left # {} /\ i \in 1 .. Len(s) /\ i - 1 = p.at
  <2>1. p.at \in 0 .. Len(s) /\ p.left # {} /\ p.at # Len(s)
    BY <1>0 DEF GoodProc, CanGoOn
  <2> QED
    BY <1>0, <1>1, <2>1
<1>3. /\ Continue(t, p, q, me).tree = u /\ Continue(t, p, q, me).proc.at = i
      /\ Continue(t, p, q, me).proc.left = {} => i = Len(s)
  <2>1. Continue(t, p, q, me) = WriteByte(t, p, q)
    BY Zenon DEF Continue
  <2>2. /\ WriteByte(t, p, q).tree = u /\ WriteByte(t, p, q).proc.at = i
        /\ WriteByte(t, p, q).proc.left = IF i = Len(s) THEN {} ELSE p.left
    BY <1>0 DEF WriteByte, GoodProc, Fields
  <2> HIDE DEF u
  <2> QED
    BY <1>2, <2>1, <2>2
<1>4. x \in At(t, p.fd) /\ x \in Paths /\ Way(t, p.ask.path) = {} /\ t[x].data = SubSeq(s, 1, i - 1)
  BY <1>0, <1>2 DEF HasWritten, At
<1>5. u[x].data = SubSeq(s, 1, i)
  BY <1>1, <1>2, <1>4, BytePut
<1>6. \A z \in Paths : /\ z \notin At(t, p.fd) => u[z] = t[z]
                       /\ z \in At(t, p.fd) => t[z].kind \in FileKinds /\ u[z].kind = "file" /\ u[z].id = p.fd
  BY PutThere
<1>7. "file" \in FileKinds
  BY DEF FileKinds
<1> HIDE DEF u
<1>8. Way(u, p.ask.path) = {} /\ Real(u, p.ask.path) = x /\ x \in At(u, p.fd)
  <2>1. \A z \in Paths : \/ u[z].kind = t[z].kind /\ u[z].to = t[z].to /\ u[z].open = t[z].open
                         \/ t[z].kind \in FileKinds /\ u[z].kind \in FileKinds
    BY <1>6, <1>7
  <2>2. Way(u, p.ask.path) = {} /\ Real(u, p.ask.path) = Real(t, p.ask.path)
    BY <1>1, <1>4, <2>1, RealStays
  <2>3. x \in At(u, p.fd)
    BY <1>4, <1>6, <1>7 DEF At
  <2> QED
    BY <1>0, <2>2, <2>3
<1>9. ASSUME NEW p2, p2.ask = p.ask, p2.fd = p.fd, p2.at = i, p2.left = {} => i = Len(s) PROVE HasWritten(u, p2)
  BY <1>0, <1>5, <1>8, <1>9 DEF HasWritten
<1> QED
  BY <1>3, <1>9

LEMMA AllWritten ==
    ASSUME NEW t, NEW p, GoodProc(p), HasWritten(t, p), p.left = {}
    PROVE  t[Real(t, p.ask.path)].data = p.ask.data
<1>1. p.ask.data \in Seq(Nat) /\ Len(p.ask.data) \in Nat
  BY AskOfProc, LengthIsNat
<1>2. PICK s, d : s = p.ask.data /\ d = SubSeq(s, 1, Len(s))
  OBVIOUS
<1>3. d \in Seq(Nat) /\ Len(d) = Len(s) /\ \A j \in 1 .. Len(s) : d[j] = s[j]
  <2>1. 1 <= Len(s) \/ Len(s) = 0
    BY <1>1, <1>2
  <2> QED
    BY <1>1, <1>2, <2>1, Part
<1>4. d = s
  BY <1>1, <1>2, <1>3, SeqEqual
<1> QED
  BY <1>2, <1>4 DEF HasWritten

\* Trees that differ in what their files are and hold.
Alike(t, u) ==
    \A q \in Paths : \/ u[q].kind = t[q].kind /\ u[q].to = t[q].to /\ u[q].open = t[q].open
                     \/ t[q].kind \in FileKinds /\ u[q].kind \in FileKinds

LEMMA AlikeMeans ==
    ASSUME NEW t, NEW u, Alike(t, u)
    PROVE  /\ \A p \in Paths \cup { Root } : Real(u, p) = Real(t, p)
           /\ \A p : Under(u, p) = Under(t, p)
<1>1. Alike(u, t)
  BY DEF Alike
<1>2. ASSUME NEW p \in Paths PROVE Real(u, p) = Real(t, p)
  <2>1. CASE Way(t, p) = {}
    BY <2>1, RealStays DEF Alike
  <2>2. CASE Way(u, p) = {}
    BY <1>1, <2>2, RealStays DEF Alike
  <2>3. CASE Way(t, p) # {} /\ Way(u, p) # {}
    BY <2>3 DEF Real
  <2> QED
    BY <2>1, <2>2, <2>3
<1>3. "absent" \notin FileKinds
  BY DEF FileKinds
<1>4. \A q \in Paths : u[q].kind # "absent" <=> t[q].kind # "absent"
  BY <1>3 DEF Alike
<1>5. \A p : Under(u, p) = Under(t, p)
  BY <1>4 DEF Under
<1> QED
  BY <1>2, <1>5, RootIsThere

LEMMA CompressMeans ==
    ASSUME NEW t, NEW a, a.op = "compress", NEW me, Quiet(Begin(t, a, me).errs)
    PROVE  LET r == Begin(t, a, me)
               d == Truncate(t, Real(t, a.to), "cut", me)
           IN  /\ Quiet(Writable(t, a.to)) /\ r.tree = d.tree /\ r.fd = d.fd
               /\ r.left = Matching(t, a) /\ r.dest = Base(t, a)
               /\ a.word = "" => Find(t, a.path) = {} /\ Unvisited(t, a.path) = {}
<1>1. PICK x, errs : /\ x = Real(t, a.to)
                     /\ errs = IF a.word # "" THEN {} ELSE OrElse(Find(t, a.path), Unvisited(t, a.path))
  OBVIOUS
<1> DEFINE d == Truncate(t, x, "cut", me)
           did == [d EXCEPT !.left = Matching(t, a), !.errs = errs, !.dest = Base(t, a)]
<1>2. Begin(t, a, me) = Unless(t, Writable(t, a.to), did)
  BY <1>1, Zenon DEF Begin, Compress
<1>3. \E tr, lf, fd : d = [Did(tr, lf, {}) EXCEPT !.fd = fd]
  BY Zenon DEF Truncate
<1>4. /\ did.tree = d.tree /\ did.fd = d.fd /\ did.left = Matching(t, a) /\ did.dest = Base(t, a)
      /\ did.errs = errs
  <2> HIDE DEF d
  <2> QED
    BY <1>3 DEF Did
<1> HIDE DEF did
<1>5. Quiet(Writable(t, a.to)) /\ Begin(t, a, me) = did
  BY <1>2, UnlessMeans
<1>6. a.word = "" => Find(t, a.path) = {} /\ Unvisited(t, a.path) = {}
  <2>1. errs = {}
    BY <1>4, <1>5 DEF Quiet
  <2> QED
    BY <1>1, <2>1, NoErrors
<1> HIDE DEF d
<1> QED
  BY <1>1, <1>4, <1>5, <1>6 DEF d

LEMMA BeginPacks ==
    ASSUME NEW t, GoodTree(t), NEW a \in AskTypes, a.op = "compress", NEW me,
           Quiet(Begin(t, a, me).errs)
    PROVE  \A p : LET r == Begin(t, a, me) IN
              p.ask = a /\ p.left = r.left /\ p.fd = r.fd /\ p.dest = r.dest => HasPacked(r.tree, p)
<1>1. a.to \in Paths \cup { Root } /\ a.path \in Paths
  BY DEF AskTypes
<1>2. PICK x, d, r :
         /\ x = Real(t, a.to) /\ d = Truncate(t, x, "cut", me) /\ r = Begin(t, a, me)
         /\ Quiet(Writable(t, a.to)) /\ r.tree = d.tree /\ r.fd = d.fd
         /\ r.left = Matching(t, a) /\ r.dest = Base(t, a)
         /\ a.word = "" => Find(t, a.path) = {} /\ Unvisited(t, a.path) = {}
  <2> DEFINE e == Begin(t, a, me)
             c == Truncate(t, Real(t, a.to), "cut", me)
  <2>1. /\ Quiet(Writable(t, a.to)) /\ e.tree = c.tree /\ e.fd = c.fd
        /\ e.left = Matching(t, a) /\ e.dest = Base(t, a)
        /\ a.word = "" => Find(t, a.path) = {} /\ Unvisited(t, a.path) = {}
    BY CompressMeans
  <2>2. PICK x : x = Real(t, a.to)
    OBVIOUS
  <2>3. c = Truncate(t, x, "cut", me) /\ e = Begin(t, a, me)
    BY <2>2
  <2> HIDE DEF e, c
  <2> QED
    BY <2>1, <2>2, <2>3, Zenon
<1>3. x = Real(t, a.to) /\ d = Truncate(t, x, "cut", me) /\ Quiet(Writable(t, a.to))
  BY <1>2
<1>4. r.tree = d.tree /\ r.fd = d.fd
  BY <1>2
<1>5. a.to \in Paths
  <2>1. ~Dir(t, x)
    BY <1>2, WritableMeans DEF Quiet
  <2> QED
    BY <1>1, <1>2, <2>1, RootIsThere DEF Dir
<1>6. /\ x \in Paths
      /\ \A q \in Paths : q # x => d.tree[q] = t[q]
      /\ d.tree[x].kind = "cut" /\ d.tree[x].holds = {} /\ d.tree[x].id = d.fd
      /\ Real(d.tree, a.to) = x
  BY <1>3, <1>5, TruncatedThere
<1>7. x \in At(d.tree, d.fd)
  BY <1>6 DEF At, FileKinds
<1>8. ASSUME a.word = ""
      PROVE  /\ r.dest = Front(a.path) /\ r.left \subseteq Under(d.tree, a.path)
             /\ (Under(d.tree, a.path) \ { x }) \ r.left = {}
  <2>1. r.dest = Front(a.path) /\ r.left = Visited(t, a.path)
    BY <1>2, <1>8 DEF Base, Matching
  <2>2. Visited(t, a.path) = Under(t, a.path)
    BY <1>2, <1>8 DEF Unvisited
  <2>3. /\ Under(t, a.path) \subseteq Under(d.tree, a.path)
        /\ Under(d.tree, a.path) \ { x } \subseteq Under(t, a.path)
    BY <1>6 DEF Under
  <2> QED
    BY <2>1, <2>2, <2>3
<1>9. ASSUME NEW p, p.ask = a, p.left = r.left, p.fd = r.fd, p.dest = r.dest PROVE HasPacked(r.tree, p)
  <2>1. x \in At(r.tree, p.fd) /\ r.tree[x].kind = "cut" /\ Real(r.tree, p.ask.to) = x /\ r.tree[x].holds = {}
    BY <1>4, <1>6, <1>7, <1>9
  <2>2. ASSUME a.word = ""
        PROVE  /\ p.dest = Front(a.path) /\ p.left \subseteq Under(r.tree, a.path)
               /\ (Under(r.tree, a.path) \ { x }) \ p.left = {}
    BY <1>4, <1>8, <1>9, <2>2
  <2> QED
    BY <1>9, <2>1, <2>2 DEF HasPacked
<1> QED
  BY <1>2, <1>9

LEMMA StoredThere ==
    ASSUME NEW t, GoodTree(t), NEW fd, NEW m
    PROVE  LET u == Store(t, fd, m) IN
           /\ \A z \in Paths :
                /\ u[z].kind = t[z].kind /\ u[z].to = t[z].to /\ u[z].open = t[z].open
                /\ u[z].id = t[z].id
                /\ z \notin At(t, fd) => u[z] = t[z]
                /\ z \in At(t, fd) /\ t[z].kind = "cut" => u[z].holds = t[z].holds \cup { m }
           /\ At(u, fd) = At(t, fd)
           /\ Alike(t, u)
<1> DEFINE u == Store(t, fd, m)
<1>1. \A z \in Paths :
        /\ u[z].kind = t[z].kind /\ u[z].to = t[z].to /\ u[z].open = t[z].open /\ u[z].id = t[z].id
        /\ z \notin At(t, fd) => u[z] = t[z]
        /\ z \in At(t, fd) /\ t[z].kind = "cut" => u[z].holds = t[z].holds \cup { m }
  BY DEF Store, GoodTree, GoodNode, NodeFields
<1> HIDE DEF u
<1>2. At(u, fd) = At(t, fd)
  BY <1>1 DEF At
<1>3. Alike(t, u)
  BY <1>1 DEF Alike
<1> QED
  BY <1>1, <1>2, <1>3 DEF u

LEMMA MemberAdded ==
    ASSUME NEW t, NEW p, GoodProc(p), p.ask.op = "compress", NEW q \in p.left, NEW me,
           Quiet(Continue(t, p, q, me).proc.errs)
    PROVE  /\ Continue(t, p, q, me).tree = Store(t, p.fd, Member(t, p, q))
           /\ Continue(t, p, q, me).proc.left = p.left \ { q }
           /\ Source(t, p, q) \notin At(t, p.fd)
           /\ Quiet(p.errs)
<1> DEFINE from == Source(t, p, q)
           errs == OrElse(IF Find(t, q) # {} THEN { "File removed before we read it" }
                          ELSE IF p.ask.flag THEN Reach(t, q) ELSE {},
                          IF from \in At(t, p.fd) THEN { "file changed as we read it" }
                          ELSE IF Dir(t, from) THEN {} ELSE Shut(t, from))
           p2 == [p EXCEPT !.out.names = @ \cup { q }]
           u == Store(t, p.fd, Member(t, p, q))
<1>1. Continue(t, p, q, me) = IF errs # {} THEN Stepped(p, q, t, errs) ELSE Stepped(p2, q, u, {})
  <2>1. Continue(t, p, q, me) = AddMember(t, p, q)
    BY Zenon DEF Continue
  <2> QED
    BY <2>1, Zenon DEF AddMember, Source
<1>2. errs = {} => from \notin At(t, p.fd)
  <2>1. \A one, two : OrElse(one, two) = {} => two = {}
    BY DEF OrElse
  <2>2. errs = {} => (IF from \in At(t, p.fd) THEN { "file changed as we read it" }
                     ELSE IF Dir(t, from) THEN {} ELSE Shut(t, from)) = {}
    BY <2>1, Zenon
  <2> HIDE DEF errs, from
  <2> QED
    BY <2>2
<1>3. p2.left = p.left /\ p2.errs = p.errs /\ DOMAIN p2 = Fields
  BY DEF GoodProc, Fields
<1> HIDE DEF errs, u, p2, from
<1>4. errs = {}
  <2>1. Stepped(p, q, t, errs).proc.errs = p.errs \cup errs
    BY SteppedMeans
  <2> QED
    BY <1>1, <2>1 DEF Quiet
<1>5. /\ Stepped(p2, q, u, {}).tree = u /\ Stepped(p2, q, u, {}).proc.left = p.left \ { q }
      /\ Stepped(p2, q, u, {}).proc.errs = p.errs \cup {}
  BY <1>3 DEF Stepped, Fields
<1>6. Continue(t, p, q, me) = Stepped(p2, q, u, {})
  BY <1>1, <1>4
<1>7. Quiet(p.errs)
  BY <1>5, <1>6 DEF Quiet
<1> QED
  BY <1>2, <1>4, <1>5, <1>6, <1>7 DEF u, from

KeptBeyond(t, u, fd) == \A z \in Paths : z \notin At(t, fd) => u[z] = t[z]

\* A member is what is at its source, as long as nothing else is there.
LEMMA MemberStays ==
    ASSUME NEW t, GoodTree(t), NEW u, Alike(t, u), NEW p, NEW fd, KeptBeyond(t, u, fd),
           NEW q \in Paths, Source(t, p, q) \notin At(t, fd)
    PROVE  /\ Source(u, p, q) = Source(t, p, q)
           /\ u[Source(t, p, q)] = t[Source(t, p, q)]
           /\ Member(u, p, q) = Member(t, p, q)
<1>1. Source(u, p, q) = Source(t, p, q)
  BY AlikeMeans DEF Source
<1>2. Source(t, p, q) \in Paths
  BY RealPath DEF Source
<1>3. u[Source(t, p, q)] = t[Source(t, p, q)]
  BY <1>2 DEF KeptBeyond
<1> QED
  BY <1>1, <1>3 DEF Member, Source

LEMMA PackingGoesOn ==
    ASSUME NEW t, GoodTree(t), NEW p, GoodProc(p), p.ask.op = "compress", NEW q \in p.left, NEW me,
           Quiet(Continue(t, p, q, me).proc.errs), HasPacked(t, p)
    PROVE  \A p2 : LET r == Continue(t, p, q, me) IN
              p2.ask = p.ask /\ p2.fd = p.fd /\ p2.dest = p.dest /\ p2.left = r.proc.left
                => HasPacked(r.tree, p2)
<1>1. PICK m, u : /\ m = Member(t, p, q) /\ u = Store(t, p.fd, m)
                  /\ Continue(t, p, q, me).tree = u
                  /\ Continue(t, p, q, me).proc.left = p.left \ { q }
                  /\ Source(t, p, q) \notin At(t, p.fd)
  BY MemberAdded
<1>2. u = Store(t, p.fd, m)
  BY <1>1
<1>3. /\ \A z \in Paths :
            /\ u[z].kind = t[z].kind
            /\ z \notin At(t, p.fd) => u[z] = t[z]
            /\ z \in At(t, p.fd) /\ t[z].kind = "cut" => u[z].holds = t[z].holds \cup { m }
      /\ At(u, p.fd) = At(t, p.fd)
      /\ Alike(t, u)
  BY <1>2, StoredThere
<1>4. PICK x : x = Real(t, p.ask.to)
  OBVIOUS
<1>5. x \in At(t, p.fd) /\ x \in Paths /\ t[x].kind = "cut"
  BY <1>4 DEF HasPacked, At
<1>6. /\ Real(u, p.ask.to) = x /\ \A z : Under(u, z) = Under(t, z)
      /\ u[x].kind = "cut" /\ u[x].holds = t[x].holds \cup { m } /\ x \in At(u, p.fd)
  BY <1>3, <1>4, <1>5, AlikeMeans, AskOfProc
<1> DEFINE packed == (Under(t, p.ask.path) \ { x }) \ p.left
           more == (Under(t, p.ask.path) \ { x }) \ (p.left \ { q })
<1>7. ASSUME NEW p2, p2.ask = p.ask, p2.fd = p.fd, p2.dest = p.dest, p2.left = p.left \ { q },
             p.ask.word = ""
      PROVE  /\ p2.dest = Front(p.ask.path) /\ p2.left \subseteq Under(u, p.ask.path)
             /\ u[x].holds = { Member(u, p2, z) : z \in more }
             /\ \A z \in more : Source(u, p2, z) \notin At(u, p.fd)
  <2>1. /\ p.dest = Front(p.ask.path) /\ p.left \subseteq Under(t, p.ask.path)
        /\ t[x].holds = { Member(t, p, z) : z \in packed }
        /\ \A z \in packed : Source(t, p, z) \notin At(t, p.fd)
    BY <1>4, <1>7 DEF HasPacked
  <2>2. q # x
    <3>1. Real(t, x) = x
      BY <1>5 DEF Real
    <3> QED
      BY <1>1, <1>5, <3>1 DEF Source
  <2>3. more = packed \cup { q } /\ more \subseteq Paths
    BY <2>1, <2>2 DEF Under
  <2>4. \A z \in more : Source(t, p, z) \notin At(t, p.fd)
    BY <1>1, <2>1, <2>3
  <2>5. \A z \in more : Source(u, p2, z) = Source(t, p, z) /\ Member(u, p2, z) = Member(t, p, z)
    <3>1. Alike(t, u) /\ KeptBeyond(t, u, p.fd)
      BY <1>3 DEF KeptBeyond
    <3>2. \A z \in more : Source(u, p, z) = Source(t, p, z) /\ Member(u, p, z) = Member(t, p, z)
      BY <2>3, <2>4, <3>1, MemberStays
    <3>3. \A z : Source(u, p2, z) = Source(u, p, z) /\ Member(u, p2, z) = Member(u, p, z)
      BY <1>7 DEF Source, Member
    <3> QED
      BY <3>2, <3>3
  <2>6. { Member(u, p2, z) : z \in more } = { Member(t, p, z) : z \in more }
    BY <2>5
  <2> HIDE DEF packed, more
  <2>7. { Member(t, p, z) : z \in more } = { Member(t, p, z) : z \in packed } \cup { m }
    BY <1>1, <2>3
  <2> QED
    BY <1>3, <1>6, <1>7, <2>1, <2>4, <2>5, <2>6, <2>7
<1>8. ASSUME NEW p2, p2.ask = p.ask, p2.fd = p.fd, p2.dest = p.dest, p2.left = p.left \ { q }
      PROVE  HasPacked(u, p2)
  <2>1. Real(u, p2.ask.to) = x /\ x \in At(u, p2.fd) /\ u[x].kind = "cut"
    BY <1>6, <1>8
  <2>2. (Under(u, p2.ask.path) \ { x }) \ p2.left = more
    BY <1>6, <1>8
  <2>3. p2.ask.word = "" =>
           /\ p2.dest = Front(p2.ask.path) /\ p2.left \subseteq Under(u, p2.ask.path)
           /\ u[x].holds = { Member(u, p2, z) : z \in more }
           /\ \A z \in more : Source(u, p2, z) \notin At(u, p2.fd)
    BY <1>7, <1>8
  <2> HIDE DEF more
  <2> QED
    BY <2>1, <2>2, <2>3 DEF HasPacked
<1> QED
  BY <1>1, <1>8

LEMMA ClosedThere ==
    ASSUME NEW t, GoodTree(t), NEW p, p.ask.op = "compress"
    PROVE  LET u == Closed(t, p) IN
           /\ Alike(t, u) /\ KeptBeyond(t, u, p.fd)
           /\ \A z \in At(t, p.fd) : t[z].kind = "cut" => u[z].kind = "tar" /\ u[z].holds = t[z].holds
<1> DEFINE u == Closed(t, p)
<1>1. \A z \in Paths :
        /\ z \notin At(t, p.fd) \/ t[z].kind # "cut" => u[z] = t[z]
        /\ z \in At(t, p.fd) /\ t[z].kind = "cut" => u[z].kind = "tar" /\ u[z].holds = t[z].holds
  BY DEF Closed, GoodTree, GoodNode, NodeFields
<1> HIDE DEF u
<1>2. "tar" \in FileKinds /\ "cut" \in FileKinds /\ At(t, p.fd) \subseteq Paths
  BY DEF FileKinds, At
<1>3. \A z \in Paths : \/ u[z] = t[z]
                       \/ t[z].kind \in FileKinds /\ u[z].kind \in FileKinds
  BY <1>1, <1>2
<1>4. Alike(t, u)
  BY <1>3 DEF Alike
<1>5. KeptBeyond(t, u, p.fd)
  BY <1>1 DEF KeptBeyond
<1> QED
  BY <1>1, <1>2, <1>4, <1>5 DEF u

LEMMA NameOfMember ==
    ASSUME NEW p \in Paths, NEW q \in Paths, IsPrefix(p, q)
    PROVE  Front(p) \o Relative(Front(p), q) = q
<1>1. p \in Path /\ p # Root /\ q \in Path
  BY PathsArePaths
<1>2. Front(p) \in Path /\ IsPrefix(Front(p), p)
  BY <1>1, PrefixesOfFront
<1>3. IsPrefix(Front(p), q)
  BY <1>1, <1>2, PrefixOrder
<1> QED
  BY <1>1, <1>2, <1>3, Concatenation

LEMMA AllPacked ==
    ASSUME NEW t, GoodTree(t), NEW p, GoodProc(p), p.ask.op = "compress", HasPacked(t, p), p.left = {}
    PROVE  Packed(Closed(t, p), p.ask)
<1>0. PICK a, x, u : a = p.ask /\ x = Real(t, p.ask.to) /\ u = Closed(t, p)
  OBVIOUS
<1>1. /\ Alike(t, u) /\ KeptBeyond(t, u, p.fd)
      /\ \A z \in At(t, p.fd) : t[z].kind = "cut" => u[z].kind = "tar" /\ u[z].holds = t[z].holds
  BY <1>0, ClosedThere
<1>2. x \in At(t, p.fd) /\ x \in Paths /\ t[x].kind = "cut"
  BY <1>0 DEF HasPacked, At
<1>3. a.path \in Paths /\ a.path \in Path /\ a.to \in Paths \cup { Root }
  BY <1>0, AskOfProc
<1>4. /\ Real(u, a.to) = x /\ Under(u, a.path) = Under(t, a.path)
      /\ u[x].kind = "tar" /\ u[x].holds = t[x].holds
  BY <1>0, <1>1, <1>2, <1>3, AlikeMeans
<1> DEFINE packed == Under(u, a.path) \ { x }
           name(q) == Relative(Front(a.path), q)
<1>5. ASSUME a.word = ""
      PROVE  /\ { m.name : m \in u[x].holds } = { name(q) : q \in packed }
             /\ \A m \in u[x].holds :
                   LET q == Front(a.path) \o m.name
                   IN  Same(m, u[IF a.flag THEN Real(u, q) ELSE q])
  <2>1. /\ u[x].holds = { Member(t, p, q) : q \in packed }
        /\ \A q \in packed : Source(t, p, q) \notin At(t, p.fd)
        /\ p.dest = Front(a.path)
    BY <1>0, <1>4, <1>5 DEF HasPacked
  <2>2. \A q \in packed : Member(t, p, q).name = name(q)
    BY <2>1 DEF Member
  <2>3. ASSUME NEW q \in packed
        PROVE  /\ Front(a.path) \o Member(t, p, q).name = q
               /\ Same(Member(t, p, q), u[IF a.flag THEN Real(u, q) ELSE q])
    <3>1. q \in Paths /\ IsPrefix(a.path, q)
      BY <2>3 DEF Under
    <3>2. Front(a.path) \o Member(t, p, q).name = q
      BY <1>3, <2>2, <3>1, NameOfMember
    <3>3. Source(t, p, q) \notin At(t, p.fd)
      BY <2>1
    <3>4. Source(u, p, q) = Source(t, p, q) /\ u[Source(t, p, q)] = t[Source(t, p, q)]
      BY <1>1, <3>1, <3>3, MemberStays
    <3>5. Source(u, p, q) = IF a.flag THEN Real(u, q) ELSE q
      BY <1>0 DEF Source
    <3>6. Same(Member(t, p, q), t[Source(t, p, q)])
      BY DEF Same, Member, Source
    <3> QED
      BY <3>2, <3>4, <3>5, <3>6
  <2> HIDE DEF packed, name
  <2>4. { m.name : m \in u[x].holds } = { name(q) : q \in packed }
    BY <2>1, <2>2
  <2>5. ASSUME NEW m \in u[x].holds
        PROVE  Same(m, u[IF a.flag THEN Real(u, Front(a.path) \o m.name) ELSE Front(a.path) \o m.name])
    <3>1. PICK q \in packed : m = Member(t, p, q)
      BY <2>1
    <3> QED
      BY <2>3, <3>1
  <2> QED
    BY <2>4, <2>5
<1>6. Packed(u, a)
  BY <1>4, <1>5 DEF Packed
<1> QED
  BY <1>0, <1>6

-----------------------------------------------------------------------------
(* What is unpacked from an archive.                                        *)

LEMMA BeginUnpacks ==
    ASSUME NEW t, GoodTree(t), NEW a \in AskTypes, a.op = "extract", NEW me,
           Quiet(Begin(t, a, me).errs)
    PROVE  \A p : LET r == Begin(t, a, me) IN
              p.ask = a /\ p.left = r.left /\ p.dest = r.dest /\ p.cargo = r.cargo
                => HasUnpacked(r.tree, p)
<1>1. PICK x, into : /\ x = t[Real(t, a.path)]
                     /\ into = OrElse(Reach(t, a.to), IF Dir(t, Real(t, a.to)) THEN Shut(t, a.to) ELSE { NotDir })
  OBVIOUS
<1> DEFINE errs == OrElse(When(x.kind # "tar", "This does not look like a tar archive"), into)
           d == [Did(t, { a.to \o m.name : m \in x.holds }, {}) EXCEPT !.dest = a.to, !.cargo = x.holds]
           did == Unless(t, errs, d)
<1>2. Begin(t, a, me) = Unless(t, Readable(t, a.path), did)
  BY <1>1, Zenon DEF Begin, Extract
<1>3. d.tree = t /\ d.left = { a.to \o m.name : m \in x.holds } /\ d.dest = a.to /\ d.cargo = x.holds
  BY DEF Did
<1> HIDE DEF d, errs
<1>4. Quiet(Readable(t, a.path)) /\ Begin(t, a, me) = did
  <2> HIDE DEF did
  <2> QED
    BY <1>2, UnlessMeans
<1>5. Begin(t, a, me) = d
  BY <1>4, UnlessMeans
<1>6. Way(t, a.path) = {}
  <2>1. Readable(t, a.path) = {} /\ \E more : Readable(t, a.path) = OrElse(Reach(t, a.path), more)
    BY <1>4 DEF Quiet, Readable
  <2>2. Reach(t, a.path) = {}
    BY <2>1, NoErrors
  <2> QED
    BY <2>2, FindMeans, PathsArePaths DEF AskTypes
<1>7. ASSUME NEW p, p.ask = a, p.left = d.left, p.dest = d.dest, p.cargo = d.cargo
      PROVE  HasUnpacked(t, p)
  <2>1. \A m \in p.cargo : p.ask.to \o m.name \in p.left
    BY <1>3, <1>7
  <2>2. p.dest = p.ask.to /\ p.cargo = t[Real(t, p.ask.path)].holds /\ Way(t, p.ask.path) = {}
    BY <1>1, <1>3, <1>6, <1>7
  <2> QED
    BY <2>1, <2>2 DEF HasUnpacked
<1> QED
  BY <1>3, <1>5, <1>7

LEMMA Unpacks ==
    ASSUME NEW t, GoodTree(t), NEW p, GoodProc(p), p.ask.op = "extract", NEW q \in p.left, NEW me,
           Quiet(Continue(t, p, q, me).proc.errs)
    PROVE  LET u == Continue(t, p, q, me).tree IN
           /\ Quiet(p.errs) /\ Continue(t, p, q, me).proc.left = p.left \ { q } /\ q \in Paths
           /\ \A z \in Paths : z # q \/ t[q].kind = "dir" => u[z] = t[z]
           /\ \E m \in p.cargo : p.dest \o m.name = q /\ Same(m, u[q])
<1>1. PICK m : m = CHOOSE x \in p.cargo : p.dest \o x.name = q
  OBVIOUS
<1>2. m \in p.cargo /\ p.dest \o m.name = q
  BY <1>1 DEF GoodProc, Carried
<1> DEFINE errs == OrElse(Way(t, q), IF q \notin Paths THEN { NoSpace }
                                     ELSE When(Dir(t, q) /\ m.kind # "dir", Exists))
           node == [New(m.kind, me, q) EXCEPT !.data = m.data, !.to = m.to, !.holds = m.holds]
           u == IF m.kind = "dir" /\ Dir(t, q) THEN t ELSE [t EXCEPT ![q] = node]
<1>3. Continue(t, p, q, me) = Step(p, q, t, errs, u)
  <2>1. Continue(t, p, q, me) = Unpack(t, p, q, me)
    BY Zenon DEF Continue
  <2> QED
    BY <1>1, <2>1, Zenon DEF Unpack
<1>4. errs = {} => q \in Paths /\ ~(Dir(t, q) /\ m.kind # "dir")
  <2>1. \A one, two : OrElse(one, two) = {} => two = {}
    BY DEF OrElse
  <2>2. errs = {} => (IF q \notin Paths THEN { NoSpace } ELSE When(Dir(t, q) /\ m.kind # "dir", Exists)) = {}
    BY <2>1, Zenon
  <2> HIDE DEF errs
  <2> QED
    BY <2>2 DEF When
<1>5. node.kind = m.kind /\ node.data = m.data /\ node.to = m.to /\ node.holds = m.holds
  BY DEF New, Absent
<1> HIDE DEF errs, node
<1>6. /\ Quiet(errs) /\ Quiet(p.errs)
      /\ Continue(t, p, q, me).tree = u /\ Continue(t, p, q, me).proc.left = p.left \ { q }
  <2> HIDE DEF u
  <2> QED
    BY <1>3, StepMeans
<1>7. q \in Paths /\ ~(Dir(t, q) /\ m.kind # "dir") /\ q # Root
  BY <1>4, <1>6, PathsArePaths DEF Quiet
<1>8. Dir(t, q) <=> t[q].kind = "dir"
  BY <1>7 DEF Dir
<1>9. \A z \in Paths : z # q \/ t[q].kind = "dir" => u[z] = t[z]
  BY <1>7, <1>8 DEF GoodTree
<1>10. Same(m, u[q])
  <2>1. CASE m.kind = "dir" /\ Dir(t, q)
    BY <1>8, <2>1 DEF Same
  <2>2. CASE ~(m.kind = "dir" /\ Dir(t, q))
    <3>1. u[q] = node
      BY <1>7, <2>2 DEF GoodTree
    <3> QED
      BY <1>5, <3>1 DEF Same
  <2> QED
    BY <2>1, <2>2
<1> HIDE DEF u
<1> QED
  BY <1>2, <1>6, <1>7, <1>9, <1>10

LEMMA NameAlone ==
    ASSUME NEW p, GoodProc(p), NEW m \in p.cargo, NEW n \in p.cargo,
           p.dest \o m.name = p.dest \o n.name
    PROVE  m.name = n.name
<1>1. p.dest \in Path /\ m.name \in Path /\ n.name \in Path
  BY Held DEF GoodProc, GoodMember
<1>2. \A S : \A s, u, v \in Seq(S) : s \o u = s \o v => u = v
  BY ConcatSimplifications
<1> QED
  BY <1>1, <1>2 DEF Path

LEMMA UnpackingGoesOn ==
    ASSUME NEW t, GoodTree(t), NEW p, GoodProc(p), p.ask.op = "extract", NEW q \in p.left, NEW me,
           Quiet(Continue(t, p, q, me).proc.errs), HasUnpacked(t, p)
    PROVE  \A p2 : LET r == Continue(t, p, q, me) IN
              p2.ask = p.ask /\ p2.dest = p.dest /\ p2.cargo = p.cargo /\ p2.left = r.proc.left
                => HasUnpacked(r.tree, p2)
<1>1. PICK u, m : /\ u = Continue(t, p, q, me).tree
                  /\ Continue(t, p, q, me).proc.left = p.left \ { q } /\ q \in Paths
                  /\ \A z \in Paths : z # q \/ t[q].kind = "dir" => u[z] = t[z]
                  /\ m \in p.cargo /\ p.dest \o m.name = q /\ Same(m, u[q])
  BY Unpacks
<1>2. PICK a, held : a = p.ask /\ held = p.cargo
  OBVIOUS
<1> DEFINE at(n) == a.to \o n.name
<1>3. a.path \in Paths /\ p.dest = a.to /\ Way(t, a.path) = {}
  BY <1>2, AskOfProc DEF HasUnpacked
<1>4. m \in held /\ at(m) = q
  BY <1>1, <1>2, <1>3
<1>5. Way(u, a.path) = {}
  <2>1. Above(a.path) \subseteq Paths
    BY <1>3, AboveMeans
  <2> QED
    BY <1>1, <1>3, <2>1, WayStays
<1>6. ASSUME { a.path, Real(u, a.path) } \cap { at(n) : n \in held } = {}
      PROVE  u[Real(u, a.path)].holds = held
  <2>1. a.path # q /\ Real(u, a.path) # q
    BY <1>4, <1>6
  <2>2. Real(u, a.path) = Real(t, a.path)
    <3>1. u[a.path] = t[a.path]
      BY <1>1, <1>3, <2>1
    <3> QED
      BY <1>3, <1>5, <3>1, RealMeans
  <2>3. t[Real(t, a.path)].holds = held
    <3>1. { a.path, Real(t, a.path) } \cap { at(n) : n \in held } = {}
      BY <1>6, <2>2
    <3> QED
      BY <1>2, <3>1 DEF HasUnpacked
  <2>4. u[Real(t, a.path)] = t[Real(t, a.path)]
    BY <1>1, <1>3, <2>1, <2>2, RealPath
  <2> QED
    BY <2>2, <2>3, <2>4
<1>7. ASSUME \A n1, n2 \in held : n1.name = n2.name => n1 = n2, NEW n \in held
      PROVE  at(n) \in p.left \ { q } \/ (at(n) \in Paths /\ Same(n, u[at(n)]))
  <2>1. CASE at(n) = q
    <3>1. n.name = m.name
      <4>1. n \in p.cargo /\ m \in p.cargo /\ p.dest \o n.name = p.dest \o m.name
        BY <1>1, <1>2, <1>3, <1>7, <2>1
      <4> QED
        BY <4>1, NameAlone
    <3>2. n = m
      BY <1>4, <1>7, <3>1
    <3> QED
      BY <1>1, <2>1, <3>2
  <2>2. CASE at(n) # q
    <3>1. at(n) \in p.left \/ (at(n) \in Paths /\ Same(n, t[at(n)]))
      BY <1>2, <1>7 DEF HasUnpacked
    <3> QED
      BY <1>1, <2>2, <3>1
  <2> QED
    BY <2>1, <2>2
<1> HIDE DEF at
<1>8. ASSUME NEW p2, p2.ask = a, p2.dest = a.to, p2.cargo = held, p2.left = p.left \ { q }
      PROVE  HasUnpacked(u, p2)
  <2>1. \A n : p2.ask.to \o n.name = at(n)
    BY <1>8 DEF at
  <2>2. p2.dest = p2.ask.to /\ Way(u, p2.ask.path) = {}
    BY <1>5, <1>8
  <2>3. { p2.ask.path, Real(u, p2.ask.path) } \cap { at(n) : n \in p2.cargo } = {}
          => u[Real(u, p2.ask.path)].holds = p2.cargo
    BY <1>6, <1>8
  <2>4. (\A n1, n2 \in p2.cargo : n1.name = n2.name => n1 = n2)
          => \A n \in p2.cargo : at(n) \in p2.left \/ (at(n) \in Paths /\ Same(n, u[at(n)]))
    BY <1>7, <1>8
  <2> QED
    BY <2>1, <2>2, <2>3, <2>4 DEF HasUnpacked
<1> QED
  BY <1>1, <1>2, <1>3, <1>8

\* What a process of each of these has done so far.
HalfDone(t, p) ==
    /\ p.ask.op = "chmod" => HasSet(t, p)
    /\ p.ask.op = "mkdir" => HasMade(t, p)
    /\ p.ask.op = "symlink" => HasLinked(t, p)
    /\ p.ask.op = "rm" => HasRemoved(t, p)
    /\ p.ask.op = "upload" => HasWritten(t, p)
    /\ p.ask.op = "compress" => HasPacked(t, p)
    /\ p.ask.op = "extract" => HasUnpacked(t, p)

\* What is left to a process, of a command that begins or goes on.
Starts(p, a, r) ==
    /\ p.ask = a /\ p.left = r.left /\ p.at = 0
    /\ p.fd = r.fd /\ p.dest = r.dest /\ p.cargo = r.cargo

Follows(p2, p, r) ==
    /\ p2.ask = p.ask /\ p2.left = r.left /\ p2.at = r.at
    /\ p2.fd = p.fd /\ p2.dest = p.dest /\ p2.cargo = p.cargo

LEMMA BeginDoes ==
    ASSUME NEW t, GoodTree(t), NEW a \in AskTypes, NEW me, Quiet(Begin(t, a, me).errs)
    PROVE  \A p : Starts(p, a, Begin(t, a, me)) => HalfDone(Begin(t, a, me).tree, p)
<1>1. a.op = "chmod" => \A p : Starts(p, a, Begin(t, a, me)) => HasSet(Begin(t, a, me).tree, p)
  BY BeginSets DEF Starts
<1>2. a.op = "mkdir" => \A p : Starts(p, a, Begin(t, a, me)) => HasMade(Begin(t, a, me).tree, p)
  BY BeginMakes DEF Starts
<1>3. a.op = "symlink" => \A p : Starts(p, a, Begin(t, a, me)) => HasLinked(Begin(t, a, me).tree, p)
  BY BeginLinks DEF Starts
<1>4. a.op = "rm" => \A p : Starts(p, a, Begin(t, a, me)) => HasRemoved(Begin(t, a, me).tree, p)
  BY BeginRemoves DEF Starts
<1>5. a.op = "upload" => \A p : Starts(p, a, Begin(t, a, me)) => HasWritten(Begin(t, a, me).tree, p)
  BY BeginWrites DEF Starts
<1>6. a.op = "compress" => \A p : Starts(p, a, Begin(t, a, me)) => HasPacked(Begin(t, a, me).tree, p)
  BY BeginPacks DEF Starts
<1>7. a.op = "extract" => \A p : Starts(p, a, Begin(t, a, me)) => HasUnpacked(Begin(t, a, me).tree, p)
  BY BeginUnpacks DEF Starts
<1>8. \A p : Starts(p, a, Begin(t, a, me)) => p.ask = a
  BY DEF Starts
<1>9. \A p : Starts(p, a, Begin(t, a, me)) => HalfDone(Begin(t, a, me).tree, p)
  BY <1>1, <1>2, <1>3, <1>4, <1>5, <1>6, <1>7, <1>8, Zenon DEF HalfDone
<1> QED
  BY <1>9

LEMMA ContinueDoes ==
    ASSUME NEW t, GoodTree(t), NEW p, GoodProc(p), CanGoOn(p), p.ask.op \in FileOperations,
           NEW q \in p.left, NEW me,
           Quiet(Continue(t, p, q, me).proc.errs), Quiet(p.errs) => HalfDone(t, p)
    PROVE  \A p2 : Follows(p2, p, Continue(t, p, q, me).proc) => HalfDone(Continue(t, p, q, me).tree, p2)
<1>1. p.ask.op \in Listers => Quiet(p.errs)
  BY ListingKeeps
<1>2. p.ask.op \in Listers =>
        \A p2 : Follows(p2, p, Continue(t, p, q, me).proc) =>
           /\ HasSet(t, p) => HasSet(Continue(t, p, q, me).tree, p2)
           /\ HasMade(t, p) => HasMade(Continue(t, p, q, me).tree, p2)
           /\ HasLinked(t, p) => HasLinked(Continue(t, p, q, me).tree, p2)
  BY ListingDone DEF Follows
<1>3. ASSUME p.ask.op = "rm"
      PROVE  /\ Quiet(p.errs)
             /\ HasRemoved(t, p) => \A p2 : Follows(p2, p, Continue(t, p, q, me).proc) => HasRemoved(Continue(t, p, q, me).tree, p2)
  <2>1. Quiet(p.errs)
    <3>1. PICK errs, t2 : Continue(t, p, q, me) = Step(p, q, t, errs, t2)
      <4>1. Continue(t, p, q, me) = RmEntry(t, p, q)
        BY <1>3, Zenon DEF Continue
      <4> QED
        BY <4>1 DEF RmEntry
    <3> QED
      BY <3>1, StepMeans
  <2> QED
    BY <1>3, <2>1, RemovalGoesOn DEF Follows
<1>4. ASSUME p.ask.op = "upload"
      PROVE  /\ Quiet(p.errs)
             /\ HasWritten(t, p) => \A p2 : Follows(p2, p, Continue(t, p, q, me).proc) => HasWritten(Continue(t, p, q, me).tree, p2)
  <2>1. Continue(t, p, q, me).proc.errs = p.errs
    <3>1. p.ask.op \in Light
      BY <1>4 DEF Light, FileOperations
    <3>2. PICK r : r = Continue(t, p, q, me)
      OBVIOUS
    <3>3. r.proc.errs = p.errs
      BY <1>4, <3>1, <3>2, ContinueLight
    <3> QED
      BY <3>2, <3>3
  <2> QED
    BY <1>4, <2>1, WritingGoesOn DEF Quiet, Follows
<1>5. ASSUME p.ask.op = "compress"
      PROVE  /\ Quiet(p.errs)
             /\ HasPacked(t, p) => \A p2 : Follows(p2, p, Continue(t, p, q, me).proc) => HasPacked(Continue(t, p, q, me).tree, p2)
  BY <1>5, MemberAdded, PackingGoesOn DEF Follows
<1>6. ASSUME p.ask.op = "extract"
      PROVE  /\ Quiet(p.errs)
             /\ HasUnpacked(t, p) => \A p2 : Follows(p2, p, Continue(t, p, q, me).proc) => HasUnpacked(Continue(t, p, q, me).tree, p2)
  <2>1. Quiet(p.errs)
    BY <1>6, Unpacks
  <2> QED
    BY <1>6, <2>1, UnpackingGoesOn DEF Follows
<1>7. \A p2 : Follows(p2, p, Continue(t, p, q, me).proc) => p2.ask = p.ask
  BY DEF Follows
<1>8. "chmod" \in Listers /\ "mkdir" \in Listers /\ "symlink" \in Listers
  BY DEF Listers
<1>9. \A p2 : Follows(p2, p, Continue(t, p, q, me).proc) => HalfDone(Continue(t, p, q, me).tree, p2)
  BY <1>1, <1>2, <1>3, <1>4, <1>5, <1>6, <1>7, <1>8, Zenon DEF HalfDone
<1> QED
  BY <1>9

LEMMA EndsDone ==
    ASSUME NEW t, GoodTree(t), NEW p, GoodProc(p), p.ask.op \in FileOperations,
           p.left = {}, HalfDone(t, p)
    PROVE  Done(Closed(t, p), p.ask, p.cargo)
<1>1. p.ask.op # "compress" => Closed(t, p) = t
  BY ClosedOther
<1>2. CASE p.ask.op = "chmod"
  <2>1. Reach(t, p.ask.path) = {} /\ t[Real(t, p.ask.path)].open = (p.ask.word = "rw")
    BY <1>2 DEF HalfDone, HasSet
  <2> QED
    BY <1>1, <1>2, <2>1, Zenon DEF Done
<1>3. CASE p.ask.op = "mkdir"
  <2>1. Dir(t, p.ask.path)
    BY <1>3 DEF HalfDone, HasMade
  <2> QED
    BY <1>1, <1>3, <2>1, Zenon DEF Done
<1>4. CASE p.ask.op = "symlink"
  <2>1. \E q \in Paths : /\ q \in { p.ask.to, Append(Real(t, p.ask.to), Last(p.ask.path)) }
                         /\ t[q].kind = "link"
                         /\ t[q].to = p.ask.path
    BY <1>4 DEF HalfDone, HasLinked
  <2> QED
    BY <1>1, <1>4, <2>1, Zenon DEF Done
<1>5. CASE p.ask.op = "rm"
  <2>1. Under(t, p.ask.path) = {}
    BY <1>5 DEF HalfDone, HasRemoved
  <2> QED
    BY <1>1, <1>5, <2>1, Zenon DEF Done
<1>6. CASE p.ask.op = "upload"
  <2>1. t[Real(t, p.ask.path)].data = p.ask.data
    BY <1>6, AllWritten DEF HalfDone
  <2> QED
    BY <1>1, <1>6, <2>1, Zenon DEF Done
<1>7. CASE p.ask.op = "compress"
  <2>1. Packed(Closed(t, p), p.ask)
    BY <1>7, AllPacked DEF HalfDone
  <2> QED
    BY <1>7, <2>1, Zenon DEF Done
<1>8. CASE p.ask.op = "extract"
  <2>1. HasUnpacked(t, p)
    BY <1>8 DEF HalfDone
  <2>2. Unpacked(t, p.ask, p.cargo)
    BY <2>1 DEF HasUnpacked, Unpacked
  <2> QED
    BY <1>1, <1>8, <2>2, Zenon DEF Done
<1>9. CASE p.ask.op \notin { "chmod", "mkdir", "symlink", "rm", "upload", "compress", "extract" }
  <2>1. p.ask.op \notin { "cp", "mv" }
    BY DEF FileOperations
  <2> QED
    BY <1>9, <2>1, Zenon DEF Done
<1> QED
  BY <1>2, <1>3, <1>4, <1>5, <1>6, <1>7, <1>8, <1>9

\* A request's process without messages has done what is no longer left, and all of it
\* once it is over, unless another actor changed the tree.
Effective(r) ==
    LET p == proc[r] IN
    p.state \in { "going", "over" } /\ Quiet(p.errs) /\ ~marks[r].disturbed =>
       /\ p.state = "going" => HalfDone(tree, p)
       /\ p.state = "over" => Done(tree, p.ask, p.cargo)

\* It depends on these parts of the process only.
LEMMA HalfDoneSame ==
    ASSUME NEW t, NEW p, HalfDone(t, p), NEW p2,
           p2.ask = p.ask, p2.left = p.left, p2.at = p.at, p2.fd = p.fd, p2.dest = p.dest, p2.cargo = p.cargo
    PROVE  HalfDone(t, p2)
<1>0. p2.ask = p.ask /\ p2.left = p.left /\ p2.at = p.at /\ p2.fd = p.fd /\ p2.dest = p.dest /\ p2.cargo = p.cargo
  OBVIOUS
<1>1. /\ HasSet(t, p) => HasSet(t, p2)
      /\ HasMade(t, p) => HasMade(t, p2)
      /\ HasLinked(t, p) => HasLinked(t, p2)
      /\ HasRemoved(t, p) => HasRemoved(t, p2)
  BY <1>0, Zenon DEF HasSet, HasMade, HasLinked, HasRemoved
<1>2. HasWritten(t, p) => HasWritten(t, p2)
  BY <1>0 DEF HasWritten
<1>3. HasPacked(t, p) => HasPacked(t, p2)
  <2>1. \A q : Member(t, p2, q) = Member(t, p, q) /\ Source(t, p2, q) = Source(t, p, q)
    BY <1>0 DEF Member, Source
  <2> QED
    BY <1>0, <2>1 DEF HasPacked
<1>4. HasUnpacked(t, p) => HasUnpacked(t, p2)
  BY <1>0, Zenon DEF HasUnpacked
<1> QED
  BY <1>0, <1>1, <1>2, <1>3, <1>4, Zenon DEF HalfDone

LEMMA DoesAStep ==
    ASSUME TypeInv, NEW me \in Actors, proc[me].ask.op \in FileOperations,
           NEW r, GoodTree(r), NEW p, GoodProc(p), p.ask = proc[me].ask, Moves(me, r, p),
           Quiet(p.errs), HalfDone(r, p)
    PROVE  /\ proc'[me].state = "going" => HalfDone(tree, proc[me])'
           /\ proc'[me].state = "over" => Done(tree, proc[me].ask, proc[me].cargo)'
<1>1. /\ tree' = (IF p.left = {} THEN Closed(r, p) ELSE r)
      /\ proc'[me].state = IF p.left = {} THEN "over" ELSE "going"
  BY MovesOn
<1>2. PICK p2 : p2 = proc'[me]
  OBVIOUS
<1>3. p2.ask = p.ask /\ p2.left = p.left /\ p2.at = p.at /\ p2.fd = p.fd /\ p2.dest = p.dest /\ p2.cargo = p.cargo
  BY <1>2 DEF Moves, TypeInv, GoodProc, Fields
<1>4. ASSUME NEW t, HalfDone(t, p) PROVE HalfDone(t, p2)
  BY <1>3, <1>4, HalfDoneSame
<1>5. CASE p.left = {}
  <2>1. Done(Closed(r, p), p.ask, p.cargo)
    BY <1>5, EndsDone
  <2> QED
    BY <1>1, <1>2, <1>3, <1>5, <2>1
<1>6. CASE p.left # {}
  <2>1. HalfDone(r, p2)
    BY <1>4
  <2> QED
    BY <1>1, <1>2, <1>6, <2>1
<1> QED
  BY <1>5, <1>6

LEMMA RunsDo ==
    ASSUME TypeInv, ControlInv, MarksInv, NEW me \in Requests, Runs(me), Effective(me)
    PROVE  Effective(me)'
<1>0. me \in Actors
  BY Partition
<1>1. PICK r, p :
             /\ GoodTree(r) /\ GoodProc(p) /\ p.ask = proc[me].ask /\ Moves(me, r, p)
             /\ \/ /\ proc[me].state = "ready"
                   /\ r = Begin(tree, proc[me].ask, me).tree
                   /\ p = Begun(me, Begin(tree, proc[me].ask, me))
                \/ \E q \in proc[me].left :
                     /\ proc[me].state = "going" /\ CanGoOn(proc[me]) /\ GoodProc(proc[me])
                     /\ q \in NextEntries(proc[me])
                     /\ r = Continue(tree, proc[me], q, me).tree
                     /\ p = Continue(tree, proc[me], q, me).proc
                     /\ GoodStep(Continue(tree, proc[me], q, me), proc[me])
  BY <1>0, RunIsStep
<1>2. proc[me].state \in { "ready", "going" } /\ proc[me].ask.op \in FileOperations
  <2>1. proc[me].state \in { "ready", "going" }
    BY <1>0, RunsKeep
  <2>2. RequestInv(me)
    BY DEF ControlInv
  <2> QED
    BY <2>1, <2>2 DEF RequestInv
<1>3. proc'[me].errs = p.errs
  BY <1>0, <1>1 DEF Moves, TypeInv, GoodProc, Fields
<1>4. marks'[me].disturbed = marks[me].disturbed
  BY <1>0, <1>1, MovesMark
<1>5. ASSUME Quiet(p.errs), ~marks[me].disturbed PROVE HalfDone(r, p)
  <2>0. GoodTree(tree) /\ GoodActor(proc[me])
    BY <1>0 DEF TypeInv
  <2>1. CASE /\ proc[me].state = "ready"
             /\ r = Begin(tree, proc[me].ask, me).tree
             /\ p = Begun(me, Begin(tree, proc[me].ask, me))
    <3>1. GoodProc(proc[me]) /\ Fresh(proc[me])
      BY <2>0, <2>1 DEF GoodActor
    <3>2. PICK d : d = Begin(tree, proc[me].ask, me)
      OBVIOUS
    <3>3. /\ p.ask = proc[me].ask /\ p.left = d.left /\ p.at = 0
          /\ p.fd = d.fd /\ p.dest = d.dest /\ p.cargo = d.cargo /\ p.errs = d.errs
      BY <2>1, <3>1, <3>2 DEF Begun, Fresh, Fields
    <3>4. Quiet(Begin(tree, proc[me].ask, me).errs) /\ proc[me].ask \in AskTypes
      BY <1>5, <3>1, <3>2, <3>3 DEF GoodProc
    <3>5. Starts(p, proc[me].ask, Begin(tree, proc[me].ask, me))
      BY <3>2, <3>3 DEF Starts
    <3> QED
      BY <2>0, <2>1, <3>4, <3>5, BeginDoes
  <2>2. ASSUME NEW q \in proc[me].left,
               proc[me].state = "going", CanGoOn(proc[me]), GoodProc(proc[me]),
               r = Continue(tree, proc[me], q, me).tree,
               p = Continue(tree, proc[me], q, me).proc,
               GoodStep(Continue(tree, proc[me], q, me), proc[me])
        PROVE  HalfDone(r, p)
    <3>1. Quiet(proc[me].errs) => HalfDone(tree, proc[me])
      BY <1>5, <2>2 DEF Effective
    <3>2. Quiet(Continue(tree, proc[me], q, me).proc.errs)
      BY <1>5, <2>2
    <3>3. \A p2 : Follows(p2, proc[me], Continue(tree, proc[me], q, me).proc)
                   => HalfDone(Continue(tree, proc[me], q, me).tree, p2)
      BY <1>2, <2>0, <2>2, <3>1, <3>2, ContinueDoes
    <3>4. Follows(p, proc[me], Continue(tree, proc[me], q, me).proc)
      BY <2>2 DEF GoodStep, Follows
    <3> QED
      BY <2>2, <3>3, <3>4
  <2> QED
    BY <1>1, <2>1, <2>2
<1>6. Quiet(p.errs) /\ ~marks[me].disturbed =>
        /\ proc'[me].state = "going" => HalfDone(tree, proc[me])'
        /\ proc'[me].state = "over" => Done(tree, proc[me].ask, proc[me].cargo)'
  BY <1>0, <1>1, <1>2, <1>5, DoesAStep
<1> QED
  BY <1>3, <1>4, <1>6 DEF Effective

LEMMA EffectiveStep ==
    ASSUME TypeInv, ControlInv, MarksInv, [Next]_vars, NEW b \in Requests, Effective(b)
    PROVE  Effective(b)'
<1>0. b \in Actors
  BY Partition
<1>1. CASE Runs(b)
  BY <1>1, RunsDo
<1>2. ASSUME NEW me \in Actors, Runs(me), me # b PROVE Effective(b)'
  <2>1. PICK r, p : Moves(me, r, p)
    BY <1>2, RunIsStep
  <2>2. proc'[b] = proc[b]
    BY <1>0, <1>2, RunsKeep
  <2>3. /\ tree' = tree => marks'[b] = marks[b]
        /\ tree' # tree =>
             (marks'[b].disturbed <=> marks[b].disturbed \/ proc[b].state \notin { "none", "ready" })
    BY <1>0, <1>2, <2>1, MovesMark
  <2>4. CASE tree' = tree
    BY <2>2, <2>3, <2>4 DEF Effective
  <2>5. CASE tree' # tree
    BY <2>2, <2>3, <2>5 DEF Effective
  <2> QED
    BY <2>4, <2>5
<1>3. CASE ~ \E me \in Actors : Runs(me)
  <2>1. UNCHANGED << tree, marks >>
    BY <1>3, OnlyRunsChange
  <2>2. CASE proc'[b] = proc[b]
    BY <2>1, <2>2 DEF Effective
  <2>3. CASE proc'[b].state \in { "none", "ready", "dead" }
    BY <2>3 DEF Effective
  <2>4. CASE WriteStops(b)
    BY <2>4 DEF Effective, WriteStops, Quiet
  <2> QED
    BY <1>0, <1>3, <2>2, <2>3, <2>4, ActorSteps
<1> QED
  BY <1>1, <1>2, <1>3

\* Success is what is made of a process that is over, without messages.
ToldWhenOver(r) == Succeeded(r) => proc[r].state = "over" /\ Quiet(proc[r].errs)

LEMMA ToldWhenOverStep ==
    ASSUME TypeInv, ControlInv, [Next]_vars, NEW r \in Requests, ToldWhenOver(r)
    PROVE  ToldWhenOver(r)'
<1>0. r \in Actors
  BY Partition
<1>1. CASE answer'[r] = answer[r]
  <2>1. CASE ~Succeeded(r)
    BY <1>1, <2>1 DEF ToldWhenOver, Succeeded
  <2>2. CASE Succeeded(r)
    <3>1. proc[r].state = "over"
      BY <2>2 DEF ToldWhenOver
    <3>2. ~Runs(r)
      BY <1>0, <3>1, RunsKeep
    <3>3. proc'[r] = proc[r]
      BY <1>0, <3>1, <3>2, ActorSteps DEF WriteStops
    <3> QED
      BY <1>1, <3>3 DEF ToldWhenOver, Succeeded
  <2> QED
    BY <2>1, <2>2
<1>2. ASSUME NEW code, answer'[r] = Coded(code), code \notin 200 .. 299 PROVE ToldWhenOver(r)'
  BY <1>2 DEF ToldWhenOver, Succeeded, Coded, NoAnswer
<1>3. CASE proc'[r] = proc[r] /\ proc[r].state = "over" /\ proc[r].errs = {}
  BY <1>3 DEF ToldWhenOver, Quiet
<1> DEFINE Coding == \E code \in { Waiting, 400, 403, 404, 408, 413, 424, 500 } : answer'[r] = Coded(code)
           IsOver == proc'[r] = proc[r] /\ proc[r].state = "over" /\ proc[r].errs = {}
<1>4. ASSUME Coding PROVE ToldWhenOver(r)'
  <2>1. PICK code \in { Waiting, 400, 403, 404, 408, 413, 424, 500 } : answer'[r] = Coded(code)
    BY <1>4
  <2>2. code \notin 200 .. 299
    BY <2>1 DEF Waiting
  <2> QED
    BY <1>2, <2>1, <2>2
<1>5. answer'[r] = answer[r] \/ Coding \/ IsOver
  BY RequestSteps
<1> HIDE DEF Coding
<1> QED
  BY <1>1, <1>3, <1>4, <1>5

\* A request that is told of success finds its effect complete in the tree: the command's
\* status is 0 only after the whole of it is done (router.py, commands/*.py), unless
\* another actor changed the tree since it began.
THEOREM SuccessIsComplete == Spec => []SuccessIsDone
<1> DEFINE Does == MarksInv /\ \A r \in Requests : Effective(r) /\ ToldWhenOver(r)
<1>1. Init => TypeInv /\ ControlInv /\ Does
  <2> SUFFICES ASSUME Init PROVE Does
    BY InitTyped
  <2>1. MarksInv
    BY DEF Init, FilesInit, MarksInv
  <2>2. ASSUME NEW r \in Requests PROVE Effective(r) /\ ToldWhenOver(r)
    <3>1. r \in Actors /\ proc[r].state = "none"
      BY Partition DEF Init, FilesInit, Idle
    <3>2. ControlInv
      BY InitTyped
    <3>3. answer[r].code \notin 200 .. 299
      BY <3>1, <3>2 DEF ControlInv, RequestInv, None
    <3> QED
      BY <3>1, <3>3 DEF Effective, ToldWhenOver, Succeeded
  <2> QED
    BY <2>1, <2>2
<1>2. TypeInv /\ ControlInv /\ Does /\ [Next]_vars => (TypeInv /\ ControlInv /\ Does)'
  <2> SUFFICES ASSUME TypeInv, ControlInv, Does, [Next]_vars PROVE (TypeInv /\ ControlInv /\ Does)'
    OBVIOUS
  <2>1. (TypeInv /\ ControlInv /\ MarksInv)'
    BY TypedStep, MarksStep
  <2>2. ASSUME NEW r \in Requests PROVE Effective(r)' /\ ToldWhenOver(r)'
    <3>1. Effective(r) /\ ToldWhenOver(r) /\ MarksInv
      OBVIOUS
    <3>2. Effective(r)'
      BY <3>1, EffectiveStep
    <3>3. ToldWhenOver(r)'
      BY <3>1, ToldWhenOverStep
    <3> QED
      BY <3>2, <3>3
  <2> QED
    BY <2>1, <2>2
<1>3. TypeInv /\ ControlInv /\ Does => SuccessIsDone
  BY Zenon DEF SuccessIsDone, Effective, ToldWhenOver, Ask
<1> QED
  BY <1>1, <1>2, <1>3, PTL DEF Spec

LEMMA NoSpaceIsError == ErrorCode({ NoSpace }) = 500
<1>1. NoSpace \notin { Missing, Denied, NotPermitted, Exists, BadUser }
  BY DEF NoSpace, Missing, Denied, NotPermitted, Exists, BadUser
<1>2. Missing \notin { NoSpace } /\ { Denied, NotPermitted } \cap { NoSpace } = {}
      /\ { Exists, BadUser } \cap { NoSpace } = {}
  BY <1>1
<1> QED
  BY <1>2 DEF ErrorCode

\* What an upload has brought so far.
Begins(t, a) == IsPrefix(t[Real(t, a.path)].data, a.data)

LEMMA WrittenBegins ==
    ASSUME NEW t, NEW p, GoodProc(p), HasWritten(t, p)
    PROVE  Begins(t, p.ask)
<1>1. PICK s \in Seq(Nat) : s = p.ask.data
  BY DEF GoodProc, AskTypes
<1>2. PICK n \in 0 .. Len(s) : n = p.at
  BY <1>1 DEF GoodProc
<1>3. t[Real(t, p.ask.path)].data = SubSeq(s, 1, n)
  BY <1>1, <1>2 DEF HasWritten
<1>4. SubSeq(s, 1, n) \in Seq(Nat) /\ Len(SubSeq(s, 1, n)) = n /\ n <= Len(s)
  <2>1. n \in Int /\ n >= 0 /\ n <= Len(s) /\ Len(s) \in Nat
    BY <1>1, <1>2
  <2>2. SubSeq(s, 1, n) \in Seq(Nat) /\ Len(SubSeq(s, 1, n)) = IF 1 <= n THEN n - 1 + 1 ELSE 0
    BY <2>1, Part
  <2> QED
    BY <2>1, <2>2
<1>5. SubSeq(s, 1, n) = SubSeq(s, 1, Len(SubSeq(s, 1, n)))
  BY <1>4
<1>6. IsPrefix(SubSeq(s, 1, n), s)
  BY <1>4, <1>5 DEF IsPrefix
<1> QED
  BY <1>1, <1>3, <1>6 DEF Begins

\* What is left in the tree by a process that was killed before it was over, and by
\* an upload that could not write, if it was alone.
Leaves(r) ==
    marks[r].changed /\ ~marks[r].disturbed =>
       /\ proc[r].state = "dead" /\ Quiet(proc[r].errs) => HalfDone(tree, proc[r])
       /\ Short(r) => Begins(tree, proc[r].ask)

CleanInv ==
    /\ MarksInv
    /\ \A r \in Requests : (Clean(r) \/ Short(r)) /\ Told(r) /\ Effective(r) /\ Leaves(r)

\* An upload that goes on has no messages, and one that ends by itself neither.
LEMMA RunsAreNotShort ==
    ASSUME TypeInv, ControlInv, MarksInv, Rooted(tree), NEW me \in Actors, Runs(me),
           Clean(me) \/ Short(me)
    PROVE  Short(me)' => ~marks[me].changed' \/ marks[me].disturbed'
<1>1. ~Short(me)
  BY RunsKeep DEF Short
<1>2. Clean(me)'
  BY <1>1, RunsClean
<1> QED
  BY <1>2 DEF Clean, Short, Light, FileOperations

LEMMA LeavesStep ==
    ASSUME TypeInv, ControlInv, MarksInv, Rooted(tree), [Next]_vars, NEW b \in Requests,
           Clean(b) \/ Short(b), Effective(b), Leaves(b)
    PROVE  Leaves(b)'
<1>0. b \in Actors
  BY Partition
<1>1. CASE Runs(b)
  <2>1. proc'[b].state # "dead"
    BY <1>0, <1>1, RunsKeep
  <2>2. Short(b)' => ~marks[b].changed' \/ marks[b].disturbed'
    BY <1>0, <1>1, RunsAreNotShort
  <2> QED
    BY <2>1, <2>2 DEF Leaves
<1>2. ASSUME NEW me \in Actors, Runs(me), me # b PROVE Leaves(b)'
  <2>1. PICK r, p : Moves(me, r, p)
    BY <1>2, RunIsStep
  <2>2. proc'[b] = proc[b]
    BY <1>0, <1>2, RunsKeep
  <2>3. /\ tree' = tree => marks'[b] = marks[b]
        /\ tree' # tree =>
             (marks'[b].disturbed <=> marks[b].disturbed \/ proc[b].state \notin { "none", "ready" })
    BY <1>0, <1>2, <2>1, MovesMark
  <2>4. CASE tree' = tree
    BY <2>2, <2>3, <2>4 DEF Leaves, Short
  <2>5. CASE tree' # tree
    BY <2>2, <2>3, <2>5 DEF Leaves, Short
  <2> QED
    BY <2>4, <2>5
<1>3. CASE ~ \E me \in Actors : Runs(me)
  <2>1. UNCHANGED << tree, marks >>
    BY <1>3, OnlyRunsChange
  <2>2. CASE proc'[b] = proc[b]
    BY <2>1, <2>2 DEF Leaves, Short
  <2>3. CASE proc'[b].state \in { "none", "ready" }
    BY <2>3 DEF Leaves, Short
  <2>4. CASE /\ proc'[b] = [proc[b] EXCEPT !.state = "dead"] /\ proc'[b].state = "dead"
             /\ proc[b].state \in { "ready", "going" }
    <3>1. CASE proc[b].state = "ready"
      BY <2>1, <2>4, <3>1 DEF Leaves, Clean, Short
    <3>2. CASE proc[b].state = "going"
      <4>1. PICK p : p = proc'[b]
        OBVIOUS
      <4>2. GoodProc(proc[b])
        BY <1>0, <3>2 DEF TypeInv, GoodActor
      <4>3. /\ p.ask = proc[b].ask /\ p.left = proc[b].left /\ p.at = proc[b].at /\ p.fd = proc[b].fd
            /\ p.dest = proc[b].dest /\ p.cargo = proc[b].cargo /\ p.errs = proc[b].errs
        BY <2>4, <4>1, <4>2 DEF GoodProc, Fields
      <4>4. Quiet(proc[b].errs) /\ ~marks[b].disturbed => HalfDone(tree, proc[b])
        BY <3>2 DEF Effective
      <4>5. Quiet(p.errs) /\ ~marks[b].disturbed => HalfDone(tree, p)
        BY <4>3, <4>4, HalfDoneSame
      <4> QED
        BY <2>1, <2>4, <4>1, <4>5 DEF Leaves, Short
    <3> QED
      BY <2>4, <3>1, <3>2
  <2>5. CASE WriteStops(b)
    <3>1. /\ proc[b].state = "going" /\ proc[b].ask.op = "upload"
          /\ proc'[b].ask = proc[b].ask /\ proc'[b].state = "over"
      BY <2>5 DEF WriteStops
    <3>2. Quiet(proc[b].errs)
      BY <3>1 DEF Clean, Short, Quiet
    <3>3. ~marks[b].disturbed => HasWritten(tree, proc[b])
      BY <3>1, <3>2 DEF Effective, HalfDone
    <3>4. GoodProc(proc[b])
      BY <1>0, <3>1 DEF TypeInv, GoodActor
    <3>5. ~marks[b].disturbed => Begins(tree, proc[b].ask)
      BY <3>3, <3>4, WrittenBegins
    <3>6. (Begins(tree, proc[b].ask))' <=> Begins(tree, proc[b].ask)
      BY <2>1, <3>1
    <3> QED
      BY <2>1, <3>1, <3>5, <3>6 DEF Leaves
  <2> QED
    BY <1>0, <1>3, <2>2, <2>3, <2>4, <2>5, ActorSteps
<1> QED
  BY <1>1, <1>2, <1>3

\* What has been done of a command that does all or nothing, once it was killed.
LEMMA KilledIsDone ==
    ASSUME NEW t, NEW p, HalfDone(t, p), p.ask.op \in Light \ { "upload" },
           \A q \in p.left : Find(t, q) = {}
    PROVE  Done(t, p.ask, p.cargo)
<1>1. CASE p.ask.op = "chmod"
  <2>1. HasSet(t, p)
    BY <1>1 DEF HalfDone
  <2>2. Reach(t, p.ask.path) = {} /\ t[Real(t, p.ask.path)].open = (p.ask.word = "rw")
    BY <2>1 DEF HasSet
  <2> QED
    BY <1>1, <2>2, Zenon DEF Done
<1>2. CASE p.ask.op = "mkdir"
  <2>1. Dir(t, p.ask.path)
    BY <1>2 DEF HalfDone, HasMade
  <2> QED
    BY <1>2, <2>1, Zenon DEF Done
<1>3. CASE p.ask.op = "symlink"
  <2>1. \E q \in Paths : /\ q \in { p.ask.to, Append(Real(t, p.ask.to), Last(p.ask.path)) }
                         /\ t[q].kind = "link"
                         /\ t[q].to = p.ask.path
    BY <1>3 DEF HalfDone, HasLinked
  <2> QED
    BY <1>3, <2>1, Zenon DEF Done
<1>4. CASE p.ask.op \notin { "chmod", "mkdir", "symlink" }
  <2>1. p.ask.op \notin { "chmod", "mkdir", "symlink", "rm", "upload", "compress", "extract", "cp", "mv" }
    BY <1>4 DEF Light, FileOperations
  <2> QED
    BY <2>1, Zenon DEF Done
<1> QED
  BY <1>1, <1>2, <1>3, <1>4

\* A request whose command reported an error (base_command_error_handling.py) changed
\* nothing, unless it is one of those that stop half way, or another actor interfered:
\* "X && ls" changes the tree only when nothing but the listing can fail after it, so
\* a change that is refused with 500, because its command was killed, is complete; an
\* upload that is cut short by its end or a full disk (base64_command.py) has brought
\* the first of its bytes and nothing else; and a chmod may hide its own path.
THEOREM RefusalsAreClean == Spec => []RefusedIsClean
<1>1. Init => TypeInv /\ ControlInv /\ Rooted(tree) /\ CleanInv
  <2> SUFFICES ASSUME Init PROVE TypeInv /\ ControlInv /\ Rooted(tree) /\ CleanInv
    OBVIOUS
  <2>1. MarksInv
    BY DEF Init, FilesInit, MarksInv
  <2>2. ASSUME NEW r \in Requests PROVE Clean(r) /\ Told(r) /\ Effective(r) /\ Leaves(r)
    <3>1. /\ r \in Actors /\ proc[r].state = "none" /\ ~marks[r].changed
      BY <2>2, Partition DEF Init, FilesInit, Idle
    <3> QED
      BY <3>1 DEF Clean, Told, Effective, Leaves
  <2> QED
    BY <2>1, <2>2, InitTyped, TreesAssumption DEF Init, FilesInit, CleanInv
<1>2. TypeInv /\ ControlInv /\ Rooted(tree) /\ CleanInv /\ [Next]_vars
        => (TypeInv /\ ControlInv /\ Rooted(tree) /\ CleanInv)'
  <2> SUFFICES ASSUME TypeInv, ControlInv, Rooted(tree), CleanInv, [Next]_vars
               PROVE  (TypeInv /\ ControlInv /\ Rooted(tree) /\ CleanInv)'
    OBVIOUS
  <2>1. (TypeInv /\ ControlInv /\ Rooted(tree))'
    BY TypedStep, RootedStep
  <2>2. MarksInv /\ MarksInv'
    BY MarksStep DEF CleanInv
  <2>3. ASSUME NEW r \in Requests
        PROVE  ((Clean(r) \/ Short(r)) /\ Told(r) /\ Effective(r) /\ Leaves(r))'
    <3>1. (Clean(r) \/ Short(r)) /\ Told(r) /\ Effective(r) /\ Leaves(r) /\ r \in Actors
      BY Partition DEF CleanInv
    <3>2. (Clean(r) \/ Short(r))'
      BY <2>2, <3>1, CleanStep
    <3>3. Told(r)'
      BY <3>1, ToldStep
    <3>4. Effective(r)'
      BY <2>2, <3>1, EffectiveStep
    <3>5. Leaves(r)'
      BY <2>2, <3>1, LeavesStep
    <3> QED
      BY <3>2, <3>3, <3>4, <3>5
  <2> QED
    BY <2>1, <2>2, <2>3 DEF CleanInv
<1>3. TypeInv /\ ControlInv /\ CleanInv => RefusedIsClean
  <2> DEFINE cut(r) == answer[r].code = 500 /\ Ask(r).op = "upload" /\ Begins(tree, Ask(r))
             full(r) == answer[r].code = 500 /\ proc[r].state = "dead" /\ Done(tree, Ask(r), proc[r].cargo)
             shut(r) == Ask(r).op = "chmod" /\ Way(tree, Ask(r).path) # {}
  <2> SUFFICES ASSUME TypeInv, ControlInv, CleanInv, NEW r \in Requests,
                      answer[r].code \in { 400, 403, 404, 500 },
                      Ask(r).op \notin { "rm", "compress", "extract" }, ~marks[r].disturbed,
                      marks[r].changed, ~shut(r)
               PROVE  cut(r) \/ full(r)
    BY DEF RefusedIsClean, Begins
  <2>1. (Clean(r) \/ Short(r)) /\ Told(r) /\ Leaves(r) /\ RequestInv(r)
    BY DEF CleanInv, ControlInv
  <2>2. /\ proc[r].state = "dead" \/ (proc[r].state = "over" /\ proc[r].errs # {})
        /\ answer[r].code = ErrorCode(proc[r].errs)
    BY <2>1 DEF Clean, Short, Told
  <2>3. proc[r].ask.op \in Light
    BY <2>1, <2>2 DEF RequestInv, Ask, Light
  <2>4. CASE Short(r)
    <3>1. ErrorCode(proc[r].errs) = 500
      BY <2>4, NoSpaceIsError DEF Short
    <3> QED
      BY <2>1, <2>2, <2>4, <3>1 DEF Short, Leaves, Ask
  <2>5. CASE ~Short(r)
    <3>1. /\ proc[r].errs = {}
          /\ proc[r].ask.op # "upload" => \A q \in proc[r].left : Find(tree, q) = {}
      BY <2>1, <2>2, <2>3, <2>5 DEF Clean, Ask
    <3>2. proc[r].state = "dead" /\ answer[r].code = 500
      BY <2>2, <3>1 DEF ErrorCode
    <3>3. HalfDone(tree, proc[r])
      BY <2>1, <3>1, <3>2 DEF Leaves, Quiet
    <3>4. CASE proc[r].ask.op = "upload"
      <4>1. GoodProc(proc[r])
        BY <3>2, Partition DEF TypeInv, GoodActor
      <4>2. HasWritten(tree, proc[r])
        BY <3>3, <3>4 DEF HalfDone
      <4> QED
        BY <3>2, <3>4, <4>1, <4>2, WrittenBegins DEF Ask
    <3>5. CASE proc[r].ask.op # "upload"
      BY <2>3, <3>1, <3>2, <3>3, <3>5, KilledIsDone DEF Ask
    <3> QED
      BY <3>4, <3>5
  <2> QED
    BY <2>4, <2>5
<1> QED
  BY <1>1, <1>2, <1>3, PTL DEF Spec

=============================================================================
