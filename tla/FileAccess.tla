----------------------------- MODULE FileAccess -----------------------------
(***************************************************************************)
(* Requests to the file endpoints (FileOps) and to the transfer endpoints, *)
(* with the jobs of these (FileJobs), on one tree of files, and what their *)
(* answers are worth to a user who has several of them at work.            *)
(***************************************************************************)
EXTENDS FileOps, FileJobs

CONSTANT AtMost   \* bound: so many requests are made in a behaviour

ASSUME AccessAssumption ==
    Actors = Requests \cup Jobs /\ Requests \cap Jobs = {} /\ AtMost \in Nat

vars == << fileVars, answer, jobVars >>

Made == { r \in Requests : answer[r].code # None } \cup { j \in Jobs : reply[j] # 0 }

Init ==
    /\ FilesInit
    /\ answer = [r \in Requests |-> NoAnswer]
    /\ reply = [j \in Jobs |-> 0]
    /\ job = [j \in Jobs |-> "none"]

Next ==
    /\ \/ \E r \in Requests : OpsNext(r) /\ UNCHANGED jobVars
       \/ \E j \in Jobs : JobsNext(j) /\ UNCHANGED answer
    /\ Cardinality(Made') <= AtMost

Spec == Init /\ [][Next]_vars

-----------------------------------------------------------------------------

Ask(a) == proc[a].ask

\* What each operation is for, as far as it can be read off the tree after it, and
\* off what tar has read from an archive.  A directory is what is in it.
Same(m, n) ==
    m.kind = n.kind /\ (m.kind # "dir" => m.data = n.data /\ m.to = n.to /\ m.holds = n.holds)

CopiedTo(t, a, at) ==
    \A q \in Under(t, a.path) :
        LET from == IF a.flag THEN Real(t, q) ELSE q
            to == at \o Relative(a.path, q)
        IN  to \in Paths /\ Same(t[to], t[from])

Packed(t, a) ==
    LET x == t[Real(t, a.to)]
    IN  /\ x.kind = "tar"
        /\ a.word = "" =>
             /\ { m.name : m \in x.holds } =
                    { Relative(Front(a.path), q) : q \in Under(t, a.path) \ { Real(t, a.to) } }
             /\ \A m \in x.holds :
                    LET q == Front(a.path) \o m.name
                    IN  Same(m, t[IF a.flag THEN Real(t, q) ELSE q])

\* An archive may hold a file that replaces it, or two members of one name.
Unpacked(t, a, held) ==
    LET at(m) == a.to \o m.name
        archive == { a.path, Real(t, a.path) }
    IN  /\ archive \cap { at(m) : m \in held } = {} => t[Real(t, a.path)].holds = held
        /\ (\A m, n \in held : m.name = n.name => m = n)
             => \A m \in held : at(m) \in Paths /\ Same(m, t[at(m)])

Done(t, a, held) ==
    CASE a.op = "chmod" -> Reach(t, a.path) = {} /\ t[Real(t, a.path)].open = (a.word = "rw")
      [] a.op = "mkdir" -> Dir(t, a.path)
      [] a.op = "symlink" -> \E q \in Paths : /\ q \in { a.to, Append(Real(t, a.to), Last(a.path)) }
                                              /\ t[q].kind = "link"
                                              /\ t[q].to = a.path
      [] a.op = "rm" -> Under(t, a.path) = {}
      [] a.op = "upload" -> t[Real(t, a.path)].data = a.data
      [] a.op = "compress" -> Packed(t, a)
      [] a.op = "extract" -> Unpacked(t, a, held)
      [] a.op = "cp" -> \E at \in { a.to, Append(a.to, Last(a.path)) } : CopiedTo(t, a, at)
      [] a.op = "mv" -> Find(t, a.path) # {}
      [] OTHER -> TRUE

Succeeded(r) == answer[r].code \in 200 .. 299

\* A request that was told of success finds what it asked for in the tree, unless
\* another one changed the tree since it began: each command's effect is complete
\* when parse_output() sees status 0 (router.py, commands/*.py).
SuccessIsDone ==
    \A r \in Requests : Succeeded(r) /\ ~marks[r].disturbed => Done(tree, Ask(r), proc[r].cargo)

\* A request whose command reports an error changed nothing, unless another one
\* interfered, but for what cannot be undone: an upload is cut short when a write
\* fails or base64 is killed, never filled with anything else; a command that was
\* killed in the listing after its change has done it; and a chmod may shut the
\* directory its own path leads through.  rm, compress, extract and mkdir -p stop
\* half way.
RefusedIsClean ==
    \A r \in Requests :
        LET a == Ask(r)
            code == answer[r].code
        IN  /\ code \in { 400, 403, 404, 500 }
            /\ a.op \notin { "rm", "compress", "extract" }
            /\ ~(a.op = "mkdir" /\ a.flag)
            /\ ~marks[r].disturbed
            => \/ ~marks[r].changed
               \/ code = 500 /\ a.op = "upload" /\ IsPrefix(tree[Real(tree, a.path)].data, a.data)
               \/ code = 500 /\ proc[r].state = "dead" /\ Done(tree, a, proc[r].cargo)
               \/ a.op = "chmod" /\ Way(tree, a.path) # {}

\* Where a process may change the tree: at and under the paths of its request; in
\* the file that it has open, which may be elsewhere by now; for cp, also where it
\* copies to since it began, and through the links there.
Covers(t, me, q, fd) ==
    LET a == Ask(me) IN
    \/ q \in At(t, fd)
    \/ \E p \in { a.path, a.to, Real(t, a.path), Real(t, a.to),
                  Append(Real(t, a.to), Last(a.path)) } \ { Root } : IsPrefix(p, q)
    \/ a.op = "mkdir" /\ IsPrefix(q, a.path)
    \/ a.op = "extract" /\ IsPrefix(a.to, q)
    \/ a.op = "cp" /\ \E p \in Paths : IsPrefix(proc[me].dest, p) /\ q \in { p, Real(t, p) }

AtWork(b) ==
    IF b \in Requests THEN answer[b].code \in { Waiting, 408, 413, 424 }
    ELSE job[b] = "running"

\* A path changes only by the work of a request that names it and that is not
\* answered yet, or answered without having seen the end of its command, or by a
\* running job that names it.
ChangesAreAsked ==
    [][\A q \in Paths : tree'[q] # tree[q] =>
          \E b \in Actors : /\ AtWork(b) /\ proc'[b] # proc[b]
                            /\ Covers(tree, b, q, proc'[b].fd)]_vars

\* The documented meaning of the ranges (router.py, get_head, get_view, get_tail): the
\* first or last NUM bytes or lines of a file, or (flag) the file without them.
Lines(s) == { i \in 1 .. Len(s) : i = 1 \/ s[i - 1] = NL }
From(s, n, inLines) ==   \* the position of the n-th line or byte
    IF ~inLines THEN n
    ELSE IF n > Cardinality(Lines(s)) THEN Len(s) + 1
    ELSE CHOOSE i \in Lines(s) : Cardinality({ j \in Lines(s) : j <= i }) = n
Whole(s, inLines) == IF inLines THEN Cardinality(Lines(s)) ELSE Len(s)

Given(a) == a.bytes >= 0 \/ a.lines >= 0
Num(a) == IF a.bytes >= 0 THEN a.bytes ELSE IF a.lines >= 0 THEN a.lines ELSE 10

RangeOf(s, a) ==
    LET inLines == a.bytes < 0
        all == Whole(s, inLines)
        n == IF Num(a) < all THEN Num(a) ELSE all
        behind(k) == From(s, k + 1, inLines)   \* what follows the first k
        skips == a.flag /\ Given(a)
    IN  CASE a.op = "view" -> SubSeq(s, a.offset + 1,
                                     IF a.offset + a.bytes < Len(s) THEN a.offset + a.bytes
                                     ELSE Len(s))
          [] a.op = "head" /\ ~skips -> SubSeq(s, 1, behind(n) - 1)
          [] a.op = "head" /\ skips -> SubSeq(s, 1, behind(all - n) - 1)
          [] a.op = "tail" /\ ~skips -> SubSeq(s, behind(all - n), Len(s))
          [] OTHER -> SubSeq(s, behind(n), Len(s))

Narrow(s) == \A i \in DOMAIN s : s[i] \notin { Wide, Rest }

Text(r) == tree[Real(tree, Ask(r).path)].data

\* An answer that shows a part of a file which nobody else has touched, and
\* which has no characters of several bytes.
Shown(r) ==
    /\ answer[r].code = 200
    /\ Ask(r).op \in { "head", "tail", "view" }
    /\ ~marks[r].disturbed
    /\ Narrow(Text(r))

\* Where the code does not do what is documented.  "The output will be the whole
\* file, without the first NUM bytes/lines of each file" (router.py:383), but the
\* command's `+NUM' begins with the NUM-th (tail_command.py:33, 39); "the first NUM
\* lines" (router.py:231), but a NUM of 0 is taken for none (head_command.py:36).
SkipsHeading(a) == a.op = "tail" /\ a.flag /\ Given(a)
HasZero(a) == a.op # "view" /\ 0 \in { a.lines, a.bytes }

\* view, head and tail return the range of the file they were asked for, at every
\* size, offset and end of the file (get_head, get_tail, DdCommand), but for a tail
\* without its heading and for a number that is 0.
RangesRight ==
    \A r \in Requests : Shown(r) /\ ~SkipsHeading(Ask(r)) /\ ~HasZero(Ask(r))
                            => answer[r].bytes = RangeOf(Text(r), Ask(r))

\* No answer carries more of a file than max_ops_file_size.
WithinLimit ==
    \A r \in Requests : Succeeded(r) /\ Ask(r).op # "checksum"
                            => Len(answer[r].bytes) <= MaxOps

\* A file that is at the target of an upload by the streamer is never replaced,
\* however long after the request's look at the path the job runs.
StreamerSparesFiles ==
    [][\A j \in Jobs : Ask(j).op = "receive" /\ proc'[j] # proc[j] =>
          \A q \in Paths : tree[q].kind # "absent" => tree'[q] = tree[q]]_vars

\* A job that the scheduler reports as COMPLETED did what it was submitted for,
\* unless somebody interfered.
CompletedIsDone ==
    \A j \in Jobs : job[j] = "COMPLETED" /\ ~marks[j].disturbed => Done(tree, Ask(j), proc[j].cargo)

=============================================================================
