---------------------------- MODULE FileCommands ----------------------------
(***************************************************************************)
(* The commands that the file endpoints run over SSH and the transfer jobs *)
(* run on the cluster, on one tree of files.                               *)
(*                                                                         *)
(* A command is a process of several steps: it looks at its arguments and  *)
(* does its first change at once ("begins"), then works through what is    *)
(* left, an entry or a byte at a time, while other processes change the    *)
(* same tree.  What it prints on stderr is a set of messages; an empty set *)
(* stands for exit status 0.  The programs (GNU coreutils, tar) are not    *)
(* part of the repository: what they do is modelled from the options the   *)
(* command classes and the scripts give them.                              *)
(*                                                                         *)
(* Names of directories are not followed through links, moves stay within  *)
(* a file system, and a path outside Paths, the bound of the tree, cannot  *)
(* be created.  Only the bytes of an upload may find no room.              *)
(***************************************************************************)
EXTENDS Integers, Sequences, FiniteSets, SequencesExt

CONSTANTS
    Actors,   \* requests and jobs: each of them runs one command
    Asks,     \* Asks[a]: what actor a may ask for
    Paths,    \* the paths of the tree, sequences of names without the root
    Trees,    \* the trees to start from
    Contents, \* what their archives hold, and the archives in these
    Cwd,      \* the directory a login shell or a job starts in
    Dotted,   \* the names that start with a dot
    Nobody    \* who made what is there at the start

Root == << >>   \* the path without names

\* Kinds of nodes; a "cut" archive is one that tar has not finished.
FileKinds == { "file", "tar", "cut" }
Kinds == FileKinds \cup { "absent", "link", "dir" }

Ids == [by : Actors \cup { Nobody }, at : Paths \cup { Root }]

Nodes == [kind : Kinds, data : Seq(Nat), to : Paths \cup { Root }, holds : SUBSET Contents,
          open : BOOLEAN, id : Ids]

\* What is there is in a directory, and a link does not lead to the root.
Rooted(t) ==
    \A p \in Paths :
        /\ t[p].kind # "absent" =>
              \A q \in Prefixes(p) \ { p, Root } : t[q].kind = "dir"
        /\ t[p].kind = "link" => t[p].to # Root

\* What an actor may ask for: see Plain.  Numbers of lines and bytes are those of
\* get_head, get_tail and get_view, or -1 where there is none: no request has a
\* negative one.
AskTypes ==
    [op : STRING, path : Paths, to : Paths \cup { Root }, data : Seq(Nat),
     lines : Nat \cup { -1 }, bytes : Nat \cup { -1 }, offset : Int, flag : BOOLEAN, word : STRING, site : STRING, account : BOOLEAN]

ASSUME PathsAssumption ==
    /\ IsFiniteSet(Paths)
    /\ \A p \in Paths : p \in Seq(STRING) /\ Prefixes(p) \subseteq Paths \cup { Root }
    /\ Root \notin Paths
    /\ Cwd \in Paths \cup { Root }

ASSUME TreesAssumption ==
    /\ \A m \in Contents :
          /\ m.name \in Seq(STRING) /\ m.kind \in Kinds /\ m.data \in Seq(Nat)
          /\ m.to \in Paths \cup { Root } /\ m.holds \subseteq Contents
          /\ m.kind = "link" => m.to # Root
    /\ Trees \subseteq [Paths -> Nodes]
    /\ \A t \in Trees : Rooted(t)

ASSUME AsksAssumption == \A b \in Actors : Asks[b] \subseteq AskTypes

VARIABLES
    tree,     \* what is at each path
    proc,     \* each actor's process
    marks     \* history: whether an actor changed the tree ("changed"), and
              \* whether another did since it began ("disturbed")

fileVars == << tree, proc, marks >>

\* An inode: by and where it was made; an open descriptor keeps it.
NoId == [by |-> Nobody, at |-> << >>]

Absent == [kind |-> "absent", data |-> << >>, to |-> << >>, holds |-> {},
           open |-> TRUE, id |-> NoId]

New(kind, by, at) == [Absent EXCEPT !.kind = kind, !.id = [by |-> by, at |-> at]]

\* A request or job for op on path p; the other fields are the options.
Plain(op, p) ==
    [op |-> op, path |-> p, to |-> << >>, data |-> << >>, lines |-> -1,
     bytes |-> -1, offset |-> 0, flag |-> FALSE, word |-> "", site |-> "",
     account |-> FALSE]

Missing == "No such file or directory"
Denied == "Permission denied"
NotPermitted == "Operation not permitted"
Exists == "File exists"
BadUser == "invalid user"
NotDir == "Not a directory"
IsDir == "Is a directory"
NoSpace == "No space left on device"
Loop == "Too many levels of symbolic links"
NotEmpty == "Directory not empty"
NotOver == "cannot overwrite a directory, or with one"

-----------------------------------------------------------------------------
(* Looking up paths.                                                        *)

Dir(t, p) == p = Root \/ t[p].kind = "dir"

OrElse(errs, more) == IF errs = {} THEN more ELSE errs
When(cond, err) == IF cond THEN { err } ELSE {}

\* What stops a look-up before the last name of p.
Way(t, p) ==
    LET passable(q) == IF q = Root THEN TRUE ELSE t[q].kind = "dir" /\ t[q].open
        first == { q \in Prefixes(Front(p)) :
                     ~passable(q) /\ \A x \in Prefixes(Front(q)) : passable(x) }
    IN  { CASE t[q].kind = "absent" -> Missing
            [] t[q].kind = "dir" -> Denied
            [] OTHER -> NotDir : q \in first }

\* lstat
Find(t, p) ==
    OrElse(Way(t, p), When(p # Root /\ (p \notin Paths \/ t[p].kind = "absent"), Missing))

Real(t, p) == IF p \in Paths /\ t[p].kind = "link" /\ Way(t, p) = {} THEN t[p].to ELSE p

\* stat
Reach(t, p) ==
    LET stop(q) == OrElse(Find(t, q), When(q # Root /\ t[q].kind = "link", Loop))
    IN  OrElse(Find(t, p), stop(Real(t, p)))

Shut(t, p) == IF p = Root \/ t[p].open THEN {} ELSE { Denied }

\* Opening a file to read it.
Readable(t, p) ==
    LET stop(q) == IF Dir(t, q) THEN { IsDir } ELSE Shut(t, q)
    IN  OrElse(Reach(t, p), stop(Real(t, p)))

\* Opening a file to write it, or creating it.
Writable(t, p) ==
    LET stop(q) == IF q \notin Paths \cup { Root } THEN { NoSpace }
                   ELSE IF Dir(t, q) THEN { IsDir }
                   ELSE IF t[q].kind = "link" THEN { Loop } ELSE Shut(t, q)
        from(q) == OrElse(Way(t, q), stop(q))
    IN  OrElse(Way(t, p), from(Real(t, p)))

\* ln, mv and cp put their source into a target that is a directory.
Into(t, p, target) ==
    LET in(q) == IF Reach(t, target) = {} /\ Dir(t, q) THEN Append(q, Last(p)) ELSE target
    IN  in(Real(t, target))

Under(t, p) == { q \in Paths : IsPrefix(p, q) /\ t[q].kind # "absent" }
Children(t, p) == { q \in Under(t, p) : Len(q) = Len(p) + 1 }

\* The entries a recursive command visits: it cannot look into a shut directory.
Visited(t, p) == { q \in Under(t, p) : \A d \in Prefixes(Front(q)) :
                      IsPrefix(p, d) /\ d # Root => t[d].open }
Unvisited(t, p) == IF Visited(t, p) = Under(t, p)
                      /\ \A q \in Under(t, p) : Dir(t, q) => t[q].open
                   THEN {} ELSE { Denied }

-----------------------------------------------------------------------------
(* What a command did: the tree, what is left to do, its messages, the      *)
(* inode it writes, where it works, what it carries and what it printed.    *)

NoOut == [bytes |-> << >>, names |-> {}]

Did(t, left, errs) ==
    [tree |-> t, left |-> left, errs |-> errs, fd |-> NoId, dest |-> << >>,
     cargo |-> {}, out |-> NoOut]

Fails(t, errs) == Did(t, {}, errs)
Unless(t, errs, did) == IF errs = {} THEN did ELSE Fails(t, errs)
Shows(t, errs, bytes, names) ==
    [Fails(t, errs) EXCEPT !.out = IF errs = {} THEN [bytes |-> bytes, names |-> names]
                                   ELSE NoOut]

\* Variant: "X ; ls -d path".
ThenList(t, errs, changed, path) ==
    Did(IF errs # {} THEN t ELSE changed, { path }, {})

\* "X && ls -d path": the change, and the listing of the path as a second step.
AndList(t, errs, changed, path) ==
    IF errs # {} THEN Fails(t, errs) ELSE Did(changed, { path }, {})

Chmod(t, a) ==
    AndList(t, Reach(t, a.path),
            [t EXCEPT ![Real(t, a.path)].open = (a.word = "rw")], a.path)

\* The owner is looked up first; giving a file away is for the administrator.
Chown(t, a) ==
    LET errs == IF a.word = "nobody" THEN { BadUser }
                ELSE OrElse(Reach(t, a.path), When(a.word = "other", NotPermitted))
    IN  AndList(t, errs, t, a.path)

Mkdir(t, a, me) ==
    LET made == { q \in (IF a.flag THEN Prefixes(a.path) ELSE { a.path }) \ { Root } :
                     t[q].kind = "absent" }
        stop == Way(t, a.path)
        errs == IF stop # {} /\ ~(a.flag /\ stop = { Missing }) THEN stop
                ELSE IF a.path \notin made /\ ~(a.flag /\ Dir(t, a.path))
                     THEN { Exists } ELSE {}
    IN  AndList(t, errs, [q \in Paths |-> IF q \in made THEN New("dir", me, q) ELSE t[q]],
                a.path)

\* A link, or a file to be created, where nothing may be.
NotMade(t, at) ==
    OrElse(Way(t, at), IF at \notin Paths THEN { NoSpace }
                       ELSE When(t[at].kind # "absent", Exists))

\* Variant: the listing is of the target of the link.
SymlinkListsTarget(t, a, me) ==
    LET link(at, errs) ==
            AndList(t, errs, [t EXCEPT ![at] = [New("link", me, at) EXCEPT !.to = a.path]], a.path)
        into(at) == link(at, NotMade(t, at))
    IN  into(Into(t, a.path, a.to))

Symlink(t, a, me) ==
    LET link(at, errs) ==
            AndList(t, errs, [t EXCEPT ![at] = [New("link", me, at) EXCEPT !.to = a.path]], a.to)
        into(at) == link(at, NotMade(t, at))
    IN  into(Into(t, a.path, a.to))

\* rm -r: every entry it finds, a directory after what is in it.
Rm(t, a) == Unless(t, Find(t, a.path), Did(t, Visited(t, a.path), Unvisited(t, a.path)))

\* The file is truncated or made before the program runs.
Truncate(t, q, kind, me) ==
    [Did([t EXCEPT ![q] = [New(kind, me, q) EXCEPT !.id = IF t[q].kind = "absent" THEN @ ELSE t[q].id]],
         { q }, {}) EXCEPT !.fd = IF t[q].kind = "absent" THEN [by |-> me, at |-> q] ELSE t[q].id]

\* base64 -d > path
Upload(t, a, me) == Unless(t, Writable(t, a.path), Truncate(t, Real(t, a.path), "file", me))

Relative(base, q) == SubSeq(q, Len(base) + 1, Len(q))

\* The entries that go into an archive, and the directory their names are
\* relative to.  With a pattern: regular files under the directory the shell
\* could change to, or under the one it started in.
Base(t, a) ==
    IF a.word # "" /\ (Reach(t, Front(a.path)) # {} \/ ~Dir(t, Front(a.path)))
    THEN Cwd ELSE Front(a.path)

Matching(t, a) ==
    IF a.word = "" THEN Visited(t, a.path)
    ELSE { q \in Visited(t, Base(t, a)) \ { Real(t, a.to) } :
             t[q].kind \in {"file", "tar"} /\ Last(q) = a.word }

\* tar -c: the target is opened first.  What find cannot do is lost in the
\* pipe; without a pattern it is tar itself that misses its source.
Compress(t, a, me) ==
    LET errs == IF a.word # "" THEN {} ELSE OrElse(Find(t, a.path), Unvisited(t, a.path))
        did(r) == [r EXCEPT !.left = Matching(t, a), !.errs = errs, !.dest = Base(t, a)]
    IN  Unless(t, Writable(t, a.to), did(Truncate(t, Real(t, a.to), "cut", me)))

\* tar -x: all members that the archive holds.
Extract(t, a) ==
    LET into == OrElse(Reach(t, a.to), IF Dir(t, Real(t, a.to)) THEN Shut(t, a.to) ELSE { NotDir })
        did(x) == Unless(t, OrElse(When(x.kind # "tar", "This does not look like a tar archive"), into),
                         [Did(t, { a.to \o m.name : m \in x.holds }, {})
                            EXCEPT !.dest = a.to, !.cargo = x.holds])
    IN  Unless(t, Readable(t, a.path), did(t[Real(t, a.path)]))

\* What stops mv and cp before they change anything.
Collision(t, p, at) ==
    LET ways == OrElse(Find(t, p), Way(t, at))
    IN  IF ways # {} THEN ways
        ELSE IF IsPrefix(p, at) THEN { "subdirectory of itself or the same file" }
        ELSE IF \E q \in Under(t, p) : at \o Relative(p, q) \notin Paths THEN { NoSpace }
        ELSE IF t[at].kind = "absent" THEN {}
        ELSE When(Dir(t, p) # Dir(t, at), NotOver)

\* job_move.sh: rename() within a file system.
Mv(t, a) ==
    LET moved(at) == [q \in Paths |->
                        IF IsPrefix(at, q) /\ a.path \o Relative(at, q) \in Paths
                        THEN t[a.path \o Relative(at, q)]
                        ELSE IF IsPrefix(a.path, q) THEN Absent ELSE t[q]]
        to(at) == Unless(t, OrElse(Collision(t, a.path, at),
                                   When(Dir(t, at) /\ Children(t, at) # {}, NotEmpty)),
                         Fails(moved(at), {}))
    IN  to(Into(t, a.path, a.to))

\* job_copy.sh: entry by entry, links as they are or (flag) what they point to.
Cp(t, a) ==
    LET to(at) == Unless(t, Collision(t, a.path, at),
                         [Did(t, Visited(t, a.path), Unvisited(t, a.path)) EXCEPT !.dest = at])
    IN  to(Into(t, a.path, a.to))

\* job_streamer.sh looks before the streamer is installed and started; the
\* streamer then creates the file, and fails where there is one.
Regular(t, p) == Reach(t, p) = {} /\ ~Dir(t, Real(t, p))

Receive(t, a) ==
    IF Regular(t, a.path) THEN Fails(t, { Exists }) ELSE Did(t, { a.path }, {})

Send(t, a) ==
    IF Regular(t, a.path) THEN Did(t, { a.path }, {}) ELSE Fails(t, { Missing })

\* wormhole removes what is at the target of --output-file, and renames the file
\* it has received to it.
WormholeReceive(t, a) ==
    Unless(t, Way(t, a.path),
           Did([q \in Paths |-> IF IsPrefix(a.path, q) THEN Absent ELSE t[q]], { a.path }, {}))

-----------------------------------------------------------------------------
(* Commands that only read.  Bytes are numbers; NL ends a line, and Wide    *)
(* followed by Rest is a character of two bytes.                            *)

NL == 0
Wide == 8
Rest == 9

\* decode("utf-8", errors="replace"): characters, not bytes.
Decode(s) ==
    LET whole(i) == i < Len(s) /\ s[i] = Wide /\ s[i + 1] = Rest
        starts == { i \in 1 .. Len(s) : i = 1 \/ ~whole(i - 1) }
        char(i) == IF whole(i) THEN 89 ELSE IF s[i] \in { Wide, Rest } THEN 99 ELSE s[i]
    IN  [k \in 1 .. Cardinality(starts) |->
            char(CHOOSE i \in starts : Cardinality({ j \in starts : j <= i }) = k)]

\* How many lines have ended before position i.
Ended(s, i) == Cardinality({ j \in 1 .. i - 1 : s[j] = NL })
LineCount(s) == Ended(s, Len(s) + 1) + (IF s = << >> \/ Last(s) = NL THEN 0 ELSE 1)

Size(s, inLines) == IF inLines THEN LineCount(s) ELSE Len(s)

\* How long the first n bytes or lines are; these, and what is behind them.
Kept(s, n, inLines) ==
    IF inLines THEN Cardinality({ i \in 1 .. Len(s) : Ended(s, i) < n })
    ELSE IF n < Len(s) THEN n ELSE Len(s)
First(s, n, inLines) == SubSeq(s, 1, Kept(s, n, inLines))
Skip(s, n, inLines) == SubSeq(s, Kept(s, n, inLines) + 1, Len(s))

Minus(n, k) == IF k < n THEN n - k ELSE 0

Number(a) == IF a.bytes > 0 THEN a.bytes ELSE IF a.lines > 0 THEN a.lines ELSE 10
InLines(a) == ~(a.bytes > 0)

\* head --bytes/--lines: a number, with a minus sign to skip the trailing ones.
HeadOf(s, a) ==
    IF a.flag /\ (a.bytes > 0 \/ a.lines > 0)
    THEN First(s, Minus(Size(s, InLines(a)), Number(a)), InLines(a))
    ELSE First(s, Number(a), InLines(a))

\* tail --bytes/--lines: a number, or "+N" for what starts at the N-th.
TailOf(s, a) ==
    IF a.flag /\ (a.bytes > 0 \/ a.lines > 0)
    THEN Skip(s, Number(a) - 1, InLines(a))
    ELSE Skip(s, Minus(Size(s, InLines(a)), Number(a)), InLines(a))

Slice(s, from, size) ==
    SubSeq(s, from + 1, IF Len(s) < from + size THEN Len(s) ELSE from + size)

\* dd bs=size skip=offset // size count=2
TwoBlocks(s, a) == Slice(s, (a.offset \div a.bytes) * a.bytes, 2 * a.bytes)

\* Variant: the offset is taken from the start of the file.
ChunkFromStart(out, a) == Slice(out, a.offset, a.bytes)

\* DdCommand.parse_output: the chunk asked for, cut out of the two blocks.
Chunk(out, a) == Slice(out, a.offset % a.bytes, a.bytes)

ReadBytes(s, a) ==
    CASE a.op = "head" -> HeadOf(s, a)
      [] a.op = "tail" -> TailOf(s, a)
      [] a.op = "view" -> TwoBlocks(s, a)
      [] OTHER -> s

Read(t, a) ==
    Unless(t, Readable(t, a.path), Shows(t, {}, ReadBytes(t[Real(t, a.path)].data, a), {}))

\* file -b says on stdout, with status 0, what it cannot open.
FileType(t, a) == Shows(t, {}, << >>, { a.path } \cap Paths)

Stat(t, a) == Shows(t, IF a.flag THEN Reach(t, a.path) ELSE Find(t, a.path), << >>, { a.path })

\* ls -l, with -A (word) and -R (flag).
Ls(t, a) ==
    LET dir == Dir(t, a.path)
        shown == IF ~dir THEN { a.path }
                 ELSE IF a.flag THEN Visited(t, a.path) \ { a.path } ELSE Children(t, a.path)
        errs == IF ~dir THEN {} ELSE IF a.flag THEN Unvisited(t, a.path) ELSE Shut(t, a.path)
    IN  Unless(t, Find(t, a.path),
               Shows(t, errs, << >>, { q \in shown : a.word = "all" \/ Last(q) \notin Dotted }))

-----------------------------------------------------------------------------
(* Processes.                                                               *)

Begin(t, a, me) ==
    CASE a.op = "chmod" -> Chmod(t, a)
      [] a.op = "chown" -> Chown(t, a)
      [] a.op = "mkdir" -> Mkdir(t, a, me)
      [] a.op = "symlink" -> Symlink(t, a, me)
      [] a.op = "rm" -> Rm(t, a)
      [] a.op = "upload" -> Upload(t, a, me)
      [] a.op = "wormhole receive" -> WormholeReceive(t, a)
      [] a.op = "compress" -> Compress(t, a, me)
      [] a.op = "extract" -> Extract(t, a)
      [] a.op = "mv" -> Mv(t, a)
      [] a.op = "cp" -> Cp(t, a)
      [] a.op = "receive" -> Receive(t, a)
      [] a.op = "send" -> Send(t, a)
      [] a.op = "file" -> FileType(t, a)
      [] a.op = "stat" -> Stat(t, a)
      [] a.op = "ls" -> Ls(t, a)
      [] OTHER -> Read(t, a)

\* Where the inode of an open descriptor is, if it is still linked.
At(t, fd) == { q \in Paths : t[q].kind \in FileKinds /\ t[q].id = fd }

\* One byte at an offset of its own: what is behind it stays.
Put(t, fd, i, byte) ==
    [q \in Paths |->
        IF q \in At(t, fd)
        THEN [t[q] EXCEPT !.kind = "file", !.holds = {},
                !.data = [j \in 1 .. (IF Len(@) < i THEN i ELSE Len(@)) |->
                             IF j = i THEN byte
                             ELSE IF j <= Len(t[q].data) THEN t[q].data[j] ELSE NL]]
        ELSE t[q]]

\* A member of an archive; links are stored as links or (flag) followed.
Member(t, p, q) ==
    LET from == IF p.ask.flag THEN Real(t, q) ELSE q
    IN  [name |-> Relative(p.dest, q), kind |-> t[from].kind, data |-> t[from].data,
         to |-> t[from].to, holds |-> t[from].holds]

Store(t, fd, m) ==
    [q \in Paths |-> IF q \in At(t, fd) /\ t[q].kind = "cut"
                     THEN [t[q] EXCEPT !.holds = @ \cup { m }] ELSE t[q]]

\* A process after one of its steps, and after one that fails with errs or
\* makes the tree t2.
Stepped(p, q, t, errs) ==
    [tree |-> t, proc |-> [p EXCEPT !.left = @ \ { q }, !.errs = @ \cup errs]]
Step(p, q, t, errs, t2) == Stepped(p, q, IF errs = {} THEN t2 ELSE t, errs)

RmEntry(t, p, q) ==
    Step(p, q, t, OrElse(Find(t, q), When(Children(t, q) # {}, NotEmpty)),
         [t EXCEPT ![q] = Absent])

WriteByte(t, p, q) ==
    [tree |-> Put(t, p.fd, p.at + 1, p.ask.data[p.at + 1]),
     proc |-> [p EXCEPT !.at = @ + 1, !.left = IF p.at + 1 = Len(p.ask.data) THEN {} ELSE @]]

\* tar -v prints each name it adds.  It reads the archive itself while gzip writes it.
AddMember(t, p, q) ==
    LET from == IF p.ask.flag THEN Real(t, q) ELSE q
        stat == IF p.ask.flag THEN Reach(t, q) ELSE {}
        add(errs) == IF errs # {} THEN Stepped(p, q, t, errs)
                     ELSE Stepped([p EXCEPT !.out.names = @ \cup { q }], q,
                                  Store(t, p.fd, Member(t, p, q)), {})
    IN  add(OrElse(IF Find(t, q) # {} THEN { "File removed before we read it" } ELSE stat,
                   IF from \in At(t, p.fd) THEN { "file changed as we read it" }
                   ELSE IF Dir(t, from) THEN {} ELSE Shut(t, from)))

\* tar -x replaces a file that is there, and keeps a directory.
Unpack(t, p, q, me) ==
    LET put(m) == Step(p, q, t,
                       OrElse(Way(t, q), IF q \notin Paths THEN { NoSpace }
                                         ELSE When(Dir(t, q) /\ m.kind # "dir", Exists)),
                       IF m.kind = "dir" /\ Dir(t, q) THEN t
                       ELSE [t EXCEPT ![q] = [New(m.kind, me, q) EXCEPT
                                 !.data = m.data, !.to = m.to, !.holds = m.holds]])
    IN  put(CHOOSE x \in p.cargo : p.dest \o x.name = q)

\* cp --force -R --preserve=all: a file is written through a link, and into the
\* file that is there when it can be; the link or file is replaced otherwise.
CopyEntry(t, p, q, me) ==
    LET stat == IF p.ask.flag THEN Reach(t, q) ELSE {}
        copy(from, at, to) ==
            LET over == OrElse(IF to = at THEN Way(t, at) ELSE Reach(t, at),
                               When(t[to].kind # "absent" /\ Dir(t, from) # Dir(t, to), NotOver))
                kept == t[from].kind \in FileKinds /\ t[to].kind \in FileKinds /\ t[to].open
            IN  Step(p, q, t,
                     OrElse(OrElse(Find(t, q), stat),
                            OrElse(IF Dir(t, from) THEN {} ELSE Shut(t, from), over)),
                     IF kept THEN [t EXCEPT ![to] = [t[from] EXCEPT !.id = t[to].id]]
                     ELSE IF Dir(t, at) THEN t
                     ELSE [t EXCEPT ![at] = [t[from] EXCEPT !.id = [by |-> me, at |-> at]]])
        onto(from, at) ==
            copy(from, at, IF t[from].kind \in FileKinds THEN Real(t, at) ELSE at)
    IN  onto(IF p.ask.flag THEN Real(t, q) ELSE q, p.dest \o Relative(p.ask.path, q))

\* rename()
ReplaceFile(t, p, q, me) ==
    Step(p, q, t, Way(t, q),
         IF t[q].kind = "dir" THEN t
         ELSE [t EXCEPT ![q] = [New("file", me, q) EXCEPT !.data = p.ask.data]])

\* open(target, "xb"), and what the streamer brings (see module Streamer).
CreateFile(t, p, q, me) ==
    Step(p, q, t, NotMade(t, q), [t EXCEPT ![q] = [New("file", me, q) EXCEPT !.data = p.ask.data]])

\* rm works from the leaves up, the others from the root of the tree down.
NextEntries(p) ==
    { q \in p.left : \A x \in p.left :
        IF p.ask.op = "rm" THEN Len(x) <= Len(q) ELSE Len(q) <= Len(x) }

Continue(t, p, q, me) ==
    CASE p.ask.op = "rm" -> RmEntry(t, p, q)
      [] p.ask.op = "upload" -> WriteByte(t, p, q)
      [] p.ask.op = "wormhole receive" -> ReplaceFile(t, p, q, me)
      [] p.ask.op = "compress" -> AddMember(t, p, q)
      [] p.ask.op = "extract" -> Unpack(t, p, q, me)
      [] p.ask.op = "cp" -> CopyEntry(t, p, q, me)
      [] p.ask.op = "receive" -> CreateFile(t, p, q, me)
      [] p.ask.op = "send" -> Stepped(p, q, t, Readable(t, q))
      [] OTHER -> Stepped(p, q, t, Find(t, q))

\* Without data nothing ends the input of base64 -d: `if stdin:' is false.
CanGoOn(p) == p.left # {} /\ ~(p.ask.op = "upload" /\ p.at = Len(p.ask.data))

\* tar ends its archive with what it could add.
Closed(t, p) ==
    IF p.ask.op # "compress" THEN t
    ELSE [q \in Paths |-> IF q \in At(t, p.fd) /\ t[q].kind = "cut"
                          THEN [t[q] EXCEPT !.kind = "tar"] ELSE t[q]]

Idle == [state |-> "none", ask |-> Plain("none", << >>), left |-> {}, at |-> 0,
         errs |-> {}, fd |-> NoId, dest |-> << >>, cargo |-> {}, out |-> NoOut]

\* A step of me's process, which is over when nothing is left.
Moves(me, t, p) ==
    LET done == p.left = {}
        becomes(t2) ==
            /\ tree' = t2
            /\ marks' = [b \in Actors |->
                   IF t2 = tree THEN marks[b]
                   ELSE IF b = me THEN [marks[b] EXCEPT !.changed = TRUE]
                   ELSE [marks[b] EXCEPT !.disturbed = @ \/ proc[b].state \notin {"none", "ready"}]]
    IN  /\ becomes(IF done THEN Closed(t, p) ELSE t)
        /\ proc' = [proc EXCEPT ![me] = [p EXCEPT !.state = IF done THEN "over" ELSE "going"]]

BeginCommand(me) ==
    /\ proc[me].state = "ready"
    /\ \E r \in { Begin(tree, proc[me].ask, me) } :
         Moves(me, r.tree, [proc[me] EXCEPT !.left = r.left, !.errs = r.errs, !.fd = r.fd,
                               !.dest = r.dest, !.cargo = r.cargo, !.out = r.out])

GoOn(me) ==
    /\ proc[me].state = "going"
    /\ CanGoOn(proc[me])
    /\ \E q \in NextEntries(proc[me]) :
         \E r \in { Continue(tree, proc[me], q, me) } : Moves(me, r.tree, r.proc)

\* base64 -d cannot write to the file that it has open.
WriteFails(me) ==
    /\ proc[me].state = "going"
    /\ proc[me].ask.op = "upload"
    /\ CanGoOn(proc[me])
    /\ proc' = [proc EXCEPT ![me].state = "over", ![me].left = {}, ![me].errs = { NoSpace }]
    /\ UNCHANGED << tree, marks >>

\* The process is ended from outside: by timeout(1), by a signal, with its job.
Dies(me) ==
    /\ proc[me].state \in {"ready", "going"}
    /\ proc' = [proc EXCEPT ![me].state = "dead"]
    /\ UNCHANGED << tree, marks >>

FilesInit ==
    /\ tree \in Trees
    /\ proc = [a \in Actors |-> Idle]
    /\ marks = [a \in Actors |-> [changed |-> FALSE, disturbed |-> FALSE]]

=============================================================================
