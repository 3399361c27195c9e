---------------------------- MODULE FileAccessMC ----------------------------
(* Two of two requests and two jobs on small trees: a file f of three lines,  *)
(* a link l to it, an archive x, a directory d that may be shut, and room for *)
(* a file g.                                                                  *)
EXTENDS FileAccess

CONSTANTS r1, r2, j1, j2

MCRequests == { r1, r2 }
MCJobs == { j1, j2 }
MCActors == MCRequests \cup MCJobs

f == << "f" >>
g == << "g" >>
l == << "l" >>
x == << "x" >>
d == << "d" >>
df == << "d", "f" >>
dl == << "d", ".g" >>

MCPaths == { f, g, l, x, d, df, dl }
MCCwd == << >>
MCDotted == { ".g" }
MCMethod == [s \in { "", "bare", "strict", "far" } |->
                IF s \in { "bare", "far" } THEN "wormhole" ELSE "streamer"]

Made0(kind, p) == New(kind, Nobody, p)
File(p, s) == [Made0("file", p) EXCEPT !.data = s]

OpenTree ==
    [p \in MCPaths |->
        CASE p = f -> File(f, << 1, 0, 2, 2, 0, 3, 0 >>)
          [] p = l -> [Made0("link", l) EXCEPT !.to = f]
          [] p = x -> [Made0("tar", x) EXCEPT !.holds =
                         { [name |-> g, kind |-> "file", data |-> << 4 >>, to |-> << >>, holds |-> {}],
                           [name |-> f, kind |-> "file", data |-> << 5 >>, to |-> << >>, holds |-> {}] }]
          [] p = d -> Made0("dir", d)
          [] p = df -> File(df, << 8, 9, 6 >>)
          [] OTHER -> Absent]

\* The directory is shut; f is small, and g is there and cannot be read.
ShutTree == [OpenTree EXCEPT ![d].open = FALSE, ![f].data = << 1, 0, 2 >>,
                             ![g] = [File(g, << 7 >>) EXCEPT !.open = FALSE]]

MCTrees == { OpenTree, ShutTree }
MCContents == UNION { t[p].holds : t \in MCTrees, p \in MCPaths }

Opt(op, p, q) == [Plain(op, p) EXCEPT !.to = q]
Word(op, p, w) == [Plain(op, p) EXCEPT !.word = w]
Flag(a) == [a EXCEPT !.flag = TRUE]

Ranges ==
    UNION { { [a EXCEPT !.lines = 2], [a EXCEPT !.bytes = 3], [a EXCEPT !.bytes = 9],
              Flag([a EXCEPT !.lines = 2]), Flag([a EXCEPT !.bytes = 3]),
              [a EXCEPT !.lines = 0], [a EXCEPT !.lines = 1, !.bytes = 1] }
            : a \in { Plain("head", f), Plain("tail", l) } }

Views ==
    { [Plain("view", f) EXCEPT !.bytes = v[1], !.offset = v[2]] :
        v \in { << 2, 0 >>, << 2, 1 >>, << 2, 3 >>, << 2, 6 >>, << 1, -1 >>, << 3, 2 >>, << 7, 0 >> } }
    \cup { [Plain("view", df) EXCEPT !.bytes = 2, !.offset = 1] }

Looks == { Plain("ls", d), Flag(Word("ls", d, "all")), Plain("checksum", g), Plain("file", df),
           Plain("stat", l), Flag(Plain("stat", l)), Plain("download", f), Plain("download", df) }

Upload1(p, s) == [Plain("upload", p) EXCEPT !.data = s]

Changes ==
    { Word("chmod", g, "rw"), Word("chmod", d, "no"), Word("chmod", dl, "no"), Word("chown", f, "nobody"),
      Word("chown", l, "other"), Word("chown", d, "self"), Plain("mkdir", g), Plain("mkdir", df),
      Flag(Plain("mkdir", dl)), Opt("symlink", g, dl), Opt("symlink", f, d), Plain("rm", d),
      Plain("rm", l), Upload1(g, << 1, 2 >>), Upload1(l, << 3, 3 >>), Upload1(dl, << 4 >>),
      Upload1(g, << >>), Upload1(g, << 1, 1, 1, 1, 1, 1, 1 >>),
      Opt("compress", d, g), Flag(Opt("compress", l, x)), [Opt("compress", df, g) EXCEPT !.word = "f"],
      Opt("compress", d, df), Opt("compress", d, dl),
      Opt("extract", x, << >>), Opt("extract", f, d), Opt("extract", x, d) }

Work1 ==
    { Opt("mv", d, g), Opt("mv", f, d), Opt("cp", d, g), Flag(Opt("cp", l, g)), Plain("send", f),
      [Plain("receive", g) EXCEPT !.data = << 6 >>] }

Work2 ==
    { Opt("cp", d, g), [Plain("receive", g) EXCEPT !.data = << 6 >>], Plain("rm", d),
      [Plain("wormhole receive", g) EXCEPT !.data = << 6 >>, !.site = "far"],
      Plain("wormhole send", f), [Plain("wormhole send", f) EXCEPT !.site = "far"],
      Opt("extract", f, d),
      [Opt("compress", d, g) EXCEPT !.account = TRUE, !.site = "strict"],
      [Plain("cp", f) EXCEPT !.site = "bare"], [Plain("cp", f) EXCEPT !.site = "strict"],
      [Plain("mv", f) EXCEPT !.site = "bare"], [Plain("rm", f) EXCEPT !.site = "strict"] }

\* What gets in the way of the others.
Obstacles ==
    { Word("chmod", d, "no"), Plain("mkdir", g), Plain("rm", d), Plain("rm", l),
      Upload1(g, << 1, 2 >>), Opt("extract", x, d), Opt("symlink", d, dl) }

MCAsks == (r1 :> (Changes \cup Looks \cup Ranges \cup Views)) @@ (r2 :> Obstacles)
          @@ (j1 :> Work1) @@ (j2 :> Work2)

=============================================================================
