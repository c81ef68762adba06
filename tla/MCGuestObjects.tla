------------------------ MODULE MCGuestObjects ------------------------
EXTENDS GuestObjects

\* Three objects are there from the start: one part makes more of them, one opens more
\* handles, and one has room for a process with its thread.  "a" is a directory and the
\* alias of the image, "c" has a configured file: one part has both paths, the others one
\* path and a second handle, or one path and a second stream.
MCRoom ==
  LET Objects(n, m) == [objects |-> n, handles |-> m]
      Files(paths, n, m) == [paths |-> paths, handles |-> n, streams |-> m]
  IN  "objects" :> Objects(5, 2) @@ "handles" :> Objects(4, 3) @@ "threads" :> Objects(6, 3)
      @@ "files" :> Files({"a", "c"}, 1, 1) @@ "shared files" :> Files({"c"}, 2, 1)
      @@ "kernel files" :> Files({"a", "c"}, 2, 1) @@ "views" :> Files({"a", "c"}, 2, 1)
      @@ "searches" :> Files({"a", "c"}, 3, 1)
      @@ "streams" :> Files({"c"}, 2, 1) @@ "two streams" :> Files({"c"}, 1, 2)

\* "a/" is "a" with a backslash at its end, and "l" a link to the process of the configuration.
MCStripped == "a/" :> "a" @@ [n \in {"a", "b", "l"} |-> n]
MCLinks == "l" :> "b"
=============================================================================
