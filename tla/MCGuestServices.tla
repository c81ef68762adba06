------------------------ MODULE MCGuestServices ------------------------
EXTENDS GuestServices

\* A root key, a key and its subkey; "w" is a path with * that the subkey matches, and "b" one
\* with [ ] that the key matches, and "b" itself does not.
MCParent == "p" :> "r" @@ "s" :> "p" @@ "w" :> "p" @@ "b" :> "r"
MCMatches == "r" :> {"r"} @@ "p" :> {"p"} @@ "s" :> {"s"} @@ "w" :> {"s", "w"} @@ "b" :> {"p"}

\* Two IRPs; an empty entry between two initializers.
MCIrpOrder == <<"create", "ioctl">>
MCInitializers == <<1, 0, 1>>
=============================================================================
