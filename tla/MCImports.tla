----------------------------- MODULE MCImports -----------------------------
(* Small files: two statements that overlap and two versions of a calendar. *)
EXTENDS Imports, TLC

Item(key, value) == [key |-> key, value |-> value]

\* A line that both mappings read alike, and one that they do not.
Same(key, value) == "m" :> Item(key, value) @@ "n" :> Item(key, value)
ByMapping == "m" :> Item("k2", "v2") @@ "n" :> Item("k3", "v1")
OneMapping == "m" :> Item("k3", "v3") @@ "n" :> Unreadable
Dated(key, value) == None :> Item(key, value)

MCLines ==
  [a |-> <<Same("k1", "v1"), ByMapping>>,
   b |-> <<OneMapping, Same("k1", "v1")>>,
   twins |-> <<Same("k1", "v1"), Same("k1", "v1")>>,
   u |-> <<Dated("u1", "old"), None :> Unreadable>>,
   w |-> <<Dated("u1", "new"), Dated("u2", "new")>>,
   z |-> <<Dated("u1", "late")>>]

MCCsv == {"a", "b", "twins"}

Work(clients, files, hand) == [clients |-> clients, files |-> files, hand |-> hand]

MCWorkloads ==
  {Work({"x"}, {"a", "b"}, {"transactions"}),
   Work({"x"}, {"a"}, {"profiles"}),
   Work({"x"}, {"u", "w"}, {"events"}),
   Work({"x", "y"}, {"a"}, {}),
   Work({"x", "y"}, {"u", "w"}, {})}

StaleRows == {Work({"x"}, {"twins"}, {}), Work({"x"}, {"u", "w", "z"}, {"events"})}
=============================================================================
