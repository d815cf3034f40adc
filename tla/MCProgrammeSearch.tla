-------------------------- MODULE MCProgrammeSearch --------------------------
(* Small instance of ProgrammeSearch for TLC: two PIDs, and what each source *)
(* may say of them.                                                          *)
EXTENDS ProgrammeSearch, TLC

Prog(type, title, position, image) ==
    [type |-> type, title |-> title, position |-> position, image |-> image,
     parentImage |-> "brand", parentPosition |-> "4"]
SomeProgrammes == {Prog("episode", "t", None, "own"), Prog("series", "t", "2", None),
                   Prog("series", None, "2", "own"), Prog("brand", "t", None, "own")}

Lines(set) == UNION {[1 .. n -> set] : n \in 0 .. 2}

Anchor(pid, fits, titled) == [pid |-> pid, fits |-> fits, titled |-> titled]
Object(id, images) == [id |-> id, images |-> images]
SomePages ==
    [anchors : Lines({Anchor("p", TRUE, TRUE), Anchor("p", TRUE, FALSE),
                      Anchor("p", FALSE, TRUE), Anchor("q", TRUE, TRUE)}),
     blob : {<<>>, <<Object("p", {"standard", "other"}), Object("p", {})>>,
             <<Object("q", {"other"}), Object("p", {"other"}),
               Object("p", {"promotional_with_logo", "other"})>>}]

Line(header, pid, series) == [header |-> header, pid |-> pid, series |-> series]
SomeListings ==
    {first \o more : first \in {<<>>, <<Line(FALSE, "q", None)>>},
                     more \in Lines({Line(FALSE, "p", "own"), Line(FALSE, "q", "own"),
                                     Line(FALSE, None, None), Line(TRUE, "p", None)})}

Row(header, cells, pid, series, thumb) ==
    [header |-> header, cells |-> cells, pid |-> pid, series |-> series, thumb |-> thumb]
SomeRows == {<<>>, <<Row(TRUE, 8, "p", None, None), Row(FALSE, 1, "p", None, None)>>,
             <<Row(FALSE, 8, None, "s", None), Row(FALSE, 8, "p", "s", "own"),
               Row(FALSE, 2, "p", None, None)>>}
=============================================================================
