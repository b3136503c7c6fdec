----------------------------- MODULE MCLxLoader -----------------------------
(***************************************************************************)
(* Executables for the loader.  Pages 0 and 1 are reserved, objects are    *)
(* linked from page 2 on, thunks are wanted from page 8 on.  MSG has no    *)
(* function 0 and DOSCALLS no function 1, as most ordinals of both.        *)
(***************************************************************************)
EXTENDS LxLoader

MCLibraries == [l \in {"MSG", "DOSCALLS"} |-> 3]
MCImplemented == [l \in {"MSG", "DOSCALLS"} |-> IF l = "MSG" THEN {1} ELSE {0, 2}]
MCOffsets == {1, 2}

Import(m, n, o, s) == [kind |-> "import", mod |-> m, ord |-> n, at |-> o, self |-> s]
Other(k, o, s) == [kind |-> k, mod |-> 0, ord |-> 0, at |-> o, self |-> s]
Entries(flags, fixups) == [flags |-> flags, fixups |-> fixups]
Plain == Entries("data", <<>>)
Place(b, s, f, p) == [base |-> b, size |-> s, first |-> f, pages |-> p]

\* Linkings of two objects apart from each other and below the thunks: one page
\* of the file each, more behind it, or two without anything to fix on them.
Layouts == {<<Place(2, 1, 1, 1), Place(4, 2, 2, 1)>>,
            <<Place(5, 3, 1, 1), Place(2, 3, 2, 2)>>,
            <<Place(4, 2, 1, 1), Place(2, 2, 2, 0)>>}

\* What the first page of the first object asks for.
Wishes == {<<>>,
           <<Import(1, 1, {1}, TRUE), Import(2, 0, {2}, FALSE)>>,
           <<Import(1, 1, {1, 2}, TRUE)>>,
           <<Import(1, 2, {2}, FALSE)>>,
           <<Import(1, 0, {1}, FALSE), Import(2, 0, {2}, TRUE)>>,
           <<Import(1, 4, {1}, TRUE), Import(4, 0, {2}, FALSE)>>,
           <<Import(3, 0, {1}, TRUE)>>,
           <<Other("internal", {1}, FALSE), Import(2, 2, {2}, FALSE)>>,
           <<Other("internal", {2}, TRUE), Other("name", {1}, FALSE)>>}

Second == {<<>>, <<Import(2, 0, {1}, TRUE), Import(2, 2, {2}, FALSE)>>}

Libs == {<<"MSG", "DOSCALLS">>, <<"DOSCALLS", "MSG">>, <<"PMWIN", "DOSCALLS">>,
         <<"DOSCALLS", "DOSCALLS">>}

Exe(libs, objs, table, start, stack) ==
    [libs |-> libs, objs |-> objs, table |-> table,
     start |-> [obj |-> 1, page |-> start], stack |-> [obj |-> 2, page |-> stack]]

MCExes ==
    {Exe(libs, objs, <<Entries("data", wishes),
                       Entries("zero", IF objs[2].pages = 1 THEN second ELSE <<>>), Plain>>, 0, 0) :
       libs \in Libs, objs \in Layouts, wishes \in Wishes, second \in Second}
    \cup {Exe(<<>>, objs, <<Entries("iterated", <<>>), Plain, Plain>>, 0, 1) : objs \in Layouts}
    \cup {Exe(<<>>, objs, <<Plain, Plain, Plain>>, 0, NoStack) : objs \in Layouts}

\* Two pages of code, as in HELLO.EXE, each with imports of its own.
HelloExes ==
    {Exe(<<"DOSCALLS">>, <<Place(2, 2, 1, 2), Place(4, 2, 3, 1)>>,
         <<Entries("data", <<Import(1, 0, {1}, TRUE)>>),
           Entries("data", <<Import(1, 2, {1}, TRUE)>>), Plain>>, 0, 1)}
=============================================================================
