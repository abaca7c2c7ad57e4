---------------------------- MODULE MC_GameTools ----------------------------
(* Small games of every layout ADF_open knows, whole, cut off and damaged,  *)
(* and rooms of both widths of length, some of whose blocks go back.        *)
EXTENDS GameTools

Script(n)   == SCOM \o << <<"size", n>> >> \o [k \in 1..n |-> <<"code", n>>] \o << <<"end">> >>
(* a script one of whose strings holds the signature *)
Quoting == SCOM \o << <<"size", 4>> >> \o SCOM \o << <<"end">> >>

Kinds(sections) == [k \in DOMAIN sections |-> <<sections[k].kind>>]

Counts(c, i, w, d, m, dict) ==
    [characters |-> c, inventories |-> i, views |-> w, dialogs |-> d,
     messages |-> m, hasdict |-> dict]

GameBaseCell(g) == << <<"gamebase", g.characters, g.inventories, g.views,
                        g.dialogs, g.messages, IF g.hasdict THEN 1 ELSE 0>> >>

SpriteFlags == << <<"flag", 17>>, <<"flag", 3>>, <<"flag", 16>> >>

Layout(v, g) == [NewADF(0) EXCEPT !.version = v, !.game = g]

(* a game of version v with the counts g and, where it has them, n scripts
   besides the global one and that of the dialogs *)
Game(v, g, n) ==
    << <<"sig">>, <<"version", v>> >> \o Kinds(VersionString(v))
    \o (IF v <= 12
        THEN Kinds(OldHeader) \o Script(1) \o Kinds(BonusSections(Layout(v, NoCounts)))
        ELSE Kinds(Capabilities(Layout(v, g))) \o GameBaseCell(g) \o Kinds(FontSections(Layout(v, g)))
             \o (IF v < 24 THEN <<>> ELSE << <<"sprites", 3>> >>) \o SpriteFlags
             \o Kinds(WorldSections(Layout(v, g)))
             \o Script(1)
             \o (IF v > 37 THEN Script(2) ELSE <<>>)
             \o (IF v >= 31 THEN << <<"count", n>> >> ELSE <<>>)
             \o (IF v >= 31 THEN FlattenSeq([k \in 1..n |-> Script(k)]) ELSE <<>>)
             \o Kinds(ViewSections(Layout(v, g)))
             \o Kinds(BonusSections(Layout(v, g))))

Small == Counts(1, 0, 1, 0, 0, FALSE)
Large == Counts(1, 2, 2, 1, 1, TRUE)

WholeGames == {Game(v, Small, 1) : v \in {11, 12, 19, 22, 26, 32, 37, 50}}
                  \cup {Game(v, Large, 2) : v \in {19, 24, 31, 40, 48}}

(* the sections whose readers look at what they read *)
Looked == {"sig", "verstr", "capabilities", "cursors", "interaction",
           "dictionary", "end", "character", "message", "dialogs", "guis",
           "plugins", "schema", "property", "viewnames", "itemnames"}

CutGames == UNION {{SubSeq(g, 1, n) : n \in 0..Len(g) - 1} :
                      g \in {Game(12, Small, 0), Game(19, Small, 0),
                             Game(32, Small, 0), Game(40, Large, 1)}}
BadGames == UNION {{[g EXCEPT ![n] = <<"bad">>] :
                       n \in {m \in DOMAIN g : g[m][1] \in Looked}} :
                      g \in {Game(12, Small, 0), Game(48, Large, 1)}}

(* games whose search for the signature goes wrong, and one of a version
   below zero *)
OddGames == {<< <<"sig">>, <<"version", 11>>, <<"oldhdr">>, <<"S">> >> \o Script(1)
                 \o << <<"viewjunk">> >>,
             << <<"sig">>, <<"version", 11>>, <<"oldhdr">> >> \o Quoting
                 \o Script(1),
             Game(-1, Small, 0)}

-----------------------------------------------------------------------------
Room(v, blocks) == << <<"room", v>> >> \o FlattenSeq(blocks) \o << <<"block", 255>> >>
Len4(n) == << <<"len", n>> >>
Len8(n) == << <<"len", n>>, <<"high">> >>

OldBlock(t, cells) == << <<"block", t>> >> \o Len4(Len(cells)) \o cells
NewBlock(t, cells) == << <<"block", t>> >> \o Len8(Len(cells)) \o cells
ExtBlock(t, cells) == << <<"block", 0>>, <<"name", t>> >> \o Len8(Len(cells)) \o cells

Source == << <<"len", 2>>, <<"text", 1>>, <<"text", 2>> >>
Names  == << <<"text", 3>> >>

WholeRooms ==
    {Room(29, <<OldBlock(2, Source), OldBlock(7, Script(1)), OldBlock(5, Names)>>),
     Room(32, <<NewBlock(7, Script(2)), ExtBlock(8, Names)>>),
     Room(33, <<ExtBlock(2, Source), ExtBlock(7, Script(1)), NewBlock(9, Names)>>)}

OddRooms ==
    {Room(29, <<OldBlock(5, Names)>>),                              \* no script
     Room(29, <<ExtBlock(7, Script(1))>>),                          \* too new
     Room(29, <<OldBlock(10, Names), OldBlock(7, Script(1))>>),     \* unknown block
     Room(29, <<OldBlock(7, Names)>>),                              \* no signature
     Room(29, <<OldBlock(2, Names), OldBlock(7, Script(1))>>),      \* source too short
     Room(29, <<OldBlock(5, SCOM), OldBlock(7, Script(1))>>),       \* another SCOM
     Room(29, <<OldBlock(7, SCOM \o << <<"bad">> >>)>>),            \* not a script
     SubSeq(Room(29, <<OldBlock(7, Script(1))>>), 1, 5)}            \* cut off

(* blocks whose length is negative: n back from behind the length *)
Back(t, n)    == << <<"block", t>> >> \o Len4(-n)
NewBack(t, n) == << <<"block", t>> >> \o Len8(-n)

BackRooms ==
    {Room(29, <<OldBlock(7, Script(1)), Back(5, 2)>>),              \* itself, for ever
     Room(29, <<OldBlock(5, Names), OldBlock(7, Script(1)), Back(8, 14)>>), \* from the first on
     Room(33, <<NewBlock(7, Script(1)), NewBack(5, 3)>>),
     Room(29, <<OldBlock(7, Script(1)), Back(5, 100)>>),            \* before the file
     Room(29, <<OldBlock(7, Script(1)), Back(2, 3)>>),              \* into the script
     \* an end inside a block that was passed over
     Room(29, <<OldBlock(7, Script(1)), OldBlock(5, << <<"block", 255>> >>), Back(8, 3)>>),
     \* a source of negative length, and the end inside the names before it
     Room(29, <<OldBlock(7, Script(1)), OldBlock(5, << <<"block", 255>> >>),
                <<<<"block", 2>>, <<"len", -3>>, <<"len", -4>>>> >>)}

MCTargets ==
    {[room |-> FALSE, cells |-> g] : g \in WholeGames \cup OddGames \cup CutGames \cup BadGames}
    \cup {[room |-> TRUE, cells |-> r] : r \in WholeRooms \cup OddRooms \cup BackRooms}

-----------------------------------------------------------------------------
To(which, obj) == [which |-> which, obj |-> obj]
Inject(stamps, args) == [tool |-> "inject", stamps |-> stamps, args |-> args]

MCCommands ==
    {[tool |-> "extract"],
     [tool |-> "alpha", sprite |-> -1], [tool |-> "alpha", sprite |-> 2],
     Inject(FALSE, <<To(1, "b")>>),
     Inject(FALSE, <<To(0, "a"), To(1, "b")>>),
     Inject(TRUE,  <<To(0, "a"), To(0, "b"), To(2, "a")>>)}

MCContents == {<<>>, Script(3)}
MCObjects ==
    {[a |-> [cells |-> Script(3), time |-> 0], b |-> [cells |-> Script(2), time |-> 1]],
     [a |-> [cells |-> Quoting,   time |-> 1], b |-> [cells |-> Script(3), time |-> 0]],
     [a |-> [cells |-> <<>>,      time |-> 0], b |-> [cells |-> Script(3), time |-> 1]]}
MCJunk == {0, 1, 7}

CellsOf(f) == {f[n] : n \in DOMAIN f}
ReadCells ==
    UNION ({CellsOf(t.cells) : t \in MCTargets} \cup {CellsOf(o) : o \in MCContents}
              \cup {CellsOf(o.a.cells) \cup CellsOf(o.b.cells) : o \in MCObjects})
WrittenCells == {<<"len", n>> : n \in 0..16} \cup {<<"high">>}
MCCells ==
    LET cells == ReadCells \cup WrittenCells
    IN  cells \cup {[c EXCEPT ![2] = WithoutAlpha(@)] : c \in {d \in cells : Len(d) > 1}}
=============================================================================
