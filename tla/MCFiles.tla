------------------------------- MODULE MCFiles -------------------------------
EXTENDS Files

A == <<65>>
B == <<98>>
D == <<68>>
bB == <<98, 66>>             \* mixed case: needs an entry for its long name
ABCD == <<65, 66, 67, 68>>   \* too long for a short name, as is the next one,
abce == <<97, 98, 99, 101>>  \* and both become what the one after is
A1 == <<65, 126, 49>>

RW == {"READ", "WRITE"}

Idle == [dirs |-> {}, setup |-> <<>>, paths |-> {}, modes |-> {}, reads |-> {}, writes |-> {},
         seeks |-> {}, lists |-> {}, stats |-> {}, ops |-> 0, troubles |-> 0, fails |-> 0,
         cuts |-> 0]

\* Two files written, sought and read in turn, until the volume is full.
Data == [Idle EXCEPT !.paths = {<<A>>, <<B>>}, !.modes = {RW \cup {"OPEN_ALWAYS"}},
                     !.setup = <<[path |-> <<A>>, size |-> 3]>>,
                     !.reads = {4}, !.writes = {1, 6},
                     !.seeks = {<<1, "SEEK_SET">>, <<3, "SEEK_END">>, <<-2, "SEEK_CUR">>},
                     !.ops = 6]

\* Files that are there already are read, emptied and appended to.
Again == [Idle EXCEPT !.paths = {<<A>>, <<B>>},
                      !.modes = {{"READ"}, {"WRITE", "CREATE_ALWAYS"},
                                 {"WRITE", "OPEN_ALWAYS", "SEEKEND"}, {"WRITE", "CREATE_NEW"}},
                      !.setup = <<[path |-> <<A>>, size |-> 5]>>,
                      !.reads = {1, 4}, !.writes = {3, 6}, !.seeks = {<<2, "SEEK_SET">>},
                      !.ops = 5]

\* The same with transfers that fail and power that goes.
Troubled == [Again EXCEPT !.modes = {{"READ"}, RW \cup {"OPEN_ALWAYS"}, {"WRITE", "CREATE_ALWAYS"}},
                          !.writes = {3}, !.reads = {4}, !.seeks = {}, !.ops = 5,
                          !.troubles = 1, !.fails = 6, !.cuts = 6]

\* Names that need room in the directory, of which some want the same short
\* name, created while the directory is listed.
Names == [Idle EXCEPT !.paths = {<<ABCD>>, <<abce>>, <<A1>>, <<D, bB>>},
                      !.modes = {{"WRITE", "CREATE_NEW"}}, !.dirs = {D},
                      !.lists = {<<>>, <<D>>}, !.stats = {<<abce>>},
                      !.ops = 7]

MCWorks == [Data |-> Data, Again |-> Again, Troubled |-> Troubled, Names |-> Names]
=============================================================================
