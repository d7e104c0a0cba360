---------------------------- MODULE Environment -----------------------------
(***************************************************************************)
(* The environment, kept twice: a table of the kernel for each process     *)
(* (kernel/env.c), which its children inherit, and the list of the C       *)
(* library inside the process (usr/lib/stdlib.c), which it reads.  A       *)
(* library call changes its own list, then the kernel's table.             *)
(*                                                                         *)
(* Keys and values are sequences of characters, since one key may begin    *)
(* with another and nothing keeps "=" out of a key.                        *)
(***************************************************************************)
EXTENDS Sequences, Integers

CONSTANTS MAX_ENV,  \* PROCESS_MAX_ENV, 32
          Chars,    \* the characters of a string
          Keys, Values,
          MaxEntries,  \* bound: entries of a process
          MaxNested     \* bound: processes

ASSUME EnvironmentAssumption ==
    /\ MAX_ENV \in Nat /\ MaxEntries \in Nat /\ MaxNested \in Nat \ {0}
    /\ \A s \in Keys \cup Values : s \in Seq(Chars) /\ Len(s) > 0
    /\ "=" \in Chars

VARIABLES envp,    \* the kernel's table of each process, the running one last
          environ, \* the library's list of each
          refused  \* auxiliary: whether its kernel table ever was full

envVars == <<envp, environ, refused>>

EnvInit == envp = << << >> >> /\ environ = << << >> >> /\ refused = <<FALSE>>

Current == Len(envp)

Entry(key, value) == key \o <<"=">> \o value

\* Mutant: what follows the key is not looked at.
Matches_Prefix(entry, key) == Len(entry) > Len(key) /\ SubSeq(entry, 1, Len(key)) = key

Matches(entry, key) ==
    Len(entry) > Len(key) /\ SubSeq(entry, 1, Len(key)) = key /\ entry[Len(key) + 1] = "="

Found(table, key) == {i \in DOMAIN table : Matches(table[i], key)}
First(set) == CHOOSE i \in set : \A j \in set : i <= j

\* EnvGet and getenv: the value, or nothing.
Lookup(table, key) ==
    IF Found(table, key) = {} THEN << >>
    ELSE LET entry == table[First(Found(table, key))] IN SubSeq(entry, Len(key) + 2, Len(entry))

\* EnvSet, and setenv on its own list, where room has no end.
Stored(table, key, value, room) ==
    IF Found(table, key) # {} THEN [table EXCEPT ![First(Found(table, key))] = Entry(key, value)]
    ELSE IF room THEN Append(table, Entry(key, value)) ELSE table

\* Mutant: the last entry goes instead.
Without_Last(table, i) == SubSeq(table, 1, Len(table) - 1)

Without(table, i) == SubSeq(table, 1, i - 1) \o SubSeq(table, i + 1, Len(table))

\* EnvUnset and unsetenv.
Removed(table, key) ==
    IF Found(table, key) = {} THEN table ELSE Without(table, First(Found(table, key)))

\* EnvSet drops what it has no room for.
HasRoom(table) == Len(table) < MAX_ENV

setenv(key, value, overwrite) ==
    /\ Found(environ[Current], key) = {} => Len(environ[Current]) < MaxEntries
    /\ IF Found(environ[Current], key) # {} /\ ~overwrite
       THEN UNCHANGED envVars
       ELSE /\ environ' = [environ EXCEPT ![Current] = Stored(@, key, value, TRUE)]
            /\ envp' = [envp EXCEPT ![Current] = Stored(@, key, value, HasRoom(@))]
            /\ refused' = [refused EXCEPT ![Current] =
                               @ \/ (Found(envp[Current], key) = {} /\ ~HasRoom(envp[Current]))]

unsetenv(key) ==
    /\ Found(environ[Current], key) # {}
    /\ environ' = [environ EXCEPT ![Current] = Removed(@, key)]
    /\ envp' = [envp EXCEPT ![Current] = Removed(@, key)]
    /\ UNCHANGED refused

\* Mutant: what the parent inherited itself, not what it has.
Inherited_Old == IF Current = 1 THEN << >> ELSE envp[Current - 1]

\* EnvInherit; the child's library copies what the kernel puts on its stack.
Inherited == envp[Current]

Exec ==
    /\ Current < MaxNested
    /\ envp' = Append(envp, Inherited)
    /\ environ' = Append(environ, Inherited)
    /\ refused' = Append(refused, FALSE)

Exit ==
    /\ Current > 1
    /\ envp' = SubSeq(envp, 1, Current - 1)
    /\ environ' = SubSeq(environ, 1, Current - 1)
    /\ refused' = SubSeq(refused, 1, Current - 1)

EnvNext ==
    \/ \E key \in Keys, value \in Values, overwrite \in BOOLEAN : setenv(key, value, overwrite)
    \/ \E key \in Keys : unsetenv(key)
    \/ Exec \/ Exit

EnvSpec == EnvInit /\ [][EnvNext]_envVars

-----------------------------------------------------------------------------
\* Of two keys, the longer one goes on from the shorter with a separator: an
\* entry of the longer one answers to the shorter one too.
Opens(key, other) ==
    /\ Len(key) < Len(other)
    /\ \A i \in DOMAIN key : other[i] = key[i]
    /\ other[Len(key) + 1] = "="

Apart(key, other) == key # other /\ ~Opens(key, other) /\ ~Opens(other, key)
Lone == {key \in Keys : \A other \in Keys \ {key} : Apart(key, other)}

Under(table, key) == {table[i] : i \in Found(table, key)}

\* What the kernel's table holds under a key the library's holds too, so that a
\* child never sees a value its parent has changed or unset; and the two are
\* the same list unless the kernel's was once full (kernel/env.c:15-54,
\* usr/lib/stdlib.c:22-82).  The first is said of keys whose entries no other
\* key answers to: of "a" and "a=" the two tables may hold entries in opposite
\* orders once one was refused, and the next call changes different ones.
KernelFollows ==
    \A p \in 1 .. Current :
        /\ \A key \in Lone : Under(envp[p], key) \subseteq Under(environ[p], key)
        /\ ~refused[p] => envp[p] = environ[p]

\* What a call has set is what is read back, in the process and, if it never
\* had too much, in a child; and another key still reads what it read, of keys
\* without the separator (usr/lib/stdlib.c:9-63).
Plain == {k \in Keys : \A i \in DOMAIN k : k[i] # "="}
SetIsRead ==
    [][\A key \in Keys, value \in Values :
           setenv(key, value, TRUE) =>
               /\ Lookup(environ'[Current], key) = value
               /\ ~refused'[Current] => Lookup(envp'[Current], key) = value
               /\ key \in Plain => \A other \in Plain \ {key} :
                      Lookup(environ'[Current], other) = Lookup(environ[Current], other)]_envVars

\* A child starts with its parent's environment, and whatever it does to it,
\* the parent finds its own when the child has ended.
ChildApart ==
    [][/\ Exec => (~refused[Current] => environ'[Current + 1] = environ[Current])
       /\ \A p \in 1 .. Current - 1 : envp'[p] = envp[p] /\ environ'[p] = environ[p]]_envVars
=============================================================================
