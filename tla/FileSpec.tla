------------------------------ MODULE FileSpec ------------------------------
(***************************************************************************)
(* What the file system promises to programs: a write-behind store.  Every  *)
(* file exists three times.  files is what the programs that read and       *)
(* write see, stored what a program sees that opens the file after those    *)
(* that have it open are gone, safe what there is after a power cut.  The   *)
(* three follow one another: in every step a file of a lower store keeps    *)
(* its length, or gets that of a store above, or is emptied, and each unit  *)
(* of it is the one it was or one above.                                   *)
(*                                                                         *)
(* known gives the paths a file is found by: its own and, with a long name,  *)
(* the one with its short name.                                            *)
(*                                                                         *)
(* ret is what the last call returned: which call it was, its result, the   *)
(* count or offset it was asked for and the data it moved.  "CUT" is a call  *)
(* during which the power went.                                            *)
(***************************************************************************)
EXTENDS Integers, Sequences

CONSTANTS
    Handles,        \* what open files are known by
    Shut,           \* a handle that has no file
    Paths,
    Modes           \* sets of the FA_ flags

VARIABLES files, stored, safe, known, open, ret

svars == <<files, stored, safe, known, open, ret>>

Least(a, b) == IF a < b THEN a ELSE b
Slice(s, from, n) == SubSeq(s, from + 1, Least(from + n, Len(s)))

\* The file s with data put at pos.
Overwritten(s, pos, data) ==
    [i \in 1 .. (IF pos + Len(data) > Len(s) THEN pos + Len(data) ELSE Len(s)) |->
       IF i > pos /\ i <= pos + Len(data) THEN data[i - pos] ELSE s[i]]

\* Every unit of s is, at its place, one of one of the files in S.
MixOf(s, S) == \A i \in DOMAIN s : \E t \in S : i \in DOMAIN t /\ s[i] = t[i]

\* p as a function's value, <<>> where the file is not there yet.
In(store, p) == IF p \in DOMAIN store THEN store[p] ELSE <<>>

\* A store follows the stores above it, as they were and as they are after
\* the step.
Lags(low, low2, above) ==
    /\ DOMAIN low \subseteq DOMAIN low2
    /\ \A p \in DOMAIN low2 :
         LET newer == {In(low, p)} \cup {In(s, p) : s \in above} IN
         /\ \E s \in above : p \in DOMAIN s
         /\ Len(low2[p]) \in {Len(s) : s \in newer} \cup {0}
         /\ MixOf(low2[p], newer)

Behind ==
    /\ \A p \in DOMAIN known : known'[p] = known[p]
    /\ Lags(stored, stored', {files, files'})
    /\ Lags(safe, safe', {stored, files, stored', files'})

\* The call that returned ret' was made through h and left the others alone.
Through(h, call) ==
    /\ ret'.call = call
    /\ open[h] # Shut
    /\ \A g \in Handles \ {h} : open'[g] = open[g]
    /\ Behind

Stays(h, call) == Through(h, call) /\ open'[h] # Shut

Same(p) ==
    /\ DOMAIN files' = DOMAIN files
    /\ \A q \in DOMAIN files \ {p} : files'[q] = files[q]

Worked == ret'.res \in {"OK", "CUT"}
-----------------------------------------------------------------------------
Init ==
    /\ files = stored /\ stored = safe
    /\ open = [h \in Handles |-> Shut]

\* Opening finds the file, or makes an empty one, which is found by no path of
\* another; a call that fails may have emptied the file.
Open(h, p, mode) ==
    LET found == {q \in DOMAIN files : p \in known[q]}
        makes == mode \cap {"CREATE_ALWAYS", "OPEN_ALWAYS", "CREATE_NEW"} # {}
        there == found # {}
        q == IF there THEN CHOOSE x \in found : TRUE ELSE p
        emptied == [x \in DOMAIN files \cup {q} |-> IF x = q THEN <<>> ELSE files[x]]
    IN /\ ret'.call = "open"
       /\ open[h] = Shut
       /\ \A g \in Handles \ {h} : open'[g] = open[g]
       /\ Behind
       /\ \/ /\ Worked
             /\ there \/ makes
             /\ ~(there /\ "CREATE_NEW" \in mode)
             /\ files' = IF there /\ "CREATE_ALWAYS" \notin mode THEN files ELSE emptied
             /\ \A x \in DOMAIN files' : x # q => known'[x] \cap known'[q] = {}
             /\ open'[h] # Shut
             /\ open'[h].path = q
             /\ open'[h].pos = IF "SEEKEND" \in mode THEN Len(files'[q]) ELSE 0
             /\ open'[h].mode = mode \cup (IF there THEN {} ELSE {"CREATE_ALWAYS"})
          \/ /\ open' = open
             /\ \/ ret'.res \in {"NO_FILE", "NO_PATH"} /\ files' = files /\ ~there
                \/ ret'.res = "EXIST" /\ files' = files /\ there
                \/ ret'.res \in {"DENIED", "INVALID_NAME"} /\ files' = files /\ ~there
                \/ /\ ret'.res \in {"DISK_ERR", "CUT"}
                   /\ files' = files \/ (there /\ makes /\ files' = emptied)

\* A handle whose call failed once answers every call like that.
Sick(h) ==
    /\ \E call \in {"read", "write", "seek"} : Through(h, call)
    /\ open[h].sick
    /\ ret'.res # "OK"
    /\ files' = files /\ open' = open

Read(h) ==
    LET o == open[h]
        got == Slice(files[o.path], o.pos, ret'.want)
    IN /\ Stays(h, "read") /\ ~o.sick
       /\ files' = files
       /\ \/ /\ Worked /\ "READ" \in o.mode
             /\ ret'.data = got
             /\ open'[h] = [o EXCEPT !.pos = @ + Len(got)]
          \/ ret'.res \in {"DENIED", "CUT"} /\ "READ" \notin o.mode /\ open' = open
          \/ ret'.res = "DISK_ERR" /\ open'[h].path = o.path /\ open'[h].sick

\* A write that fails has put some of its data at its place.
Write(h) ==
    LET o == open[h]
        new == Overwritten(files[o.path], o.pos, ret'.data)
    IN /\ Stays(h, "write") /\ ~o.sick
       /\ Same(o.path)
       /\ \/ /\ Worked /\ "WRITE" \in o.mode
             /\ Len(ret'.data) <= ret'.want
             /\ files'[o.path] = new
             /\ open'[h] = [o EXCEPT !.pos = @ + Len(ret'.data), !.changed = TRUE]
          \/ ret'.res \in {"DENIED", "CUT"} /\ "WRITE" \notin o.mode /\ open' = open /\ files' = files
          \/ /\ ret'.res = "DISK_ERR" /\ open'[h].path = o.path /\ open'[h].sick
             /\ Len(files'[o.path]) \in Len(files[o.path]) .. Len(new)
             /\ MixOf(files'[o.path], {files[o.path], new})

\* A file open for writing is stretched by a seek beyond its end, with
\* whatever the disk has there, as far as the volume has room.
Seek(h) ==
    LET o == open[h]
        size == Len(files[o.path])
        stretched == /\ Len(files'[o.path]) >= size
                     /\ SubSeq(files'[o.path], 1, size) = files[o.path]
    IN /\ Stays(h, "seek") /\ ~o.sick
       /\ Same(o.path)
       /\ \/ /\ Worked /\ "WRITE" \notin o.mode
             /\ open' = [open EXCEPT ![h].pos = Least(ret'.want, size)]
             /\ files' = files
          \/ /\ Worked /\ "WRITE" \in o.mode
             /\ open'[h].pos <= ret'.want
             /\ open'[h].pos < ret'.want => open'[h].pos >= size
             /\ open'[h] = [o EXCEPT !.pos = open'[h].pos, !.changed = @ \/ open'[h].pos > size]
             /\ stretched
             /\ Len(files'[o.path]) = IF open'[h].pos > size THEN open'[h].pos ELSE size
          \/ /\ ret'.res = "DISK_ERR" /\ open'[h].path = o.path /\ open'[h].sick
             /\ stretched

\* Once a file that was changed is closed without an error it is safe.  What
\* a failed call wrote into a file not changed before is dropped in silence.
Close(h) ==
    LET o == open[h] IN
    /\ Through(h, "close")
    /\ open'[h] = Shut
    /\ Same(o.path)
    /\ \/ /\ ret'.res = "OK" /\ o.changed /\ files' = files
          /\ o.path \in DOMAIN safe'
          /\ stored'[o.path] = files[o.path] /\ safe'[o.path] = files[o.path]
       \/ ret'.res = "OK" /\ ~o.changed /\ ~o.sick /\ files' = files
       \/ ret'.res = "CUT" /\ files' = files
       \/ /\ ret'.res = "DISK_ERR" \/ (o.sick /\ ~o.changed)
          /\ files'[o.path] = stored'[o.path]

\* A program ends with its files open: what they had not stored is lost.
Exit ==
    /\ ret'.call = "exit"
    /\ open' = [h \in Handles |-> Shut]
    /\ files' = stored
    /\ UNCHANGED <<stored, safe, known>>

\* Looking around changes nothing.
Look == ret'.call = "look" /\ UNCHANGED <<files, known, open>> /\ Behind

PowerOn ==
    /\ ret.res = "CUT"
    /\ open' = [h \in Handles |-> Shut]
    /\ files' = safe /\ stored' = safe /\ safe' = safe
-----------------------------------------------------------------------------
Next ==
    \/ \E h \in Handles : \/ \E p \in Paths, mode \in Modes : Open(h, p, mode)
                          \/ Sick(h) \/ Read(h) \/ Write(h) \/ Seek(h) \/ Close(h)
    \/ Exit \/ Look \/ PowerOn

Spec == Init /\ [][Next]_svars
=============================================================================
