------------------------------- MODULE Upload -------------------------------
(* The folder of WebAssembly files: the upload utility (http_upload.c), a    *)
(* process of its own, writes the bodies of POST /upload into it, while the  *)
(* HTTP thread of the bridge reads the files it is told to install           *)
(* (read_file_to_buffer under rt_req_install).  Nothing coordinates the two. *)
EXTENDS Integers, Sequences, FiniteSets

CONSTANTS
    Posts,        \* what is posted: [form, name, escaped, size], see below
    OkChars,      \* the characters a file name may have
    MaxName,      \* the longest name that fits arg_name (98)
    DiskMayFail,  \* whether files cannot always be opened and written
    MaxUploads, MaxInstalls   \* bounds

ASSUME UploadAssumption ==
    /\ MaxName \in Nat /\ MaxUploads \in Nat /\ MaxInstalls \in Nat
    /\ DiskMayFail \in BOOLEAN
    /\ "_" \in OkChars
    /\ \A r \in Posts : /\ r.form \in {"named", "bare", "unnamed"}
                        /\ r.name \in Seq(STRING) /\ r.escaped \in BOOLEAN /\ r.size \in Nat

VARIABLES
    disk,      \* the files of the folder, each a sequence of bytes
    up,        \* the handler of the upload utility: pc, number of the post, bytes left
    posted,    \* history: the posts, with their answers and whether bytes were lost
    inst,      \* the install on the bridge's HTTP thread: pc, file, size
    overlap,   \* history: an upload touched the file while the install read it
    installed  \* history: what installs sent to the runtime; no bytes when refused

vars == <<disk, up, posted, inst, overlap, installed>>

Least(a, b) == IF a < b THEN a ELSE b

-----------------------------------------------------------------------------
(* A body is name=<name>&<bytes> in the form "named", name=<name> in the     *)
(* form "bare", <bytes> in the form "unnamed".  Where the name is escaped,   *)
(* each character of it that is no ok_char takes three bytes (%2F).  A byte  *)
(* is <<u, i>>: the i-th one of the program of post u, or none of a program  *)
(* (u = 0).                                                                  *)
Escapes(r) == IF r.escaped THEN Cardinality({i \in DOMAIN r.name : r.name[i] \notin OkChars}) ELSE 0
FieldLength(r) ==
    CASE r.form = "named"   -> 5 + Len(r.name) + 2 * Escapes(r) + 1
      [] r.form = "bare"    -> 5 + Len(r.name) + 2 * Escapes(r)
      [] r.form = "unnamed" -> 0

Program(u, r) == IF r.form = "bare" THEN <<>> ELSE [i \in 1 .. r.size |-> <<u, i>>]
Body(u, r)    == [i \in 1 .. FieldLength(r) |-> <<0, 0>>] \o Program(u, r)

(* mg_get_http_var (external): the decoded name, cut when it does not fit,   *)
(* and whether it was found and fits.                                        *)
ArgName(r) == IF r.form = "unnamed" THEN <<>> ELSE SubSeq(r.name, 1, Least(Len(r.name), MaxName))
Found(r)   == r.form # "unnamed" /\ Len(r.name) <= MaxName

(* Seeded fault: the & is not counted. *)
FaultParamLen(r) == Len(ArgName(r)) + 5

(* strlen(arg_name) + strlen("name") + 2 *)
ParamLen(r) == Len(ArgName(r)) + 6

(* The bytes from file_buf on.  Of a body shorter than ParamLen the length,  *)
(* unsigned, comes out near 2^32, and what lies behind the body in memory is *)
(* written: it stands for <<0, 1>>.                                          *)
FileBytes(u, r) ==
    IF Len(Body(u, r)) < ParamLen(r) THEN <<<<0, 1>>>>
    ELSE SubSeq(Body(u, r), ParamLen(r) + 1, Len(Body(u, r)))

Underflows(r) == Len(Body(0, r)) < ParamLen(r)

(* Seeded fault: the name is used as it is. *)
FaultUnsanitized(name) == name

Sanitized(name) == [i \in DOMAIN name |-> IF name[i] \in OkChars THEN name[i] ELSE "_"]

FileOf(r) == Sanitized(ArgName(r))

-----------------------------------------------------------------------------
Init ==
    /\ disk = [f \in {} |-> <<>>]
    /\ up = [pc |-> "poll", u |-> 0, left |-> <<>>]
    /\ posted = <<>>
    /\ inst = [pc |-> "idle", file |-> <<>>, size |-> 0]
    /\ overlap = FALSE
    /\ installed = <<>>

Reading(f) == inst.pc # "idle" /\ inst.file = f
Writing(f) == up.pc = "write" /\ FileOf(posted[up.u].post) = f

WithFile(f, bytes) == [g \in DOMAIN disk \cup {f} |-> IF g = f THEN bytes ELSE disk[g]]

(* Seeded fault: the file is opened for appending. *)
FaultKept(f) == IF f \in DOMAIN disk THEN disk[f] ELSE <<>>

(* fopen(filename, "w") *)
Opened(f) == <<>>

(* file_upload up to fopen.  A post without a name is answered 400 and       *)
(* written all the same.  When fopen fails, fwrite gets NULL for the file.   *)
StartUpload(r) ==
    LET u == Len(posted) + 1
        f == FileOf(r)
    IN  /\ up.pc = "poll" /\ u <= MaxUploads
        /\ posted' = Append(posted, [post |-> r, lost |-> FALSE,
                                     answers |-> IF Found(r) THEN <<>> ELSE <<400>>])
        /\ \/ /\ DiskMayFail
              /\ up' = [up EXCEPT !.pc = "dead", !.u = u]
              /\ UNCHANGED <<disk, overlap>>
           \/ /\ up' = [pc |-> "write", u |-> u, left |-> FileBytes(u, r)]
              /\ disk' = WithFile(f, Opened(f))
              /\ overlap' = (overlap \/ Reading(f))
        /\ UNCHANGED <<inst, installed>>

(* A part of the bytes goes out, in fwrite or in fclose.  On a full disk it  *)
(* and the rest are lost, which fwrite's caller does not look at.            *)
WritePart ==
    /\ up.pc = "write" /\ up.left # <<>>
    /\ LET f == FileOf(posted[up.u].post)
       IN  /\ overlap' = (overlap \/ Reading(f))
           /\ \/ \E n \in 1 .. Len(up.left) :
                    /\ disk' = WithFile(f, disk[f] \o SubSeq(up.left, 1, n))
                    /\ up' = [up EXCEPT !.left = SubSeq(@, n + 1, Len(@))]
                    /\ UNCHANGED posted
              \/ /\ DiskMayFail
                 /\ up' = [up EXCEPT !.left = <<>>]
                 /\ posted' = [posted EXCEPT ![up.u].lost = TRUE]
                 /\ UNCHANGED disk
    /\ UNCHANGED <<inst, installed>>

(* Reading behind the body may also end the process, which nobody restarts.  *)
DieReading ==
    /\ up.pc = "write" /\ up.left # <<>> /\ Underflows(posted[up.u].post)
    /\ up' = [up EXCEPT !.pc = "dead"]
    /\ UNCHANGED <<disk, posted, inst, overlap, installed>>

FinishUpload ==
    /\ up.pc = "write" /\ up.left = <<>>
    /\ up' = [up EXCEPT !.pc = "poll"]
    /\ posted' = [posted EXCEPT ![up.u].answers = Append(@, 200)]
    /\ UNCHANGED <<disk, inst, overlap, installed>>

-----------------------------------------------------------------------------
(* The number of the last post that was written to f, 0 for none. *)
LatestOf(f) ==
    LET writes == {u \in DOMAIN posted : FileOf(posted[u].post) = f}
    IN  IF writes = {} THEN 0 ELSE CHOOSE u \in writes : \A v \in writes : v <= u

Outcome(f, bytes) ==
    [file |-> f, bytes |-> bytes, overlap |-> overlap, latest |-> LatestOf(f)]

Idle == [pc |-> "idle", file |-> <<>>, size |-> 0]

(* open(filename, O_RDONLY) *)
OpenFile(f) ==
    /\ inst.pc = "idle" /\ Len(installed) < MaxInstalls
    /\ IF f \in DOMAIN disk
       THEN /\ inst' = [pc |-> "opened", file |-> f, size |-> 0]
            /\ overlap' = Writing(f)
            /\ UNCHANGED installed
       ELSE /\ installed' = Append(installed, Outcome(f, <<>>))
            /\ UNCHANGED <<inst, overlap>>
    /\ UNCHANGED <<disk, up, posted>>

(* fstat and malloc *)
StatFile ==
    /\ inst.pc = "opened"
    /\ inst' = [inst EXCEPT !.pc = "measured", !.size = Len(disk[inst.file])]
    /\ UNCHANGED <<disk, up, posted, overlap, installed>>

(* Seeded fault: read_size is not compared, the rest of the buffer is as     *)
(* malloc gave it.                                                           *)
FaultShortReadKept(bytes, size) ==
    bytes \o [i \in 1 .. size - Len(bytes) |-> <<0, 2>>]

(* A buffer is returned when as many bytes were read as fstat told of. *)
BufferOf(bytes, size) == IF Len(bytes) < size THEN <<>> ELSE bytes

(* read and close; rt_req_install sends what is not empty to the runtime. *)
ReadFile ==
    /\ inst.pc = "measured"
    /\ LET f     == inst.file
           bytes == SubSeq(disk[f], 1, Least(Len(disk[f]), inst.size))
       IN  installed' = Append(installed, Outcome(f, BufferOf(bytes, inst.size)))
    /\ inst' = Idle /\ overlap' = FALSE
    /\ UNCHANGED <<disk, up, posted>>

Next ==
    \/ \E r \in Posts : StartUpload(r) \/ OpenFile(FileOf(r))
    \/ WritePart
    \/ DieReading
    \/ FinishUpload
    \/ StatFile
    \/ ReadFile

Spec == Init /\ [][Next]_vars

-----------------------------------------------------------------------------
(* Every variable holds a value of its kind; the names of files are made of  *)
(* ok_chars only; every post but the one in the works is answered 200 in the *)
(* end, after a 400 if it had no name that fits.                             *)
TypeOK ==
    /\ \A f \in DOMAIN disk : f \in Seq(OkChars) /\ LatestOf(f) # 0
    /\ up.pc \in {"poll", "write", "dead"} /\ up.u \in 0 .. Len(posted)
    /\ inst.pc \in {"idle", "opened", "measured"} /\ inst.size \in Nat
    /\ overlap \in BOOLEAN
    /\ \A u \in DOMAIN posted :
          posted[u].answers = (IF Found(posted[u].post) THEN <<>> ELSE <<400>>)
                                \o (IF u = up.u /\ up.pc # "poll" THEN <<>> ELSE <<200>>)

(* What the utility is meant for: a name given as it is, then the program.   *)
Plain(r) == r.form = "named" /\ Found(r) /\ Escapes(r) = 0

Sound(u) == Plain(posted[u].post) /\ ~posted[u].lost /\ posted[u].answers = <<200>>

ProgramOf(u) == Program(u, posted[u].post)

(* http_upload.c: "Saves files sent to the /upload endpoid".  The file of a  *)
(* post that was answered 200 holds the program byte by byte until another   *)
(* post replaces it, whatever name the other was given in.                   *)
SavedAsSent ==
    \A u \in DOMAIN posted :
        LET f == FileOf(posted[u].post)
        IN  Sound(u) /\ LatestOf(f) = u => f \in DOMAIN disk /\ disk[f] = ProgramOf(u)

(* However uploads and installs overlap, the runtime never gets a mixture of *)
(* two programs, nor memory that was not read: an install sends the bytes    *)
(* one post had written to the file when it was read.                        *)
OneProgram ==
    \A n \in DOMAIN installed :
        installed[n].bytes # <<>> =>
            \E u \in DOMAIN posted :
                LET r == posted[u].post
                IN  /\ FileOf(r) = installed[n].file
                    /\ Len(installed[n].bytes) <= Len(FileBytes(u, r))
                    /\ installed[n].bytes = SubSeq(FileBytes(u, r), 1, Len(installed[n].bytes))

(* An install that no upload of the file overlaps sends the whole program    *)
(* uploaded last, and is refused only when there is none or it is empty.     *)
InstallsTheUpload ==
    \A n \in DOMAIN installed :
        LET i == installed[n]
        IN  /\ ~i.overlap /\ i.latest = 0 => i.bytes = <<>>
            /\ ~i.overlap /\ i.latest # 0 /\ Sound(i.latest) => i.bytes = ProgramOf(i.latest)

=============================================================================
