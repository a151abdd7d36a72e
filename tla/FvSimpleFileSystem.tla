------------------------- MODULE FvSimpleFileSystem -------------------------
(***************************************************************************)
(* The file system on a firmware volume, on a handle the thunk has given   *)
(* the FV2 protocol. The driver lists the files of the volume once, when   *)
(* it is opened first; a client holds the root, which all clients share,   *)
(* or handles of its own to the directory and to files.                    *)
(*                                                                         *)
(* Calls come one after the other. A name is a sequence of its parts, the  *)
(* extension .efi is one, without case; a path is a sequence of names,     *)
(* separators, "." and "..". Bytes are numbered.                           *)
(***************************************************************************)
EXTENDS Fv2OnFvThunk, FiniteSetsExt

CONSTANTS
  Volume,      \* the handle this file system is on
  Contents,    \* what may be on it: sequences of files, as GetNextFile finds them
  Handles,     \* pool memory for FV_FILESYSTEM_FILE
  Requests,    \* paths clients ask for
  MaxPosition  \* bound: the greatest position set, and the largest read

(* A file has a name, a type, its sections with their sizes, and a size.   *)
ASSUME FsAssumption ==
  /\ Volume \in Volumes /\ MaxPosition \in Nat /\ "root" \notin Handles
  /\ \A v \in Contents : \A f \in ToSet(v) :
       f.type \in {"executable", "freeform", "other"} /\ f.size \in Nat

VARIABLES
  content,  \* the files of the volume
  started,  \* the driver manages the handle: there is an FV_FILESYSTEM_INSTANCE
  root,     \* Instance->Root: none, bare (no FvFileInfo) or made
  infos,    \* Instance->FileInfoHead: files by number, the last one first
  file,     \* root and the open files
  short,    \* history: memory ran out while the files were listed
  overran   \* history: a read from beyond the end ran over the buffers

fsVars == <<content, started, root, infos, file, short, overran>>

Closed == [open |-> FALSE, dir |-> FALSE, file |-> 0, next |-> 0, pos |-> 0, given |-> << >>]
Directory == [Closed EXCEPT !.open = TRUE, !.dir = TRUE]
Clients == Handles \cup {"root"}

-----------------------------------------------------------------------------
(* Names and data of a file.                                               *)

FileName(f) == IF f.type = "executable" THEN Append(f.name, "efi") ELSE f.name

FvFsFindExecutableSection(f) ==
  SelectSeq(<<"pe32", "pic", "te">>, LAMBDA s : s \in DOMAIN f.sections)

(* What FvFsReadFile reads: a section, the file or nothing.                *)
Readable(f) ==
  \/ f.type # "executable"
  \/ FvFsFindExecutableSection(f) # << >>

FvFsGetFileSize(f) ==
  CASE f.type = "executable" /\ Readable(f) -> f.sections[FvFsFindExecutableSection(f)[1]]
    [] f.type = "executable" /\ ~Readable(f) -> 0
    [] f.type = "freeform" /\ "raw" \in DOMAIN f.sections -> f.sections["raw"]
    [] OTHER -> f.size

-----------------------------------------------------------------------------
(* TrimFilePathToAbsolutePath.                                             *)

Sep == <<"\\">>
Slash == <<"/">>
Dot == <<".">>
DotDot == <<"..">>

(* Where a pattern is first in a path, 0 if nowhere.                       *)
StrStr(p, pattern) ==
  LET at == {i \in 1 .. Len(p) - Len(pattern) + 1 : SubSeq(p, i, i + Len(pattern) - 1) = pattern}
  IN  IF at = {} THEN 0 ELSE Min(at)

RemoveLastItemFromPath(p) ==
  LET slashes == {i \in 1 .. Len(p) - 1 : p[i] = Sep}
  IN  IF slashes = {} THEN p ELSE SubSeq(p, 1, Max(slashes))

Repeated(p, Step(_)) ==
  LET after[k \in 0 .. Len(p)] == IF k = 0 THEN p ELSE Step(after[k - 1]) IN after[Len(p)]

Up(p) ==
  LET i == StrStr(p, <<Sep, DotDot, Sep>>)
  IN  IF i = 0 THEN p
      ELSE RemoveLastItemFromPath(SubSeq(p, 1, i - 1)) \o SubSeq(p, i + 3, Len(p))
UpAtEnd(p) ==
  LET i == StrStr(p, <<Sep, DotDot>>)
  IN  IF i # 0 /\ i = Len(p) - 1 THEN RemoveLastItemFromPath(SubSeq(p, 1, i - 1)) ELSE p
Here(p) ==
  LET i == StrStr(p, <<Sep, Dot, Sep>>)
  IN  IF i = 0 THEN p ELSE SubSeq(p, 1, i - 1) \o SubSeq(p, i + 2, Len(p))
HereAtEnd(p) ==
  LET i == StrStr(p, <<Sep, Dot>>)
  IN  IF i # 0 /\ i = Len(p) - 1 THEN SubSeq(p, 1, i) ELSE p
Slashes(p) ==
  LET i == StrStr(p, <<Sep, Sep>>)
  IN  IF i = 0 THEN p ELSE SubSeq(p, 1, i - 1) \o SubSeq(p, i + 1, Len(p))

TrimFilePathToAbsolutePath(path) ==
  LET p == [i \in DOMAIN path |-> IF path[i] = Slash THEN Sep ELSE path[i]]
  IN  Repeated(HereAtEnd(Repeated(UpAtEnd(Repeated(p, Up)), Here)), Slashes)

Trimmed ==
  [path \in Requests |->
     LET p == TrimFilePathToAbsolutePath(path)
     IN  IF p # << >> /\ p[1] = Sep THEN Tail(p) ELSE p]

-----------------------------------------------------------------------------
Init ==
  /\ ThunkInit
  /\ content \in Contents
  /\ started = FALSE /\ root = "none" /\ infos = << >>
  /\ file = [c \in Clients |-> Closed] /\ short = FALSE /\ overran = FALSE

FvSimpleFileSystemDriverStart ==
  /\ Volume \in fv2 /\ ~started
  /\ started' = TRUE
  /\ UNCHANGED <<content, root, infos, file, short, overran>>


FileHeadIsEmpty == \A h \in Handles : ~file[h].open

(* The root is not on FileHead: who still holds it then holds freed memory *)
(* (its use is not modelled), until the root is made again.                *)
FvSimpleFileSystemDriverStop ==
  /\ started /\ FileHeadIsEmpty
  /\ started' = FALSE /\ root' = "none" /\ infos' = << >>
  /\ file' = [file EXCEPT !["root"] = [Closed EXCEPT !.open = file["root"].open]]
  /\ short' = FALSE
  /\ UNCHANGED <<content, overran>>

First == IF infos = << >> THEN 0 ELSE 1

(* The files are listed when there is no root yet, and memory may run out  *)
(* before the root has its info, or after n files. The root stays, and the *)
(* next call succeeds with what there is.                                  *)
NoMemoryForRootInfo ==
  /\ started /\ root = "none"
  /\ root' = "bare" /\ short' = TRUE
  /\ file' = [file EXCEPT !["root"] = [Directory EXCEPT !.open = FALSE]]
  /\ UNCHANGED <<content, started, infos, overran>>

FirstOpenVolume(n) ==
  /\ started /\ root = "none"
  /\ root' = "made"
  /\ infos' = [i \in 1 .. n |-> n + 1 - i]
  /\ short' = (n < Len(content))
  /\ file' = [file EXCEPT !["root"] =
                IF short' THEN [Directory EXCEPT !.open = FALSE]
                ELSE [Directory EXCEPT !.next = IF n = 0 THEN 0 ELSE 1]]
  /\ UNCHANGED <<content, started, overran>>

OpenVolumeAgain ==
  /\ started /\ root # "none"
  /\ file' = [file EXCEPT !["root"] = [Directory EXCEPT !.next = First]]
  /\ UNCHANGED <<content, started, root, infos, short, overran>>

(* The first entry of the list that has the name, or the name with the     *)
(* extension if it has none.                                               *)
Matches(name) == {i \in DOMAIN infos : FileName(content[infos[i]]) = name}

Find(name) ==
  IF Matches(name) # {} THEN {infos[Min(Matches(name))]}
  ELSE IF name[Len(name)] # "efi" /\ Matches(Append(name, "efi")) # {}
       THEN {infos[Min(Matches(Append(name, "efi")))]}
       ELSE {}

(* The file a path opens, 0 for what the handle it is asked of stands for. *)
(* No file has a separator in its name; names that lost the one between    *)
(* them are one name.                                                      *)
Opened(path) ==
  LET p == Trimmed[path] IN
  IF p \in {<< >>, <<Dot>>} THEN {0}
  ELSE IF Sep \in ToSet(p) THEN {} ELSE Find(FlattenSeq(p))

FvSimpleFileSystemOpen(path, c, h) ==
  /\ h \in Handles /\ ~file[h].open /\ file[c].open /\ root # "none"
  /\ \E i \in Opened(path) :
       file' = [file EXCEPT ![h] =
         IF i # 0 THEN [Closed EXCEPT !.open = TRUE, !.file = i]
         ELSE [Closed EXCEPT !.open = TRUE, !.dir = file[c].dir, !.file = file[c].file, !.next = First]]
  /\ UNCHANGED <<content, started, root, infos, short, overran>>

(* Close, and Delete, which closes; nothing happens to the root.           *)
Close(h) ==
  /\ h \in Handles /\ file[h].open
  /\ file' = [file EXCEPT ![h] = Closed]
  /\ UNCHANGED <<content, started, root, infos, short, overran>>

(* The entry after entry i of the list.                                    *)
NextNode(i) == IF i = Len(infos) THEN 0 ELSE i + 1

(* Mutant: the directory moves on although the buffer was too small.       *)
MovesOn(enough) == TRUE
InfoWasGiven(enough) == enough

ReadDirectory(c, enough) ==
  /\ file[c].open /\ file[c].dir /\ file[c].next # 0
  /\ file' = [file EXCEPT
       ![c].next = IF InfoWasGiven(enough) THEN NextNode(@) ELSE @,
       ![c].given = IF enough THEN Append(@, infos[file[c].next]) ELSE @]
  /\ UNCHANGED <<content, started, root, infos, short, overran>>

BytesRead(n, pos, size) == IF n + pos > size THEN size - pos ELSE n

ReadFile(h, n) ==
  LET f == content[file[h].file]
      size == FvFsGetFileSize(f)
      bytes == BytesRead(n, file[h].pos, size) IN
  /\ file[h].open /\ ~file[h].dir /\ Readable(f) /\ file[h].pos <= size
  /\ file' = [file EXCEPT ![h].pos = @ + bytes,
                          ![h].given = @ \o [i \in 1 .. bytes |-> file[h].pos + i]]
  /\ UNCHANGED <<content, started, root, infos, short, overran>>

(* The length that is left wraps: the copy runs over both buffers, which   *)
(* leaves nothing defined, and the position comes out as the end.          *)
ReadFileBeyondEnd(h) ==
  LET f == content[file[h].file] IN
  /\ file[h].open /\ ~file[h].dir /\ Readable(f) /\ file[h].pos > FvFsGetFileSize(f)
  /\ file' = [file EXCEPT ![h].pos = FvFsGetFileSize(f)]
  /\ overran' = TRUE
  /\ UNCHANGED <<content, started, root, infos, short>>

(* At the end of a directory DirReadNext is NULL and stays so.             *)
RewindDirectory(c) ==
  /\ file[c].open /\ file[c].dir /\ file[c].next # 0
  /\ file' = [file EXCEPT ![c].next = First, ![c].given = << >>]
  /\ UNCHANGED <<content, started, root, infos, short, overran>>

EndOfFile == MaxPosition + 1
SetPosition(h, p) ==
  /\ file[h].open /\ ~file[h].dir
  /\ file' = [file EXCEPT
       ![h].pos = IF p = EndOfFile THEN FvFsGetFileSize(content[file[h].file]) ELSE p,
       ![h].given = << >>]
  /\ UNCHANGED <<content, started, root, infos, short, overran>>

FsStep ==
  \/ FvSimpleFileSystemDriverStart \/ FvSimpleFileSystemDriverStop
  \/ NoMemoryForRootInfo \/ \E n \in 0 .. Len(content) : FirstOpenVolume(n)
  \/ OpenVolumeAgain
  \/ \E path \in Requests, c \in Clients, h \in Handles : FvSimpleFileSystemOpen(path, c, h)
  \/ \E h \in Handles : Close(h)
  \/ \E c \in Clients, enough \in BOOLEAN : ReadDirectory(c, enough)
  \/ \E h \in Handles, n \in 1 .. MaxPosition : ReadFile(h, n)
  \/ \E h \in Handles : ReadFileBeyondEnd(h)
  \/ \E c \in Clients : RewindDirectory(c)
  \/ \E h \in Handles, p \in 0 .. EndOfFile : SetPosition(h, p)

FsNext == ~overran /\ FsStep

Next ==
  \/ ThunkNext /\ UNCHANGED fsVars
  \/ FsNext /\ UNCHANGED thunkVars

(* The firmware dispatches notifications and the loop in one ends.         *)
Spec ==
  /\ Init /\ [][Next]_<<thunkVars, fsVars>>
  /\ WF_thunkVars(Fv2NotificationEvent /\ UNCHANGED fsVars)

-----------------------------------------------------------------------------
(* Properties.                                                             *)

TypeOK ==
  /\ ThunkTypeOK
  /\ content \in Contents /\ {started, short, overran} \subseteq BOOLEAN
  /\ root \in {"none", "bare", "made"}
  /\ ToSet(infos) \subseteq DOMAIN content /\ IsInjective(infos)
  /\ \A c \in Clients : file[c].next \in 0 .. Len(infos) /\ file[c].pos \in Nat

(* A file or directory that is open is on an instance that is there, and   *)
(* points at entries of its list: nothing its holder may use is freed.     *)
HandlesAreLive ==
  \A h \in Handles :
    file[h].open =>
      /\ started /\ root # "none"
      /\ file[h].dir \/ file[h].file \in ToSet(infos)
      /\ file[h].dir <=> file[h].file = 0

(* The listing of a directory has every file of the volume once, the ones  *)
(* already given before the ones still to come, unless memory ran out when *)
(* the volume was opened first; whoever reads, rewinds or opens meanwhile. *)
ListingIsWhole ==
  /\ root = "made" /\ ~short => ToSet(infos) = DOMAIN content
  /\ \A c \in Clients :
       file[c].open /\ file[c].dir =>
         file[c].given \o (IF file[c].next = 0 THEN << >>
                           ELSE SubSeq(infos, file[c].next, Len(infos))) = infos

(* Reads give the bytes from where the position was set, in order, without *)
(* a gap and none beyond the end.                                          *)
ReadsAreContiguous ==
  \A h \in Handles :
    file[h].open /\ ~file[h].dir =>
      LET n == Len(file[h].given) IN
      /\ file[h].given = [i \in 1 .. n |-> file[h].pos - n + i]
      /\ n > 0 => file[h].pos <= FvFsGetFileSize(content[file[h].file])

(* What a path names, by its components, from the root.                    *)
Components(path) == SelectSeq(path, LAMBDA t : t \notin {Sep, Slash, Dot})
Canonical(path) ==
  LET names == Components(path)
      walk[k \in 0 .. Len(names)] ==
        IF k = 0 THEN << >>
        ELSE LET before == walk[k - 1] IN
             IF names[k] # DotDot THEN Append(before, names[k])
             ELSE IF before = << >> THEN << >> ELSE Front(before)
  IN  walk[Len(names)]
CanonicalPath == [path \in Requests |-> Canonical(path)]

(* A path opens the file its components name, with "." and ".." in it, and *)
(* a name without extension the executable only if no file has just that   *)
(* name. There are no directories but the root.                            *)
IsResolved(path) ==
  LET components == CanonicalPath[path]
      name == components[1]
      named(x) == {i \in ToSet(infos) : FileName(content[i]) = x}
      sought == IF named(name) = {} /\ Last(name) # "efi" THEN Append(name, "efi") ELSE name IN
  CASE components = << >> -> Opened(path) = {0}
    [] Len(components) = 1 -> /\ Opened(path) \subseteq named(sought)
                              /\ named(sought) # {} => Cardinality(Opened(path)) = 1
    [] OTHER -> Opened(path) = {}

(* Paths without "." and "..", and paths from the root on whose ".." come  *)
(* after as many names, with one separator and no "." before them; which   *)
(* end in a name, or name the root.                                        *)
Trims ==
  [path \in Requests |->
     LET is(i, t) == i \in DOMAIN path /\ path[i] = t
         slash(i) == is(i, Sep) \/ is(i, Slash)
         names(k) == Cardinality({i \in 1 .. k : ~slash(i) /\ ~is(i, Dot) /\ ~is(i, DotDot)})
         ups(k) == Cardinality({i \in 1 .. k : is(i, DotDot)}) IN
     /\ \/ ToSet(path) \cap {Dot, DotDot} = {}
        \/ /\ slash(1)
           /\ \A k \in DOMAIN path :
                is(k, DotDot) => /\ ups(k) <= names(k)
                                 /\ \A i \in 1 .. k : ~is(i, Dot) /\ (slash(i) => ~slash(i + 1))
     /\ CanonicalPath[path] = << >> \/ Last(path) \notin {Sep, Slash, Dot, DotDot}]

PathsAreResolved == \A path \in Requests : Trims[path] => IsResolved(path)

=============================================================================
