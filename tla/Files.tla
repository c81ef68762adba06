----------------------------- MODULE Files -----------------------------
(***************************************************************************)
(* The emulated file system: FileManager of fileman.py, the file handlers  *)
(* of kernel32.py, and the descriptors and streams of msvcrt.py.           *)
(*                                                                         *)
(* The content of a file is a sequence of marks, 1 for a byte the guest    *)
(* wrote and 0 for any other byte.  A path is what get_full_path and       *)
(* get_path_key leave of the guest's string.  `res` is what the last call  *)
(* told the guest: a number, and the error when it failed.                 *)
(***************************************************************************)
EXTENDS Integers, Sequences, FiniteSets, SequencesExt

CONSTANTS Paths,        \* paths the guest uses
          FullPath,     \* those a full_path entry of the configuration serves
          Default,      \* those its default entry serves
          Directories,  \* those that are used as directories too
          ImagePath,    \* path of the image file of the process
          ImageAlias,   \* path of the same file by config.command_line
          MaxFiles,     \* bound on the File objects of a behaviour
          MaxHandles,   \* bound on the handles of a behaviour
          MaxSize,      \* bound on the size of a file
          MaxWritten,   \* bound on bytes_written
          MaxFds,       \* bound on descriptors
          MaxStreams,   \* bound on streams
          MaxViews      \* bound on the memory blocks of the views

VARIABLES
  fs,          \* the file manager, its File objects and the handle table
  fds,         \* msvcrt fds: descriptor -> handle, 0 for a pipe of _popen
  streams,     \* msvcrt crt_streams and file_streams: stream -> [fd, hfile]
  walks,       \* searches in progress: handle -> [of, left]
  mem,         \* memory block -> its content, "free" when it is not mapped
  res          \* what the last call told the guest

vars == <<fs, fds, streams, walks, mem, res>>

NUL == "nul"
Errors == {"none", "handle", "notfound", "exists", "negative", "nomore", "inval", "badf", "raised"}

(***************************************************************************)
(* File objects.  The bytes of a duplicate are the bytes of its origin.    *)
(***************************************************************************)
File(kind, path, data) ==
  [kind |-> kind, path |-> path, data |-> data, pos |-> 0, origin |-> 0,
   written |-> 0, append |-> FALSE, views |-> <<>>]

Buffer(s, f) == IF s.objs[f].origin # 0 THEN s.objs[f].origin ELSE f
get_contents(s, f) == s.objs[Buffer(s, f)].data
get_size(s, f) == Len(get_contents(s, f))

Add(s, obj) == [s EXCEPT !.objs = Append(@, obj)]
Newest(s) == Len(s.objs)

duplicate(s, f) ==
  IF s.objs[f].kind = NUL THEN Add(s, File(NUL, NUL, <<>>))
  ELSE Add(s, [File("file", s.objs[f].path, <<>>) EXCEPT !.origin = Buffer(s, f)])

get_data(s, f, n) ==
  LET size == get_size(s, f)
      pos == s.objs[f].pos
  IN  IF s.objs[f].kind = NUL \/ pos >= size THEN s
      ELSE [s EXCEPT !.objs[f].pos = IF pos + n > size THEN size ELSE pos + n]

seek(s, f, pos) == [s EXCEPT !.objs[f].pos = pos]

\* n bytes of the guest at a position, with the hole that leaves before them.
Put(data, pos, n) ==
  IF n = 0 THEN data
  ELSE [i \in 1 .. IF pos + n > Len(data) THEN pos + n ELSE Len(data) |->
          IF i \in pos + 1 .. pos + n THEN 1 ELSE IF i <= Len(data) THEN data[i] ELSE 0]

\* A write counts for the file and for its origin.
Count(s, f, n) ==
  [s EXCEPT !.objs = [g \in DOMAIN s.objs |->
     IF g \in {f, Buffer(s, f)} THEN [s.objs[g] EXCEPT !.written = @ + n] ELSE s.objs[g]]]

add_data(s, f, n) ==
  IF s.objs[f].kind = NUL THEN s
  ELSE [Count(s, f, n) EXCEPT !.objs[Buffer(s, f)].data = Put(@, Len(@), n)]

write_data(s, f, n) ==
  LET pos == IF s.objs[f].append THEN get_size(s, f) ELSE s.objs[f].pos
  IN  IF s.objs[f].kind = NUL THEN s
      ELSE [Count(s, f, n) EXCEPT !.objs[Buffer(s, f)].data = Put(@, pos, n), !.objs[f].pos = pos + n]

remove_data(s, f) == [s EXCEPT !.objs[Buffer(s, f)].data = <<>>, !.objs[f].pos = 0]

(***************************************************************************)
(* The file manager.                                                       *)
(***************************************************************************)
handle_file_data(p) == IF p \in FullPath \cup Default THEN <<0>> ELSE <<>>

get_emu_file(s, p) ==
  IF p \in s.deleted THEN "none"
  ELSE IF p \in FullPath THEN "full_path" ELSE IF p \in Default THEN "default" ELSE "none"

is_image_alias(s, p) ==
  /\ s.files # <<>> /\ p = ImageAlias
  /\ s.objs[s.files[1]].path = ImagePath

\* The registered File of a path, 0 when there is none.
get_file_from_path(s, p) ==
  LET own == {i \in DOMAIN s.files : s.objs[s.files[i]].path = p}
  IN  IF own # {} THEN s.files[CHOOSE i \in own : \A j \in own : i <= j]
      ELSE IF is_image_alias(s, p) THEN s.files[1] ELSE 0

Unregister(s, f) == [s EXCEPT !.files = RemoveFirst(@, f)]
Register(s, obj) == LET t == Add(s, obj) IN [t EXCEPT !.files = Append(@, Newest(t))]

add_existing_file(s, p, data) == Register(s, File("file", p, data))

\* Mutant of create_file: the path stays deleted.
create_fileKeepsDeleted(s, p) ==
  Register(Unregister(s, get_file_from_path(s, p)), File("file", p, <<>>))

create_file(s, p) ==
  LET t == Unregister(s, get_file_from_path(s, p))
  IN  Register([t EXCEPT !.deleted = @ \ {p}], File("file", p, <<>>))

remove_file(s, p) == Unregister([s EXCEPT !.deleted = @ \cup {p}], get_file_from_path(s, p))

does_file_exist(s, p) == p = NUL \/ get_file_from_path(s, p) # 0 \/ get_emu_file(s, p) # "none"
does_file_exist_by_path(s, p) == get_file_from_path(s, p) # 0 \/ get_emu_file(s, p) = "full_path"

\* The File of a path, registered now if only the configuration has it; the path has one.
get_file_by_path(s, p) ==
  IF get_file_from_path(s, p) # 0 THEN s
  ELSE Register(s, File("file", p, handle_file_data(p)))

Has(s, p) == get_file_from_path(s, p) # 0 \/ get_emu_file(s, p) # "none"

copy_file(s, src, dst) ==
  LET t == get_file_by_path(s, src)
      n == get_size(t, get_file_from_path(t, src))
      data == get_contents(t, get_file_from_path(t, src))
      u == create_file(t, dst)
  IN  [u EXCEPT !.objs[Newest(u)].written = n, !.objs[Newest(u)].data = data]

move_file(s, src, dst) == remove_file(copy_file(s, src, dst), src)

delete_file(s, p) == remove_file(s, p)

create_directory(s, p) == [s EXCEPT !.dirs = (@ \ {<<"removed", p>>}) \cup {<<"created", p>>}]
remove_directory(s, p) == [s EXCEPT !.dirs = (@ \ {<<"created", p>>}) \cup {<<"removed", p>>}]

get_directories(s) == {p \in Paths : <<"created", p>> \in s.dirs /\ <<"removed", p>> \notin s.dirs}
is_directory(s, p) == p \in get_directories(s)

\* The files that the report lists as dropped.
get_dropped_files(s) == {i \in DOMAIN s.files : s.objs[s.files[i]].written >= get_size(s, s.files[i])}

new_handle(s, f) == [s EXCEPT !.handles = Append(@, f)]

\* The first open of a file that only the configuration has gives the registered File itself.
file_open(s, p, create) ==
  IF p = NUL THEN LET t == Add(s, File(NUL, NUL, <<>>)) IN new_handle(t, Newest(t))
  ELSE IF create THEN LET t == create_file(s, p) IN new_handle(t, Newest(t))
  ELSE LET f == get_file_from_path(s, p)
           t == IF f # 0 THEN duplicate(s, f) ELSE get_file_by_path(s, p)
       IN  new_handle(t, Newest(t))

pipe_open(s, p) == LET t == Add(s, File("pipe", p, <<>>)) IN new_handle(t, Newest(t))

file_create_mapping(s, f) ==
  LET t == Add(s, [File("map", "", <<>>) EXCEPT !.origin = f]) IN new_handle(t, Newest(t))

\* The object of an open handle if it has one of the kinds, else 0.
get_handle_object(s, h, kinds) ==
  IF h \in DOMAIN s.handles /\ s.handles[h] # 0 /\ s.objs[s.handles[h]].kind \in kinds
    THEN s.handles[h] ELSE 0

get_file(s, h) == get_handle_object(s, h, {"file", NUL})
get_pipe(s, h) == get_handle_object(s, h, {"pipe"})
get_mapping(s, h) == get_handle_object(s, h, {"map"})

(***************************************************************************)
(* kernel32.                                                               *)
(***************************************************************************)
Unmapped == [owner |-> "free", val |-> 0]
Blocks == 1 .. MaxViews

Init == /\ fs = add_existing_file([objs |-> <<>>, files |-> <<>>, deleted |-> {}, dirs |-> {}, handles |-> <<>>],
                                  ImagePath, <<0>>)
        /\ fds = [d \in {} |-> 0]
        /\ streams = [x \in {1} |-> [fd |-> 1, hfile |-> 0]]
        /\ walks = [h \in {} |-> 0]
        /\ mem = [b \in Blocks |-> Unmapped]
        /\ res = [n |-> 0, err |-> "none"]

Fits(s) ==
  /\ Len(s.objs) <= MaxFiles /\ Len(s.handles) <= MaxHandles
  /\ \A f \in DOMAIN s.objs : Len(s.objs[f].data) <= MaxSize /\ s.objs[f].pos <= MaxSize /\ s.objs[f].written <= MaxWritten

Tell(n, e) == res' = [n |-> n, err |-> e]
Fails(e) == Tell(-1, e) /\ UNCHANGED <<fs, fds, streams, walks, mem>>
Says(n) == Tell(n, "none") /\ UNCHANGED <<fs, fds, streams, walks, mem>>
Does(s, n) == Fits(s) /\ fs' = s /\ Tell(n, "none") /\ UNCHANGED <<fds, streams, walks, mem>>
Opens(s) == Does(s, Len(s.handles))

Dispositions == {"create_always", "create_new", "open_always", "open_existing", "truncate_existing"}

\* truncate_existing opens the file as it is: file_open does not use its truncate argument.
CreateFile(p, disposition, append) ==
  LET exists == IF disposition = "create_new" THEN does_file_exist_by_path(fs, p) ELSE does_file_exist(fs, p)
      create == ~exists \/ disposition = "create_always"
      s == file_open(fs, p, create)
  IN  IF exists /\ disposition = "create_new" THEN Fails("exists")
      ELSE IF ~exists /\ disposition \in {"open_existing", "truncate_existing"} THEN Fails("notfound")
      ELSE Opens([s EXCEPT !.objs[Newest(s)].append = append])

DeleteFile(p) == IF does_file_exist(fs, p) THEN Does(delete_file(fs, p), 1) ELSE Fails("notfound")

CopyFile(src, dst, bFailIfExists) ==
  IF bFailIfExists /\ does_file_exist_by_path(fs, dst) THEN Fails("exists")
  ELSE IF ~Has(fs, src) THEN Fails("notfound") ELSE Does(copy_file(fs, src, dst), 1)

MoveFile(src, dst) == IF ~Has(fs, src) THEN Fails("notfound") ELSE Does(move_file(fs, src, dst), 1)

MoveFileEx(src, dst, replace, delay) ==
  IF delay THEN Says(1)
  ELSE IF ~replace /\ does_file_exist(fs, dst) THEN Fails("exists") ELSE MoveFile(src, dst)

ReadFile(h, n, buffer) ==
  LET f == get_handle_object(fs, h, {"file", NUL, "pipe"})
  IN  IF f = 0 THEN Fails("handle") ELSE Does(get_data(fs, f, n), IF buffer THEN 1 ELSE 0)

WriteFile(h, n) ==
  LET f == get_handle_object(fs, h, {"file", NUL, "pipe"})
  IN  IF f = 0 THEN Fails("handle")
      ELSE Does(IF n = 0 THEN fs ELSE IF fs.objs[f].kind = "pipe" THEN add_data(fs, f, n) ELSE write_data(fs, f, n), 1)

\* Where a move by `offset` from FILE_BEGIN, FILE_CURRENT or FILE_END ends.
Target(f, offset, method) ==
  offset + (CASE method = "begin" -> 0 [] method = "current" -> fs.objs[f].pos [] method = "end" -> get_size(fs, f))

\* Mutant of SetFilePointer: a negative position is not refused.
SetFilePointerUnchecked(h, offset, method) ==
  LET f == get_file(fs, h)
      pos == Target(f, offset, method)
  IN  IF f = 0 THEN Fails("handle") ELSE Does(seek(fs, f, pos), pos)

SetFilePointer(h, offset, method) ==
  LET f == get_file(fs, h)
      pos == Target(f, offset, method)
  IN  IF f = 0 THEN Fails("handle")
      ELSE IF pos < 0 THEN Fails("negative") ELSE Does(seek(fs, f, pos), pos)

SetFilePointerEx(h, offset, method) == SetFilePointer(h, offset, method)
_llseek(h, offset, method) == SetFilePointer(h, offset, method)

GetFileSize(h) == IF get_file(fs, h) = 0 THEN Fails("handle") ELSE Says(get_size(fs, get_file(fs, h)))

GetFileInformationByHandle(h) ==
  LET f == get_file(fs, h)
  IN  IF f = 0 THEN Fails("handle")
      ELSE Says(IF is_directory(fs, fs.objs[f].path) THEN 0 ELSE get_size(fs, f))

GetFileAttributes(p) ==
  IF is_directory(fs, p) THEN Says(2) ELSE IF does_file_exist(fs, p) THEN Says(1) ELSE Fails("notfound")

\* The size of a file that only the configuration has registers the file.
GetFileAttributesEx(p) ==
  IF is_directory(fs, p) THEN Says(0)
  ELSE IF ~Has(fs, p) THEN Fails("notfound")
  ELSE LET s == get_file_by_path(fs, p) IN Does(s, get_size(s, get_file_from_path(s, p)))

CreateDirectory(p) == Does(create_directory(fs, p), 1)
RemoveDirectory(p) == Does(remove_directory(fs, p), 1)

CloseHandle(h) ==
  IF h \in DOMAIN fs.handles /\ fs.handles[h] # 0 THEN Does([fs EXCEPT !.handles[h] = 0], 1) ELSE Fails("handle")
_lopen(p) == IF p = NUL \/ Has(fs, p) THEN Opens(file_open(fs, p, FALSE)) ELSE Fails("none")
_lclose(h) == CloseHandle(h)

GetTempFileName(p, unique) == IF unique THEN Says(1) ELSE Does(file_open(fs, p, TRUE), 1)

\* Both ends of an anonymous pipe have the same handle.
CreateNamedPipe == Opens(pipe_open(fs, "pipe"))
CreatePipe == Opens(pipe_open(fs, ""))
PeekNamedPipe(h) == IF get_pipe(fs, h) = 0 THEN Fails("handle") ELSE Says(0)
ConnectNamedPipe(h) == IF get_pipe(fs, h) = 0 THEN Fails("handle") ELSE Says(1)
DisconnectNamedPipe(h) == IF get_pipe(fs, h) = 0 THEN Fails("handle") ELSE Says(1)

(***************************************************************************)
(* Mappings and views.  UnmapViewOfFile frees the memory of a view and     *)
(* leaves the view in FileMap.views.                                       *)
(***************************************************************************)
CreateFileMapping(h) ==
  LET f == get_file(fs, h)
  IN  IF h # 0 /\ f = 0 THEN Fails("handle") ELSE Opens(file_create_mapping(fs, f))

Free == {b \in Blocks : mem[b].owner = "free"}
get_view_range == CHOOSE b \in Free : \A c \in Free : b <= c

get_mapping_from_addr(s, b) ==
  LET maps == {m \in DOMAIN s.objs : b \in ToSet(s.objs[m].views)}
  IN  IF maps = {} THEN 0 ELSE CHOOSE m \in maps : \A x \in maps : m <= x

\* The blocks of a sequence before the first one that is not mapped: an access to that one raises.
Mapped(m, b) == m[b].owner # "free"
Reached(m, bs) == LET n == SelectInSeq(bs, LAMBDA b : ~Mapped(m, b)) IN IF n = 0 THEN bs ELSE SubSeq(bs, 1, n - 1)

\* mem_write of the API layer, at block b of the memory st.mem: a write into shared memory goes to the
\* other views of its mapping first.  st.ok is false after an access raised.
WriteViews(s, st, b, val) ==
  LET m == get_mapping_from_addr(s, b)
      views == IF st.mem[b].owner = "view" /\ m # 0 THEN SelectSeq(s.objs[m].views, LAMBDA c : c # b) ELSE <<>>
      written == ToSet(Reached(st.mem, Append(views, b)))
  IN  [mem |-> [c \in Blocks |-> IF c \in written THEN [st.mem[c] EXCEPT !.val = val] ELSE st.mem[c]],
       ok |-> b \in written]

\* The new view gets the content of the file, and then what each other view of its size and offset holds.
map_view(m, b) ==
  LET s == [fs EXCEPT !.objs[m].views = IF b \in ToSet(@) THEN @ ELSE Append(@, b)]
      f == fs.objs[m].origin
      new == [mem |-> [mem EXCEPT ![b] = [owner |-> "view", val |-> 0]], ok |-> TRUE]
      filled == IF f # 0 /\ get_size(fs, f) > 0 THEN WriteViews(s, new, b, 0) ELSE new
      Copy(st, c) == IF ~st.ok THEN st
                     ELSE IF Mapped(st.mem, c) THEN WriteViews(s, st, b, st.mem[c].val) ELSE [st EXCEPT !.ok = FALSE]
      end == FoldLeft(Copy, filled, SelectSeq(s.objs[m].views, LAMBDA c : c # b))
  IN  /\ fs' = s /\ mem' = end.mem
      /\ (IF end.ok THEN Tell(b, "none") ELSE Tell(-1, "raised"))
      /\ UNCHANGED <<fds, streams, walks>>

MapViewOfFile(h) ==
  LET m == get_mapping(fs, h)
  IN  IF m = 0 THEN Fails("handle") ELSE Free # {} /\ map_view(m, get_view_range)

\* At a base address of the guest, that must be free.
MapViewOfFileEx(h, b) ==
  LET m == get_mapping(fs, h)
  IN  IF m = 0 THEN Fails("handle") ELSE IF b \in Free THEN map_view(m, b) ELSE Fails("inval")

UnmapViewOfFile(b) ==
  IF b \in Free THEN Fails("inval")
  ELSE mem' = [mem EXCEPT ![b] = Unmapped] /\ Tell(1, "none") /\ UNCHANGED <<fs, fds, streams, walks>>

\* Any other allocation of the guest.
VirtualAlloc ==
  /\ Free # {}
  /\ mem' = [mem EXCEPT ![get_view_range] = [owner |-> "other", val |-> 0]]
  /\ Tell(get_view_range, "none")
  /\ UNCHANGED <<fs, fds, streams, walks>>

mem_write(b) ==
  LET end == WriteViews(fs, [mem |-> mem, ok |-> TRUE], b, 1)
  IN  /\ b \notin Free
      /\ mem' = end.mem
      /\ (IF end.ok THEN Tell(1, "none") ELSE Tell(-1, "raised"))
      /\ UNCHANGED <<fs, fds, streams, walks>>

(***************************************************************************)
(* The file handlers of the kernel (ntoskrnl.py).                          *)
(***************************************************************************)
NtDispositions == {"supersede", "create", "open", "open_if", "overwrite", "overwrite_if"}

ZwCreateFile(p, disposition) ==
  LET exists == does_file_exist(fs, p)
      refused == IF exists THEN {"create"} ELSE {"open", "overwrite"}
      create == ~exists \/ disposition \in {"supersede", "overwrite", "overwrite_if"}
  IN  IF disposition \in refused THEN Fails("inval") ELSE Opens(file_open(fs, p, create))

ZwOpenFile(p) == IF p = NUL \/ Has(fs, p) THEN Opens(file_open(fs, p, FALSE)) ELSE Fails("notfound")

ZwQueryInformationFile(h, room) ==
  LET f == get_file(fs, h)
  IN  IF f = 0 THEN Fails("handle") ELSE IF room THEN Says(get_size(fs, f)) ELSE Fails("inval")

\* seek_to_byte_offset: a null or negative offset keeps the position.
seek_to_byte_offset(s, f, offset) == IF offset < 0 THEN s ELSE seek(s, f, offset)

ZwWriteFile(h, n, offset) ==
  LET f == get_file(fs, h)
  IN  IF f = 0 THEN Fails("handle")
      ELSE IF n = 0 THEN Fails("inval")
      ELSE Does(write_data(seek_to_byte_offset(fs, f, offset), f, n), 0)

ZwReadFile(h, n, offset) ==
  LET f == get_file(fs, h)
      s == seek_to_byte_offset(fs, f, offset)
      t == get_data(s, f, n)
  IN  IF f = 0 THEN Fails("handle")
      ELSE /\ Fits(t) /\ fs' = t /\ UNCHANGED <<fds, streams, walks, mem>>
           /\ (IF n > 0 /\ t.objs[f].pos = s.objs[f].pos THEN Tell(-1, "nomore") ELSE Tell(0, "none"))

ZwCreateSection(h) == CreateFileMapping(h)
\* A view at an address of the caller is no view: nothing is mapped.
ZwMapViewOfSection(h, given) == IF given /\ get_mapping(fs, h) # 0 THEN Says(0) ELSE MapViewOfFile(h)
\* The views of another process stay.
ZwUnmapViewOfSection(b, own) == IF own THEN UnmapViewOfFile(b) ELSE Says(0)

(***************************************************************************)
(* Searches.  A walk is over the entries of the configuration; `found` is  *)
(* the number of entries that match.                                       *)
(***************************************************************************)
find_matching_entries == 0 .. 2
walk_drives == 0 .. 1

NextHandle == Len(fs.handles) + 1
Take == fs' = [fs EXCEPT !.handles = Append(@, 0)]

FindFirst(table, found, e) ==
  /\ NextHandle <= MaxHandles
  /\ UNCHANGED <<fds, streams, mem>>
  /\ IF found = 0
       THEN Tell(-1, e) /\ (IF table = "files" THEN Take ELSE UNCHANGED fs) /\ UNCHANGED walks
       ELSE /\ Tell(NextHandle, "none") /\ Take
            /\ walks' = [h \in DOMAIN walks \cup {NextHandle} |->
                          IF h = NextHandle THEN [table |-> table, left |-> found - 1] ELSE walks[h]]

Walks(table) == {h \in DOMAIN walks : walks[h].table = table}

FindNext(table, h, invalid, ended) ==
  IF h \notin Walks(table) THEN Fails(invalid)
  ELSE IF walks[h].left = 0 THEN Fails(ended)
  ELSE walks' = [walks EXCEPT ![h].left = @ - 1] /\ Tell(1, "none") /\ UNCHANGED <<fs, fds, streams, mem>>

FindEnd(table, h, invalid) ==
  IF h \notin Walks(table) THEN Fails(invalid)
  ELSE /\ walks' = [x \in DOMAIN walks \ {h} |-> walks[x]] /\ Tell(1, "none")
       /\ UNCHANGED <<fs, fds, streams, mem>>

FindFirstFile(found) == FindFirst("files", found, "notfound")
FindFirstFileEx(found) == FindFirstFile(found)
FindNextFile(h) == FindNext("files", h, "handle", "nomore")
FindClose(h) == FindEnd("files", h, "handle")
FindFirstVolume(found) == FindFirst("volumes", found, "nomore")
FindNextVolume(h) == FindNext("volumes", h, "handle", "nomore")
FindVolumeClose(h) == FindEnd("volumes", h, "handle")
_findfirst(found) == FindFirst("crt", found, "notfound")
_findnext(h) == FindNext("crt", h, "inval", "notfound")
_findclose(h) == FindEnd("crt", h, "notfound")

(***************************************************************************)
(* Descriptors and streams of the C run-time library.  Closing them leaves *)
(* the handle open.  Stream 1 is stdout, of descriptor 1.                  *)
(***************************************************************************)
set_errno(e) == Fails(e)
Fd(d) == IF d \in DOMAIN fds THEN fds[d] ELSE 0
get_fd_file(d) == get_file(fs, Fd(d))
get_stream_fd(x) == IF x \in DOMAIN streams THEN streams[x].fd ELSE -1
get_stream_file(x) == IF x \in DOMAIN streams THEN get_file(fs, streams[x].hfile) ELSE 0

FreeFd == CHOOSE d \in 3 .. MaxFds + 3 : d \notin DOMAIN fds /\ \A c \in 3 .. d - 1 : c \in DOMAIN fds
new_fd(h) == [d \in DOMAIN fds \cup {FreeFd} |-> IF d = FreeFd THEN h ELSE fds[d]]
Without(f, x) == [y \in DOMAIN f \ {x} |-> f[y]]

FreeStream == CHOOSE x \in 2 .. MaxStreams + 1 : x \notin DOMAIN streams /\ \A y \in 2 .. x - 1 : y \in DOMAIN streams
new_stream(d, h) ==
  [x \in DOMAIN streams \cup {FreeStream} |-> IF x = FreeStream THEN [fd |-> d, hfile |-> h] ELSE streams[x]]

\* O_CREAT, O_EXCL, O_TRUNC and O_APPEND in oflag.
open_fd(p, oflag) ==
  LET exists == does_file_exist(fs, p)
      create == "creat" \in oflag /\ (~exists \/ "trunc" \in oflag)
      s == file_open(fs, p, create)
      t == IF "trunc" \in oflag /\ get_size(s, Newest(s)) # 0 THEN remove_data(s, Newest(s)) ELSE s
      u == [t EXCEPT !.objs[Newest(t)].append = "append" \in oflag]
  IN  IF exists /\ {"creat", "excl"} \subseteq oflag THEN set_errno("exists")
      ELSE IF ~exists /\ ~create THEN set_errno("notfound")
      ELSE /\ Fits(u) /\ FreeFd <= MaxFds
           /\ fs' = u /\ fds' = new_fd(Len(u.handles)) /\ Tell(FreeFd, "none")
           /\ UNCHANGED <<streams, walks, mem>>

_close(d) ==
  IF d \notin DOMAIN fds /\ d \notin 0 .. 2 THEN set_errno("badf")
  ELSE fds' = Without(fds, d) /\ Tell(0, "none") /\ UNCHANGED <<fs, streams, walks, mem>>

_read(d, n) ==
  LET f == get_fd_file(d)
  IN  IF f # 0 THEN Does(get_data(fs, f, n), n) ELSE IF d = 0 THEN Says(0) ELSE set_errno("badf")

_write(d, n) ==
  LET f == get_fd_file(d)
  IN  IF f # 0 THEN Does(write_data(fs, f, n), n) ELSE IF d \in 1 .. 2 THEN Says(n) ELSE set_errno("badf")

seek_fd(d, offset, method) ==
  LET f == get_fd_file(d)
  IN  IF f = 0 THEN set_errno("badf")
      ELSE IF Target(f, offset, method) < 0 THEN set_errno("inval")
      ELSE Does(seek(fs, f, Target(f, offset, method)), Target(f, offset, method))

_lseek(d, offset, method) == seek_fd(d, offset, method)

_fdopen(d) ==
  IF d \notin DOMAIN fds /\ d \notin 0 .. 2 THEN set_errno("badf")
  ELSE /\ FreeStream <= MaxStreams
       /\ streams' = new_stream(d, Fd(d)) /\ Tell(FreeStream, "none") /\ UNCHANGED <<fs, fds, walks, mem>>

\* The stream of _popen has a descriptor with handle 0 and no file.
open_pipe ==
  /\ FreeFd <= MaxFds /\ FreeStream <= MaxStreams
  /\ fds' = new_fd(0) /\ streams' = new_stream(FreeFd, 0) /\ Tell(FreeStream, "none")
  /\ UNCHANGED <<fs, walks, mem>>

\* A mode with w creates the file, one with a creates a file that does not exist.
open_stream_file(p, mode) ==
  LET s == file_open(fs, p, mode = "w" \/ (mode = "a" /\ ~does_file_exist(fs, p)))
  IN  [s EXCEPT !.objs[Newest(s)].append = mode = "a"]
Opened(p, mode) == mode # "r" \/ does_file_exist(fs, p)

open_stream(p, mode) ==
  LET s == open_stream_file(p, mode)
  IN  IF ~Opened(p, mode) THEN Fails("none")
      ELSE /\ Fits(s) /\ FreeFd <= MaxFds /\ FreeStream <= MaxStreams
           /\ fs' = s /\ fds' = new_fd(Len(s.handles)) /\ streams' = new_stream(FreeFd, Len(s.handles))
           /\ Tell(FreeStream, "none") /\ UNCHANGED <<walks, mem>>

fopen(p, mode) == open_stream(p, mode)
open_stream_args(p, mode) == open_stream(p, mode)
fopen_s(p, mode) == IF Opened(p, mode) THEN open_stream_args(p, mode) ELSE Fails("notfound")

reopen_stream(p, mode, x) ==
  LET s == open_stream_file(p, mode)
      d == get_stream_fd(x)
  IN  /\ x \in DOMAIN streams
      /\ IF ~Opened(p, mode)
           THEN /\ streams' = [streams EXCEPT ![x].hfile = 0] /\ fds' = Without(fds, d)
                /\ Tell(0, "notfound") /\ UNCHANGED fs
           ELSE /\ Fits(s) /\ fs' = s /\ Tell(x, "none")
                /\ streams' = [streams EXCEPT ![x].hfile = Len(s.handles)]
                /\ fds' = [c \in DOMAIN fds \cup {d} |-> IF c = d THEN Len(s.handles) ELSE fds[c]]
      /\ UNCHANGED <<walks, mem>>

fclose(x) ==
  /\ x \in DOMAIN streams
  /\ fds' = Without(fds, get_stream_fd(x))
  /\ streams' = IF x = 1 THEN [streams EXCEPT ![1].hfile = 0] ELSE Without(streams, x)
  /\ Tell(0, "none") /\ UNCHANGED <<fs, walks, mem>>

_pclose(x) ==
  LET d == get_stream_fd(x)
  IN  IF d = -1 \/ d \notin DOMAIN fds \/ Fd(d) # 0 THEN set_errno("inval") ELSE fclose(x)

_fileno(x) == IF get_stream_fd(x) = -1 THEN set_errno("inval") ELSE Says(get_stream_fd(x))

seek_stream(x, offset, method) ==
  LET f == get_stream_file(x)
  IN  IF f = 0 \/ Target(f, offset, method) < 0 THEN Fails("none")
      ELSE Does(seek(fs, f, Target(f, offset, method)), 0)
fseek(x, offset, method) == seek_stream(x, offset, method)
fsetpos(x, offset) == seek_stream(x, offset, "begin")
fgetpos(x) == LET f == get_stream_file(x) IN IF f = 0 THEN set_errno("inval") ELSE Says(fs.objs[f].pos)
ftell(x) == LET f == get_stream_file(x) IN IF f = 0 THEN Fails("none") ELSE Says(fs.objs[f].pos)

fread(x, n) ==
  LET f == get_stream_file(x) IN IF f = 0 \/ n = 0 THEN Says(0) ELSE Does(get_data(fs, f, n), n)
\* The bytes after the first newline stay to be read.
fgets(x, n, line) ==
  LET f == get_stream_file(x)
      s == get_data(fs, f, n)
      read == s.objs[f].pos - fs.objs[f].pos
  IN  IF f = 0 \/ n = 0 \/ read = 0 THEN Says(0)
      ELSE line \in 1 .. read /\ Does(seek(s, f, fs.objs[f].pos + line), 1)
fgetc(x) == fread(x, 1)
\* Only the byte that was read can be pushed back; a wrong byte leaves the position where it was.
ungetc(x, same) ==
  LET f == get_stream_file(x)
  IN  IF f = 0 \/ fs.objs[f].pos = 0 \/ fs.objs[f].pos > get_size(fs, f) \/ ~same
        THEN Fails("none") ELSE Does(seek(fs, f, fs.objs[f].pos - 1), 1)

\* Whatever the position, a write to a stream goes to the end of the file.
write_stream(x, n) ==
  LET f == get_stream_file(x) IN IF f = 0 THEN Says(n) ELSE Does(add_data(fs, f, n), n)
fwrite(x, n) == IF n = 0 THEN Says(0) ELSE write_stream(x, n)
fputc(x) == write_stream(x, 1)

stat_file(p) ==
  IF ~Has(fs, p) THEN set_errno("notfound")
  ELSE LET s == get_file_by_path(fs, p) IN Does(s, get_size(s, get_file_from_path(s, p)))
stat_fd(d) ==
  LET f == get_fd_file(d)
  IN  IF f = 0 /\ d \notin 0 .. 2 THEN set_errno("badf") ELSE Says(IF f = 0 THEN 0 ELSE get_size(fs, f))
_stat(p) == stat_file(p)
access_path(p) == IF is_directory(fs, p) \/ does_file_exist(fs, p) THEN Says(0) ELSE set_errno("notfound")
unlink(p) == IF does_file_exist(fs, p) THEN Does(delete_file(fs, p), 0) ELSE set_errno("notfound")
_unlink(p) == unlink(p)
change_directory(p, remove) == Does(IF remove THEN remove_directory(fs, p) ELSE create_directory(fs, p), 0)
rename(src, dst) == IF ~Has(fs, src) THEN set_errno("notfound") ELSE Does(move_file(fs, src, dst), 0)

(***************************************************************************)
(* Five families of calls, with the paths and the handles that they use.   *)
(***************************************************************************)
Methods == {"begin", "current", "end"}
Handles == 0 .. MaxHandles

NextFiles(names, handles) ==
  \/ \E p \in names, d \in Dispositions : CreateFile(p, d, FALSE)
  \/ \E p \in names : CreateFile(p, "open_always", TRUE) \/ CreateFile(NUL, "open_existing", FALSE)
  \/ \E p \in names : DeleteFile(p) \/ GetFileAttributes(p) \/ GetFileAttributesEx(p) \/ _lopen(p)
  \/ \E p \in Directories : CreateDirectory(p) \/ RemoveDirectory(p)
  \/ \E p \in names, unique \in BOOLEAN : GetTempFileName(p, unique)
  \/ \E p, q \in names, b \in BOOLEAN : CopyFile(p, q, b)
  \/ \E p, q \in names, b, c \in BOOLEAN : MoveFileEx(p, q, b, c) \/ (b /\ c /\ MoveFile(p, q))
  \/ \E h \in handles, n \in 0 .. 1, b \in BOOLEAN : ReadFile(h, n, b) \/ (b /\ WriteFile(h, n))
  \/ \E h \in handles, o \in -1 .. 1, m \in Methods :
       SetFilePointer(h, o, m) \/ (o = 1 /\ SetFilePointerEx(h, o, m)) \/ (o = -1 /\ _llseek(h, o, m))
  \/ \E h \in handles : GetFileSize(h) \/ GetFileInformationByHandle(h) \/ CloseHandle(h) \/ _lclose(h)
  \/ CreateNamedPipe \/ CreatePipe
  \/ \E h \in handles : PeekNamedPipe(h) \/ ConnectNamedPipe(h) \/ DisconnectNamedPipe(h)

NextViews(names, handles) ==
  \/ \E p \in names : CreateFile(p, "open_always", FALSE)
  \/ \E h \in handles : CreateFileMapping(h) \/ ZwCreateSection(h) \/ MapViewOfFile(h) \/ CloseHandle(h)
  \/ \E h \in handles, b \in Blocks : MapViewOfFileEx(h, b)
  \/ \E h \in handles, given \in BOOLEAN : ZwMapViewOfSection(h, given)
  \/ \E b \in Blocks, own \in BOOLEAN : ZwUnmapViewOfSection(b, own)
  \/ \E b \in Blocks : UnmapViewOfFile(b) \/ mem_write(b)
  \/ VirtualAlloc

NextKernelFiles(names, handles) ==
  \/ \E p \in names, d \in NtDispositions : ZwCreateFile(p, d)
  \/ \E p \in names \cup {NUL} : ZwOpenFile(p)
  \/ \E h \in handles, n \in 0 .. 1, o \in -1 .. 1 : ZwWriteFile(h, n, o) \/ ZwReadFile(h, n, o)
  \/ \E h \in handles, room \in BOOLEAN : ZwQueryInformationFile(h, room)
  \/ \E h \in handles : CloseHandle(h)
  \/ \E p \in names : DeleteFile(p)

NextSearches(handles) ==
  \/ \E n \in find_matching_entries : FindFirstFile(n) \/ FindFirstFileEx(n) \/ _findfirst(n)
  \/ \E n \in walk_drives : FindFirstVolume(n)
  \/ \E h \in handles : \/ FindNextFile(h) \/ FindClose(h) \/ FindNextVolume(h)
                        \/ FindVolumeClose(h) \/ _findnext(h) \/ _findclose(h)

Flags == {{}, {"trunc"}, {"append"}, {"creat"}, {"creat", "excl"}, {"creat", "trunc"}}
Fds == 0 .. MaxFds
Streams == 1 .. MaxStreams

NextCrt(names) ==
  \/ \E p \in names, f \in Flags : open_fd(p, f)
  \/ \E d \in Fds : _close(d) \/ _fdopen(d) \/ stat_fd(d)
  \/ \E d \in Fds, n \in 0 .. 1 : _read(d, n) \/ _write(d, n)
  \/ \E d \in Fds, o \in -1 .. 1, m \in Methods : _lseek(d, o, m)
  \/ open_pipe
  \/ \E p \in names, m \in {"r", "w", "a"} : fopen(p, m) \/ (m = "r" /\ fopen_s(p, m)) \/ \E x \in Streams : reopen_stream(p, m, x)
  \/ \E x \in Streams : \/ fclose(x) \/ _pclose(x) \/ _fileno(x) \/ fgetpos(x) \/ ftell(x)
                         \/ fgetc(x) \/ fputc(x)
  \/ \E x \in Streams, n \in 0 .. 1 : \/ fread(x, n) \/ fwrite(x, n) \/ fsetpos(x, n) \/ ungetc(x, n = 1)
                                     \/ fgets(x, 2 * n, 1)
  \/ \E x \in Streams, o \in -1 .. 1, m \in Methods : fseek(x, o, m)
  \/ \E p \in names : _stat(p) \/ access_path(p) \/ _unlink(p)
  \/ \E p \in Directories, b \in BOOLEAN : change_directory(p, b)
  \/ \E p, q \in names : rename(p, q)

Next == \/ NextFiles(Paths, Handles) \/ NextKernelFiles(Paths, Handles) \/ NextViews(Paths, Handles)
        \/ NextSearches(Handles) \/ NextCrt(Paths)
Spec == Init /\ [][Next]_vars

(***************************************************************************)
(* Properties.                                                             *)
(***************************************************************************)
TypeOK ==
  /\ fs.files \in Seq(1 .. MaxFiles) /\ IsInjective(fs.files)
  /\ fs.handles \in Seq(0 .. MaxFiles)
  /\ \A f \in DOMAIN fs.objs : /\ fs.objs[f].data \in Seq({0, 1}) /\ fs.objs[f].pos \in 0 .. MaxSize
                              /\ fs.objs[f].origin \in 0 .. f - 1
  /\ \A d \in DOMAIN fds : fds[d] \in 0 .. MaxHandles
  /\ \A x \in DOMAIN streams : streams[x].fd \in 0 .. MaxFds /\ streams[x].hfile \in 0 .. MaxHandles
  /\ \A h \in DOMAIN walks : h \in DOMAIN fs.handles /\ fs.handles[h] = 0
  /\ res.n \in Nat \cup {-1} /\ res.err \in Errors

\* A path that was deleted is not served again, from the list of files or from the configuration, until a
\* file is created there; and no path has two files, of which one would be read and the other reported
\* (FileManager.create_file, remove_file, get_file_by_path).
DeletedFilesAreGone ==
  /\ \A i \in DOMAIN fs.files : fs.objs[fs.files[i]].path \notin fs.deleted
  /\ \A i, j \in DOMAIN fs.files : fs.objs[fs.files[i]].path = fs.objs[fs.files[j]].path => i = j

\* A file of which the guest wrote every byte is in the dropped files of the report, through whichever
\* handles, descriptors and streams it was written, and after copies, renames and truncations
\* (File.write_data, add_data, duplicate, FileManager.get_dropped_files).  A byte counts as written or not:
\* its value is not modelled.  A write through a view stays in memory and reaches no file, in the code as here.
WrittenFilesAreDropped ==
  \A i \in DOMAIN fs.files :
    ToSet(get_contents(fs, fs.files[i])) = {1} => i \in get_dropped_files(fs)
========================================================================
