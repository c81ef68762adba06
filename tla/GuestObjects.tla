-------------------------- MODULE GuestObjects --------------------------
(***************************************************************************)
(* Objects, handles and files together.  A behaviour takes one part: the   *)
(* handlers of other parts do not touch its state, so that the part alone  *)
(* has all its behaviours, and each part gets the bounds that it needs.    *)
(***************************************************************************)
EXTENDS Objects

CONSTANTS Paths, FullPath, Default, Directories, ImagePath, ImageAlias,
          MaxFiles, MaxFileHandles, MaxSize, MaxWritten, MaxFds, MaxStreams, MaxViews,   \* Files
          Room   \* the bounds of each part: objects, handles, streams, paths

\* The image is a file, stdout is a stream with descriptor 1, and the next stream is 2.
ASSUME FilesAssumption ==
  /\ MaxFiles \in Nat \ {0} /\ MaxFds \in Nat \ {0} /\ MaxStreams \in Nat \ {0}
  /\ MaxFileHandles \in Nat /\ MaxSize \in Nat /\ MaxViews \in Nat

VARIABLES fs, fds, streams, walks, mem, res,   \* Files
          part                                 \* the family of handlers that is called

F == INSTANCE Files WITH MaxHandles <- MaxFileHandles

file_vars == <<fs, fds, streams, walks, mem, res>>

ObjectParts == {"objects", "handles", "threads"}
FileParts == {"files", "shared files", "kernel files", "views", "searches", "streams", "two streams"}

GuestInit == part \in ObjectParts \cup FileParts /\ Init /\ F!Init

HasRoom(s) == Len(s.objects) <= Room[part].objects /\ s.next <= Room[part].handles + 1

ObjectStep ==
  /\ \/ part \in {"objects", "handles"} /\ NextObjects
     \/ part = "threads" /\ NextThreads
  /\ HasRoom(store')
  /\ UNCHANGED file_vars

FileStep ==
  LET names == Paths \cap Room[part].paths
      handles == 0 .. Room[part].handles
  IN  /\ \/ part \in {"files", "shared files"} /\ F!NextFiles(names, handles)
         \/ part = "kernel files" /\ F!NextKernelFiles(names, handles)
         \/ part = "views" /\ F!NextViews(names, handles)
         \/ part = "searches" /\ F!NextSearches(handles)
         \/ part \in {"streams", "two streams"} /\ F!NextCrt(names)
      /\ Len(fs'.handles) <= Room[part].handles /\ DOMAIN streams' \subseteq 1 .. Room[part].streams
      /\ UNCHANGED vars

GuestNext == (ObjectStep \/ FileStep) /\ UNCHANGED part

GuestSpec == GuestInit /\ [][GuestNext]_<<vars, file_vars, part>>

\* `res` is what the last call told the guest; no property of this module reads it.
View == <<part, IF part \in ObjectParts THEN vars ELSE <<fs, fds, streams, walks, mem>> >>

-----------------------------------------------------------------------------
\* The state of the objects and of the files has its types: see Objects and Files.
GuestTypes == TypeOK /\ F!TypeOK

\* Every open handle has an object, a name that a lookup can find has one object, and a
\* thread that waits suspended is one that ResumeThread can start (ObjectManager,
\* handles.py, CreateThread and ResumeThread): see Objects.
ObjectsStay == HandlesHoldObjects /\ OneObjectPerName /\ SuspendedRunsCanResume

\* The list of files stays right: a deleted file is found by no later call, no path has
\* two entries, and a file that the guest wrote fully through a handle or a stream is
\* among the dropped files (FileManager.files and get_dropped_files): see Files.  What is
\* in the files is not compared, and a write through a view stays in memory.
FilesAreListed == F!DeletedFilesAreGone /\ F!WrittenFilesAreDropped
=============================================================================
