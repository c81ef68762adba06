--------------------------- MODULE Registry ---------------------------
(***************************************************************************)
(* The emulated registry: RegistryManager of regman.py, and the handlers   *)
(* of advapi32.py and ntoskrnl.py that use it.                             *)
(*                                                                         *)
(* A path is what normalize_reg_path and lower() leave of a key name; a    *)
(* key has one named value, of which the model keeps where it comes from   *)
(* and how many bytes get_bytes gives.  `res` is the outcome of the last   *)
(* call: its error, and the bytes it put into a buffer of `room` bytes.    *)
(*                                                                         *)
(* The list of keys is searched with the guest's path as a pattern: `*`    *)
(* and `?` in it stand for other characters, and a path with [ ] does not  *)
(* match itself.  The configuration is searched for the path itself.       *)
(***************************************************************************)
EXTENDS Integers, Sequences, FiniteSets, SequencesExt

CONSTANTS KeyPaths,     \* paths of keys, the root among them
          Root,         \* path of the predefined key
          Parent,       \* path -> path of the parent, for the other paths
          Matches,      \* path -> paths that fnmatch accepts with this path as the pattern
          Config,       \* paths that registry.keys of the configuration lists
          MaxKeys,      \* bound on the RegKey objects of a behaviour
          MaxKeyHandles,  \* bound on the handles of a behaviour
          MaxBytes      \* bound on the bytes of a value and of a buffer

VARIABLES reg,          \* the RegKey objects, the key list, deleted_paths, the handles
          wiped,        \* history: paths of which a key was deleted
          res           \* what the last call told the guest

vars == <<reg, wiped, res>>

NoValue == [from |-> "none", bytes |-> 0]
RegKey(p, v) == [path |-> p, value |-> v]

Newest(s) == Len(s.objs)
AddKey(s, k) == [s EXCEPT !.objs = Append(@, k), !.keys = Append(@, Len(s.objs) + 1)]

\* The first listed key whose path the guest's path matches, 0 when there is none.
get_key_from_path(s, p) ==
  LET own == {i \in DOMAIN s.keys : s.objs[s.keys[i]].path \in Matches[p]}
  IN  IF own = {} THEN 0 ELSE s.keys[CHOOSE i \in own : \A j \in own : i <= j]

get_key_paths(s) == {s.objs[s.keys[i]].path : i \in DOMAIN s.keys} \cup (Config \ s.deleted)

\* The paths below a path.
Below(p) == {q \in KeyPaths \ {Root} : Parent[q] = p \/ (Parent[q] # Root /\ Parent[Parent[q]] = p)}

is_key_a_parent_key(s, p) == get_key_paths(s) \cap Below(p) # {}

get_subkeys(s, p) == {q \in KeyPaths \ {Root} : Parent[q] = p /\ (q \in get_key_paths(s) \/ is_key_a_parent_key(s, q))}

IsConfigured(s, p) == p \in Config /\ p \notin s.deleted
get_key_from_config(p) == RegKey(p, [from |-> "config", bytes |-> MaxBytes])

create_key(s, p) ==
  IF get_key_from_path(s, p) # 0 THEN s
  ELSE IF IsConfigured(s, p) THEN AddKey(s, get_key_from_config(p))
  ELSE AddKey([s EXCEPT !.deleted = @ \ {p}], RegKey(p, NoValue))

\* The predefined key has handle 0.
get_key(s, h) ==
  IF h = 0 THEN 1 ELSE IF h \in DOMAIN s.handles THEN s.handles[h] ELSE 0

new_handle(s, k) == [s EXCEPT !.handles = Append(@, k)]

\* A key that only has keys below it is made when it is opened.
get_key_handle(s, p, create) ==
  IF get_key_from_path(s, p) # 0 THEN new_handle(s, get_key_from_path(s, p))
  ELSE IF IsConfigured(s, p)
    THEN LET t == AddKey(s, get_key_from_config(p)) IN new_handle(t, Newest(t))
  ELSE IF create \/ is_key_a_parent_key(s, p)
    THEN LET t == AddKey([s EXCEPT !.deleted = @ \ {p}], RegKey(p, NoValue)) IN new_handle(t, Newest(t))
  ELSE s

open_key(s, p, create) == get_key_handle(s, p, create)

close_key(s, h) == [s EXCEPT !.handles[h] = 0]

\* The deleted key stays behind its handles; deleting it again only marks the path.
delete_key(s, h) ==
  LET k == get_key(s, h)
  IN  [s EXCEPT !.keys = RemoveFirst(@, k), !.deleted = @ \cup {s.objs[k].path}]

read_value(s, k) == s.objs[k].value
write_value(s, k, bytes) == [s EXCEPT !.objs[k].value = [from |-> "guest", bytes |-> bytes]]
delete_value(s, k) == [s EXCEPT !.objs[k].value = NoValue]

Init == /\ reg = create_key([objs |-> <<>>, keys |-> <<>>, deleted |-> {}, handles |-> <<>>], Root)
        /\ wiped = {}
        /\ res = [err |-> "none", put |-> 0, room |-> 0]

Fits(s) == Len(s.objs) <= MaxKeys /\ Len(s.handles) <= MaxKeyHandles
Tell(e, put, room) == res' = [err |-> e, put |-> put, room |-> room]
Fails(e) == Tell(e, 0, 0) /\ UNCHANGED <<reg, wiped>>
Says == Fails("none")
Does(s) == Fits(s) /\ reg' = s /\ Tell("none", 0, 0) /\ UNCHANGED wiped

\* The path that a handle and a subkey name; the subkey "itself" is the key.
Sub(k, q) == IF q = "itself" THEN reg.objs[k].path ELSE q
IsSub(k, q) == q = "itself" \/ q \in Below(reg.objs[k].path)

(***************************************************************************)
(* advapi32.                                                               *)
(***************************************************************************)
open_key_api(h, q, fresh) ==
  LET k == get_key(reg, h)
      s == open_key(reg, Sub(k, q), FALSE)
  IN  IF k = 0 THEN Fails("handle")
      ELSE /\ IsSub(k, q)
           /\ IF q = "itself" /\ ~fresh THEN Says
              ELSE IF s = reg /\ q # "itself" THEN Fails("notfound") ELSE Does(s)

RegOpenKey(h, q) == open_key_api(h, q, FALSE)
RegOpenKeyEx(h, q) == open_key_api(h, q, TRUE)

RegCreateKey(h, q) ==
  LET k == get_key(reg, h)
  IN  IF h = 0 \/ k = 0 THEN Fails("handle")
      ELSE IsSub(k, q) /\ IF q = "itself" THEN Says ELSE Does(open_key(reg, q, TRUE))

RegCreateKeyEx(h, q) ==
  LET k == get_key(reg, h)
  IN  IF k = 0 THEN Fails("handle") ELSE IsSub(k, q) /\ Does(open_key(reg, Sub(k, q), TRUE))

RegCloseKey(h) ==
  IF h = 0 THEN Says
  ELSE IF get_key(reg, h) = 0 THEN Fails("handle") ELSE Does(close_key(reg, h))

RegSetValueEx(h, bytes) ==
  LET k == get_key(reg, h) IN IF k = 0 THEN Fails("handle") ELSE Does(write_value(reg, k, bytes))

RegDeleteValue(h) ==
  LET k == get_key(reg, h)
  IN  IF k = 0 THEN Fails("handle")
      ELSE IF read_value(reg, k) = NoValue THEN Fails("notfound") ELSE Does(delete_value(reg, k))

\* The bytes of the value into a buffer of `room` bytes.  A value that does not exist reads as zeros.
Query(v, room) ==
  IF v = NoValue THEN Tell("none", room, room)
  ELSE IF v.bytes > room THEN Tell("more", 0, room) ELSE Tell("none", v.bytes, room)

RegQueryValueEx(h, room) ==
  LET k == get_key(reg, h)
  IN  IF k = 0 THEN Fails("handle") ELSE Query(read_value(reg, k), room) /\ UNCHANGED <<reg, wiped>>

\* The handle that a subkey is opened with is never closed.
RegGetValue(h, q, room) ==
  LET k == get_key(reg, h)
      s == open_key(reg, Sub(k, q), FALSE)
  IN  IF k = 0 THEN Fails("handle")
      ELSE /\ IsSub(k, q)
           /\ IF q = "itself" THEN Query(read_value(reg, k), room) /\ UNCHANGED <<reg, wiped>>
              ELSE IF s = reg THEN Fails("notfound")
              ELSE Fits(s) /\ reg' = s /\ Query(read_value(s, Last(s.handles)), room) /\ UNCHANGED wiped

\* A name is as long as MaxBytes - 1 characters here, and its terminator.
enum_key(h, index, room) ==
  LET k == get_key(reg, h)
      n == Cardinality(get_subkeys(reg, reg.objs[k].path))
  IN  IF h = 0 \/ k = 0 THEN Fails("handle")
      ELSE IF index + 1 > n THEN Fails("nomore")
      ELSE (IF room < MaxBytes THEN Tell("more", 0, room) ELSE Tell("none", MaxBytes, room)) /\ UNCHANGED <<reg, wiped>>

RegEnumKey(h, index, room) == enum_key(h, index, room)
RegEnumKeyEx(h, index, room) == enum_key(h, index, room)

RegQueryInfoKey(h) == IF get_key(reg, h) = 0 THEN Fails("handle") ELSE Says

(***************************************************************************)
(* ntoskrnl.  The names are absolute; a root directory is a key handle.    *)
(***************************************************************************)
ZwOpenKey(p) ==
  LET s == open_key(reg, p, FALSE) IN IF s = reg THEN Fails("notfound") ELSE Does(s)

ZwCreateKey(h, q) ==
  LET k == get_key(reg, h)
  IN  IF k = 0 THEN Fails("handle") ELSE IsSub(k, q) /\ Does(open_key(reg, Sub(k, q), TRUE))

ZwSetValueKey(h, bytes) == RegSetValueEx(h, bytes)

\* Unlike in advapi32, a value that does not exist has the same status as a handle that is not open.
ZwQueryValueKey(h, room) ==
  LET k == get_key(reg, h)
      v == read_value(reg, k)
  IN  IF k = 0 \/ v = NoValue THEN Fails("handle") ELSE Query(v, room) /\ UNCHANGED <<reg, wiped>>

ZwDeleteKey(h) ==
  LET k == get_key(reg, h)
  IN  IF k = 0 THEN Fails("handle")
      ELSE /\ reg' = delete_key(reg, h) /\ Tell("none", 0, 0)
           /\ wiped' = wiped \cup {reg.objs[k].path}

Handles == 0 .. MaxKeyHandles
Subs == (KeyPaths \ {Root}) \cup {"itself"}
Rooms == 0 .. MaxBytes

Next ==
  \/ \E h \in Handles, q \in Subs : RegOpenKey(h, q) \/ RegOpenKeyEx(h, q) \/ RegCreateKey(h, q) \/ RegCreateKeyEx(h, q)
  \/ \E h \in Handles : RegCloseKey(h) \/ RegDeleteValue(h) \/ RegQueryInfoKey(h)
  \/ \E h \in Handles, n \in Rooms : RegSetValueEx(h, n) \/ RegQueryValueEx(h, n)
  \/ \E h \in Handles, q \in Subs, n \in Rooms : RegGetValue(h, q, n)
  \/ \E h \in Handles, i \in 0 .. 1, n \in Rooms : RegEnumKey(h, i, n) \/ RegEnumKeyEx(h, i, n)
  \/ \E p \in KeyPaths : ZwOpenKey(p)
  \/ \E h \in Handles, q \in Subs : ZwCreateKey(h, q)
  \/ \E h \in Handles, n \in Rooms : ZwSetValueKey(h, n) \/ ZwQueryValueKey(h, n)
  \/ \E h \in Handles \ {0} : ZwDeleteKey(h)

Spec == Init /\ [][Next]_vars

(***************************************************************************)
(* Properties.                                                             *)
(***************************************************************************)
TypeOK ==
  /\ \A i \in DOMAIN reg.objs : reg.objs[i].path \in KeyPaths /\ reg.objs[i].value.bytes \in 0 .. MaxBytes
  /\ reg.keys \in Seq(DOMAIN reg.objs) /\ IsInjective(reg.keys)
  /\ reg.handles \in Seq(0 .. Len(reg.objs))
  /\ reg.deleted \subseteq wiped /\ wiped \subseteq KeyPaths
  /\ res.err \in {"none", "handle", "notfound", "more", "nomore"}

\* A path that is found under itself: as a pattern it has no [ ].
FindsItself(p) == p \in Matches[p]

\* The values that the configuration gives a key do not come back after the key was deleted: not when it is
\* opened as the parent of other keys, created again, or deleted a second time through an older handle
\* (RegistryManager.get_key_handle, create_key, delete_key).  A path with [ ] is left out of the second part:
\* the configuration may have given it several keys before, of which one was deleted.
DeletedValuesStayDeleted ==
  /\ \A p \in wiped : p \in reg.deleted \/ \E i \in DOMAIN reg.keys : reg.objs[reg.keys[i]].path = p
  /\ \A i \in DOMAIN reg.keys :
       LET k == reg.objs[reg.keys[i]] IN k.path \in wiped /\ FindsItself(k.path) => k.value.from # "config"

\* No path has two listed keys, of which one would be written and the other read.  A path with [ ] may: it
\* gets a key each time it is opened or created, unless it matches the path of another key.
OneKeyPerPath ==
  \A i, j \in DOMAIN reg.keys :
    FindsItself(reg.objs[reg.keys[i]].path) /\ reg.objs[reg.keys[i]].path = reg.objs[reg.keys[j]].path => i = j

\* A query puts no more bytes into the guest's buffer than the guest said it has.
QueriesRespectTheBuffer == [][res'.put <= res'.room]_vars
========================================================================
