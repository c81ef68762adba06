---------------------------- MODULE Buffers ----------------------------
(***************************************************************************)
(* Handlers that put a text or a table into a buffer of the guest: how     *)
(* much they write into a buffer of `room` units, which size they ask for  *)
(* and whether they succeed.  A unit is a character or a byte, as the      *)
(* function counts them; a text is its length.                             *)
(*                                                                         *)
(* The guest calls in any order, with any buffer, and what a function      *)
(* reports may change between its question for the size and its call with  *)
(* a buffer of that size.                                                  *)
(***************************************************************************)
EXTENDS Integers, Sequences

CONSTANTS MaxText,      \* bound on the length of a text
          MaxRoom,      \* bound on the size of a buffer
          MAX_PATH      \* size of the buffer of the path functions, 260 in the code

VARIABLES text,         \* length of what the functions report, None when it does not exist
          told,         \* the function that last asked for a size, the size, and the text then
          res           \* what the last call did

vars == <<text, told, res>>

None == -1
TRUNCATE == -1          \* the count that allows truncation
Lengths == 0 .. MaxText
Rooms == 0 .. MaxRoom

Smaller(a, b) == IF a < b THEN a ELSE b

Put(k) == [put |-> k, tell |-> 0, ok |-> TRUE]
Ask(k) == [put |-> 0, tell |-> k, ok |-> FALSE]
Refuse == Ask(0)
Spoil(k) == [put |-> k, tell |-> 0, ok |-> FALSE]     \* writes and fails

Init ==
  /\ text \in Lengths \cup {None}
  /\ told = [fn |-> "none", size |-> 0, text |-> None]
  /\ res = [fn |-> "none", room |-> 0, buf |-> FALSE, put |-> 0, ok |-> FALSE]

\* The outcome o of function f for a buffer of `room` units; a null buffer when ~buf.
Returns(f, room, buf, o) ==
  /\ res' = [fn |-> f, room |-> room, buf |-> buf, put |-> o.put, ok |-> o.ok]
  /\ told' = IF o.tell > 0 THEN [fn |-> f, size |-> o.tell, text |-> text] ELSE told
  /\ UNCHANGED text

\* A call of F(length, room, buf) of a text that exists.
Call(f, F(_, _, _)) ==
  /\ text # None
  /\ \E room \in Rooms, buf \in BOOLEAN : Returns(f, room, buf, F(text, room, buf))

\* Also where there may be nothing of that name or handle, or a null argument.
CallAbout(f, F(_, _, _)) ==
  \/ Call(f, F)
  \/ text = None /\ \E room \in Rooms, buf \in BOOLEAN : Returns(f, room, buf, Refuse)

\* As Call, but a null source clears a buffer that has room before the call fails.
CallOrClear(f, F(_, _, _), Clears(_)) ==
  \/ Call(f, F)
  \/ text = None /\ \E room \in Rooms, buf \in BOOLEAN :
       Returns(f, room, buf, Spoil(IF buf /\ room > 0 THEN Clears(room) ELSE 0))
Terminator(room) == 1
Everything(room) == room

\* The guest passes another text, handle or module.
Choose(n) == text' = n /\ UNCHANGED <<told, res>>
SetEnvironmentVariable(n) == n # None /\ Choose(n)
SetCurrentDirectory(n) == n # None /\ Choose(n)

(***************************************************************************)
(* The text with its terminator if the buffer holds it, else the size.     *)
(***************************************************************************)
AskOrPut(need, room, buf) == IF ~buf \/ room < need THEN Ask(need) ELSE Put(need)

GetFullPathName(n, room, buf) == AskOrPut(n + 1, room, buf)
GetFinalPathNameByHandle(n, room, buf) == AskOrPut(n + 1, room, buf)
GetComputerName(n, room, buf) == AskOrPut(n + 1, room, buf)
GetEnvironmentVariable(n, room, buf) == AskOrPut(n + 1, room, buf)
GetCurrentDirectory(n, room, buf) == AskOrPut(n + 1, room, buf)
GetTempPath(n, room, buf) == AskOrPut(n + 1, room, buf)
GetShortPathName(n, room, buf) == AskOrPut(n + 1, room, buf)
GetLongPathName(n, room, buf) == AskOrPut(n + 1, room, buf)
GetLogicalDriveStrings(n, room, buf) == AskOrPut(n + 1, room, buf)
GetComputerNameEx(n, room, buf) == AskOrPut(n + 1, room, buf)
GetUserNameEx(n, room, buf) == AskOrPut(n + 1, room, buf)
GetUserName(n, room, buf) == AskOrPut(n + 1, room, buf)
UrlCombine(n, room, buf) == AskOrPut(n + 1, room, buf)
RtlGetPersistedStateLocation(n, room, buf) == AskOrPut(n + 1, room, buf)
GetVolumePathNamesForVolumeName(n, room, buf) == AskOrPut(n + 2, room, buf)

\* Two buffers with sizes of their own: both must hold their text.
LookupAccountName(n, room, buf) == AskOrPut(n + 1, room, buf)
LookupAccountSid(n, room, buf) == AskOrPut(n + 1, room, buf)

\* The size is told in a variable of its own, whether it fits or not.
QueryServiceConfig(n, room, buf) == AskOrPut(n, room, buf)
GetTokenInformation(n, room, buf) == AskOrPut(n, room, buf)
CryptGetHashParam(n, room, buf) ==
  IF ~buf THEN [Ask(n) EXCEPT !.ok = TRUE] ELSE AskOrPut(n, room, buf)

\* Any other class: 4 bytes, which only TokenElevation fills.
TokenFlag(room, buf) == IF room = 0 THEN Ask(4) ELSE Put(IF buf /\ room >= 4 THEN 4 ELSE 0)

\* The buffer is not looked at: a null one faults.
GetSystemDirectory(n, room) == IF n + 1 > room THEN Ask(n + 1) ELSE Put(n + 1)
GetWindowsDirectory(n, room) == GetSystemDirectory(n, room)
GetSystemWindowsDirectory(n, room) == GetSystemDirectory(n, room)

\* The return value is the size, whatever the buffer.
ExpandEnvironmentStrings(n, room, buf) == AskOrPut(n + 1, room, buf)
GetRawSmbios(n, room, buf) == AskOrPut(n, room, buf)
get_raw_smbios_data == MaxText
GetSystemFirmwareTable(n, room, buf) ==
  IF ~buf THEN Ask(MaxRoom) ELSE Put(room)

(***************************************************************************)
(* A room of 0 asks for the size; a buffer that is too small fails.        *)
(***************************************************************************)
ZeroAsks(need, room) ==
  IF room = 0 THEN Ask(need) ELSE IF room < need THEN Refuse ELSE Put(need)

GetLocaleInfo(n, room, buf) == ZeroAsks(n + 1, room)
GetDateFormat(n, room, buf) == ZeroAsks(n + 1, room)
GetTimeFormat(n, room, buf) == ZeroAsks(n + 1, room)

\* An empty source is an error; the count includes the terminator when the source is terminated.
LCMapString(n, room, buf) ==
  IF n = 0 THEN Refuse ELSE IF ~buf THEN Ask(n) ELSE ZeroAsks(n, room)
LCMapStringEx(n, room, buf) == LCMapString(n, room, buf)

\* What fits is written before the call fails.
WideCharToMultiByte(n, room, buf) ==
  IF n = 0 THEN Refuse
  ELSE IF ~buf \/ room = 0 THEN Ask(n)
  ELSE IF n > room THEN Spoil(room) ELSE Put(n)
MultiByteToWideChar(n, room, buf) ==
  IF n = 0 \/ (room > 0 /\ ~buf) THEN Refuse
  ELSE IF room = 0 THEN Ask(n)
  ELSE IF n > room THEN Spoil(room) ELSE Put(n)

(***************************************************************************)
(* Truncated to the buffer.                                                *)
(***************************************************************************)
\* Mutant of Cut: the terminator is not counted.
CutWithoutTerminator(n, room) == Smaller(n, room) + 1
Cut(n, room) == Smaller(n + 1, room)

GetModuleFileName(n, room, buf) == Put(Cut(n, room))
GetConsoleTitle(n, room, buf) == Put(IF buf THEN Cut(n, room) ELSE 0)
GetWindowText(n, room, buf) == IF ~buf \/ room = 0 THEN Refuse ELSE Put(Cut(n, room))
GetModuleBaseName(n, room, buf) == IF ~buf \/ room = 0 \/ n = 0 THEN Refuse ELSE Put(Cut(n, room))
GetModuleFileNameEx(n, room, buf) == GetModuleBaseName(n, room, buf)
wvnsprintfA(n, room, buf) == [Put(Cut(n, room)) EXCEPT !.ok = n < room]
wnsprintf(n, room, buf) == wvnsprintfA(n, room, buf)

\* A room of 0 gives the address of the resource, to the wide function only.
LoadString(n, room, buf) == IF room = 0 \/ n = 0 THEN Refuse ELSE Put(Cut(n, room))

\* A room of 0 cuts one unit off the end of the text instead of the whole text.
CutFromEnd(n, room) ==
  IF room > 0 THEN Cut(n, room) ELSE IF n = 0 THEN 1 ELSE n
lstrcpyn(n, room, buf) == IF ~buf THEN Refuse ELSE Put(CutFromEnd(n, room))
GetModuleFileNameExA(n, room, buf) == Put(CutFromEnd(n, room))

\* As many whole entries as fit; the size told is that of the entries written.
EnumProcesses(n, room, buf) == Put(Smaller(n, room))
EnumProcessIds(n, room, buf) == IF ~buf \/ room = 0 THEN [Ask(n) EXCEPT !.ok = TRUE] ELSE Put(Smaller(n, room))
EnumProcessModules(n, room, buf) ==
  [put |-> IF buf THEN Smaller(n, room) ELSE 0, tell |-> n, ok |-> TRUE]
EnumProcessModulesEx(n, room, buf) == EnumProcessModules(n, room, buf)

\* The entries that fit; the size of the others is of use to a call that resumes after them.
EnumServicesStatus(n, room, buf) ==
  [put |-> Smaller(n, room), tell |-> IF room = 0 THEN n ELSE 0, ok |-> n <= room]

(***************************************************************************)
(* A buffer that is too small fails, and no size is told.                  *)
(***************************************************************************)
FitsOrFails(need, room) == IF room < need THEN Refuse ELSE Put(need)

QueryDosDevice(n, room, buf) == IF ~buf THEN Refuse ELSE FitsOrFails(n + 2, room)
\* FORMAT_MESSAGE_ALLOCATE_BUFFER makes a block of its own.
FormatMessage(n, room, buf) == IF ~buf THEN Put(0) ELSE FitsOrFails(n + 1, room)
StringFromGUID2(n, room, buf) == FitsOrFails(n + 1, room)
QueryInformationJobObject(n, room, buf) == IF ~buf THEN Refuse ELSE FitsOrFails(n, room)
GetModuleInformation(n, room, buf) == FitsOrFails(n, room)
CopySid(n, room, buf) == FitsOrFails(n, room)
DeviceIoControl(n, room, buf) == IF ~buf THEN Put(0) ELSE FitsOrFails(n, room)
EnumDisplayDevices(n, room, buf) == IF ~buf \/ room = 0 THEN Refuse ELSE Put(Smaller(n, room))
GetRawInputDeviceList(n, room, buf) ==
  IF ~buf THEN [Ask(n) EXCEPT !.ok = TRUE] ELSE AskOrPut(n, room, buf)

\* A name that does not fit is left out.
GetVolumeInformation(n, room, buf) == Put(IF buf /\ room > n THEN n + 1 ELSE 0)

\* The version resource, cut to the buffer, and a signature after it when that fits.
get_size(n) == 2 * n + 1
get_info(n, room, buf) == IF ~buf THEN Refuse ELSE Put(IF room >= n + 1 THEN n + 1 ELSE Smaller(n, room))
GetFileVersionInfoSize == text # None /\ Returns("GetFileVersionInfo", 0, FALSE, Ask(get_size(text)))
GetFileVersionInfo(n, room, buf) == get_info(n, room, buf)

(***************************************************************************)
(* The C runtime.  d is the length of the text in the buffer, count the    *)
(* limit on the characters of the source.                                  *)
(***************************************************************************)
\* With a null buffer and no room the call gives the length; a text that does not fit empties the buffer.
mbstowcs_s(n, room, buf, count) ==
  LET need == (IF count = TRUNCATE \/ ~buf THEN n ELSE Smaller(n, count)) + 1
  IN  IF (room > 0 /\ ~buf) \/ (room = 0 /\ buf) THEN Refuse
      ELSE IF ~buf THEN [Ask(need) EXCEPT !.ok = TRUE]
      ELSE IF need <= room THEN Put(need)
      ELSE Spoil(IF count = TRUNCATE THEN room ELSE 1)

\* The units counted from the start of the buffer.
append_n_secure(n, room, d, count) ==
  LET more == IF count = TRUNCATE THEN n ELSE Smaller(n, count)
      rem == room - d
  IN  IF rem <= 0 THEN Refuse
      ELSE IF more < rem THEN Put(d + more + 1)
      ELSE Spoil(IF count = TRUNCATE THEN room ELSE 1)

copy_n_secure(n, room, buf, count) ==
  LET length == IF count = TRUNCATE THEN n ELSE Smaller(n, count)
  IN  IF ~buf \/ room = 0 THEN Refuse
      ELSE IF length < room THEN Put(length + 1)
      ELSE Spoil(room)

format_time(n, room, buf) == IF n + 1 > room THEN Spoil(Smaller(room, 1)) ELSE Put(n + 1)

strcpy_s(n, room, buf) ==
  IF ~buf \/ room = 0 THEN Refuse ELSE IF n >= room THEN Spoil(1) ELSE Put(n + 1)
wcscpy_s(n, room, buf) == strcpy_s(n, room, buf)

strcat_s(n, room, buf, d) ==
  IF ~buf \/ room = 0 THEN Refuse ELSE IF d + n >= room THEN Spoil(1) ELSE Put(d + n + 1)
wcscat_s(n, room, buf, d) == strcat_s(n, room, buf, d)

\* Pads with zeros to the count.
strncpy(n, room, buf) == Put(room)
wcsncpy(n, room, buf) == Put(room)

memcpy_s(n, room, buf) ==
  IF n = 0 THEN Put(0) ELSE IF ~buf THEN Refuse ELSE IF room < n THEN Spoil(room) ELSE Put(n)
memmove_s(n, room, buf) == IF n = 0 THEN Put(0) ELSE IF ~buf \/ room < n THEN Refuse ELSE Put(n)

\* The terminator is written when there is room for it, and the call succeeds when the text fits without it.
Unterminated(n, room) == [put |-> Smaller(n + 1, room), tell |-> 0, ok |-> n <= room]
_snprintf(n, room, buf) == Unterminated(n, room)
_vsnprintf(n, room, buf) == Unterminated(n, room)
_snwprintf(n, room, buf) == Unterminated(n, room)
_vsnwprintf(n, room, buf) == Unterminated(n, room)

\* Without a buffer the length; a room of 0 writes nothing.
stdio_common_format(n, room, buf, standard, legacy) ==
  IF ~buf /\ room = 0 THEN [Ask(n + 1) EXCEPT !.ok = TRUE]
  ELSE IF standard \/ ~legacy THEN [Put(Cut(n, room)) EXCEPT !.ok = standard \/ n < room]
  ELSE Unterminated(n, room)

write_secure_format(n, room, buf, count) ==
  LET length == IF count = TRUNCATE THEN n ELSE Smaller(n, count)
  IN  IF ~buf \/ room = 0 THEN Refuse
      ELSE IF length < room THEN [Put(length + 1) EXCEPT !.ok = length = n]
      ELSE Spoil(IF count = TRUNCATE THEN room ELSE 1)
sprintf_s(n, room, buf) == write_secure_format(n, room, buf, n)

\* Empties the buffer first; a sign must have room before the radix is looked at.
convert_int_s(n, room, buf) ==
  IF ~buf \/ room = 0 THEN Refuse ELSE IF n >= room THEN Spoil(1) ELSE Put(n + 1)

\* Converted without a terminator when there is no room for it.
wcstombs(n, room, buf) == IF ~buf THEN [Ask(n) EXCEPT !.ok = TRUE] ELSE Put(Cut(n, room))
mbstowcs(n, room, buf) == wcstombs(n, room, buf)

\* A count of 0 means no limit to read_cstr, so that the whole text is written.
mbsrtowcs(n, room, buf) ==
  IF buf /\ room = 0 THEN Put(n) ELSE wcstombs(n, room, buf)

_fullpath(n, room, buf) == IF buf /\ n + 1 > room THEN Refuse ELSE Put(IF buf THEN n + 1 ELSE 0)

make_path(n, room, buf) == strcpy_s(n, room, buf)

\* Every part that has a buffer must fit, else all are emptied; one buffer stands for them.
split_path_s(n, room, buf) ==
  IF buf # (room > 0) THEN Spoil(0) ELSE IF ~buf THEN Put(0)
  ELSE IF n >= room THEN Spoil(1) ELSE Put(n + 1)

(***************************************************************************)
(* Paths in a buffer of MAX_PATH characters.                               *)
(***************************************************************************)
PathCombine(n) == IF n >= MAX_PATH THEN Spoil(1) ELSE Put(n + 1)
\* A path of MAX_PATH characters is let through, and has its terminator beyond the buffer.
PathAddBackslash(n) == IF n + 1 > MAX_PATH THEN Refuse ELSE Put(n + 2)
PathRenameExtension(n) == IF n > MAX_PATH THEN Refuse ELSE Put(n + 1)
PathCall(f, o) == text # None /\ Returns(f, MAX_PATH, TRUE, o)

(***************************************************************************)
(* The kernel.  A counted string has a length and a maximum length, room.  *)
(***************************************************************************)
\* RtlInitAnsiString, RtlInitUnicodeString: the string names its source, and nothing is copied.
RtlInitString(n, room, buf) == Put(0)
RtlDuplicateUnicodeString(n, room, buf) == IF ~buf THEN Refuse ELSE Put(0)
RtlAnsiStringToUnicodeString(n, room, alloc) == IF alloc THEN Put(0) ELSE FitsOrFails(n, room)
RtlCopyUnicodeString(n, room, buf) == Put(IF buf THEN Smaller(n, room) ELSE 0)

\* Behind the d units that the string holds, with a terminator when there is room for it.
_append_to_unicode_string(n, room, d) ==
  IF n = 0 THEN Put(0) ELSE IF d + n > room THEN Refuse ELSE Put(Smaller(d + n + 1, room))
RtlAppendUnicodeToString(n, room, d) == _append_to_unicode_string(n, room, d)

_write_secure_counted_string(n, room, buf, count) ==
  LET limit == IF count = TRUNCATE THEN room - 1 ELSE Smaller(count, room - 1)
  IN  IF ~buf \/ room = 0 THEN Refuse
      ELSE IF n <= limit THEN Put(n + 1)
      ELSE Spoil(IF count = TRUNCATE \/ count < room THEN limit + 1 ELSE 1)
_vsnprintf_s(n, room, buf, count) == _write_secure_counted_string(n, room, buf, count)

RtlCompressBuffer(n, room, buf) == FitsOrFails(n, room)
RtlDecompressBuffer(n, room, buf) == FitsOrFails(n, room)
ZwDeviceIoControlFile(n, room, buf) == IF ~buf THEN Put(0) ELSE FitsOrFails(n, room)

\* Modules (a count before the entries), processes, time of day, which is cut to any smaller buffer, and
\* the debugger and code integrity flags, of which no size is told.
SystemInformationClasses == {"modules", "processes", "time", "flags"}
ZwQuerySystemInformation(class, n, room, buf) ==
  CASE class = "modules" -> AskOrPut(n + 1, room, TRUE)
    [] class = "processes" -> AskOrPut(n, room, TRUE)
    [] class = "time" -> IF room > n THEN Refuse ELSE Put(room)
    [] class = "flags" -> IF buf THEN FitsOrFails(n, room) ELSE Refuse

\* Of the debugger classes the length must be exact.
write_process_info(n, room) == IF room # n THEN Refuse ELSE Put(n)
ProcessInformationClasses == {"wow64", "basic", "debug"}
ZwQueryInformationProcess(class, n, room) ==
  CASE class = "wow64" -> AskOrPut(n, room, TRUE)
    [] class = "basic" -> FitsOrFails(n, room)
    [] class = "debug" -> write_process_info(n, room)

Counts == {TRUNCATE} \cup Lengths

NextAsking ==
  \/ CallAbout("GetFullPathName", GetFullPathName)
  \/ CallAbout("GetFinalPathNameByHandle", GetFinalPathNameByHandle)
  \/ Call("GetComputerName", GetComputerName)
  \/ CallAbout("GetEnvironmentVariable", GetEnvironmentVariable)
  \/ Call("GetCurrentDirectory", GetCurrentDirectory)
  \/ Call("GetTempPath", GetTempPath)
  \/ Call("GetShortPathName", GetShortPathName)
  \/ Call("GetLongPathName", GetLongPathName)
  \/ Call("GetLogicalDriveStrings", GetLogicalDriveStrings)
  \/ Call("GetComputerNameEx", GetComputerNameEx)
  \/ Call("GetUserNameEx", GetUserNameEx)
  \/ Call("GetUserName", GetUserName)
  \/ CallAbout("UrlCombine", UrlCombine)
  \/ CallAbout("RtlGetPersistedStateLocation", RtlGetPersistedStateLocation)
  \/ CallAbout("GetVolumePathNamesForVolumeName", GetVolumePathNamesForVolumeName)
  \/ CallAbout("LookupAccountName", LookupAccountName)
  \/ CallAbout("LookupAccountSid", LookupAccountSid)
  \/ CallAbout("QueryServiceConfig", QueryServiceConfig)
  \/ Call("GetTokenInformation", GetTokenInformation)
  \/ Call("TokenFlag", LAMBDA n, room, buf : TokenFlag(room, buf))
  \/ CallAbout("CryptGetHashParam", CryptGetHashParam)
  \/ Call("GetSystemDirectory", LAMBDA n, room, buf : GetSystemDirectory(n, room))
  \/ Call("GetWindowsDirectory", LAMBDA n, room, buf : GetWindowsDirectory(n, room))
  \/ Call("GetSystemWindowsDirectory", LAMBDA n, room, buf : GetSystemWindowsDirectory(n, room))
  \/ CallAbout("ExpandEnvironmentStrings", ExpandEnvironmentStrings)
  \/ Call("GetRawSmbios", LAMBDA n, room, buf : GetRawSmbios(get_raw_smbios_data, room, buf))
  \/ Call("GetSystemFirmwareTable", GetSystemFirmwareTable)
  \/ CallAbout("GetLocaleInfo", GetLocaleInfo)
  \/ CallAbout("GetDateFormat", GetDateFormat)
  \/ CallAbout("GetTimeFormat", GetTimeFormat)
  \/ CallAbout("LCMapString", LCMapString)
  \/ CallAbout("LCMapStringEx", LCMapStringEx)
  \/ CallAbout("WideCharToMultiByte", WideCharToMultiByte)
  \/ CallAbout("MultiByteToWideChar", MultiByteToWideChar)
  \/ CallAbout("EnumProcessModules", EnumProcessModules)
  \/ CallAbout("EnumProcessModulesEx", EnumProcessModulesEx)
  \/ Call("EnumProcessIds", EnumProcessIds)
  \/ Call("EnumServicesStatus", EnumServicesStatus)
  \/ Call("GetRawInputDeviceList", GetRawInputDeviceList)
  \/ GetFileVersionInfoSize
  \/ CallAbout("GetFileVersionInfo", GetFileVersionInfo)

NextCutting ==
  \/ CallAbout("GetModuleFileName", GetModuleFileName)
  \/ Call("GetConsoleTitle", GetConsoleTitle)
  \/ Call("GetWindowText", GetWindowText)
  \/ CallAbout("GetModuleBaseName", GetModuleBaseName)
  \/ CallAbout("GetModuleFileNameEx", GetModuleFileNameEx)
  \/ Call("wvnsprintfA", wvnsprintfA)
  \/ Call("wnsprintf", wnsprintf)
  \/ CallAbout("LoadString", LoadString)
  \/ CallAbout("lstrcpyn", lstrcpyn)
  \/ CallAbout("GetModuleFileNameExA", GetModuleFileNameExA)
  \/ Call("EnumProcesses", EnumProcesses)
  \/ CallAbout("QueryDosDevice", QueryDosDevice)
  \/ CallAbout("FormatMessage", FormatMessage)
  \/ Call("StringFromGUID2", StringFromGUID2)
  \/ CallAbout("QueryInformationJobObject", QueryInformationJobObject)
  \/ CallAbout("GetModuleInformation", GetModuleInformation)
  \/ CallAbout("CopySid", CopySid)
  \/ CallAbout("DeviceIoControl", DeviceIoControl)
  \/ CallAbout("EnumDisplayDevices", EnumDisplayDevices)
  \/ Call("GetVolumeInformation", GetVolumeInformation)
  \/ PathCall("PathCombine", PathCombine(text))
  \/ PathCall("PathAddBackslash", PathAddBackslash(text))
  \/ PathCall("PathRenameExtension", PathRenameExtension(text))

NextCrtBuffers ==
  \/ \E count \in Counts :
       \/ CallAbout("mbstowcs_s", LAMBDA n, room, buf : mbstowcs_s(n, room, buf, count))
       \/ CallOrClear("copy_n_secure", LAMBDA n, room, buf : copy_n_secure(n, room, buf, count), Terminator)
       \/ Call("write_secure_format", LAMBDA n, room, buf : write_secure_format(n, room, buf, count))
       \/ \E d \in Lengths :
            Call("append_n_secure", LAMBDA n, room, buf : append_n_secure(n, room, d, count))
  \/ \E d \in Lengths :
       \/ CallOrClear("strcat_s", LAMBDA n, room, buf : strcat_s(n, room, buf, d), Terminator)
       \/ CallOrClear("wcscat_s", LAMBDA n, room, buf : wcscat_s(n, room, buf, d), Terminator)
  \/ \E standard, legacy \in BOOLEAN :
       Call("stdio_common_format", LAMBDA n, room, buf : stdio_common_format(n, room, buf, standard, legacy))
  \/ CallAbout("format_time", format_time)
  \/ CallOrClear("strcpy_s", strcpy_s, Terminator) \/ CallOrClear("wcscpy_s", wcscpy_s, Terminator)
  \/ Call("strncpy", strncpy) \/ Call("wcsncpy", wcsncpy)
  \/ CallOrClear("memcpy_s", memcpy_s, Everything) \/ CallAbout("memmove_s", memmove_s)
  \/ Call("_snprintf", _snprintf) \/ Call("_vsnprintf", _vsnprintf)
  \/ Call("_snwprintf", _snwprintf) \/ Call("_vsnwprintf", _vsnwprintf)
  \/ Call("sprintf_s", sprintf_s)
  \/ Call("convert_int_s", convert_int_s)
  \/ CallAbout("wcstombs", wcstombs) \/ Call("mbstowcs", mbstowcs) \/ Call("mbsrtowcs", mbsrtowcs)
  \/ Call("_fullpath", _fullpath)
  \/ Call("make_path", make_path)
  \/ CallOrClear("split_path_s", split_path_s, Terminator)

NextKernelBuffers ==
  \/ Call("RtlInitString", RtlInitString)
  \/ CallAbout("RtlDuplicateUnicodeString", RtlDuplicateUnicodeString)
  \/ Call("RtlAnsiStringToUnicodeString", RtlAnsiStringToUnicodeString)
  \/ Call("RtlCopyUnicodeString", RtlCopyUnicodeString)
  \/ \E d \in Lengths :
       Call("RtlAppendUnicodeToString",
            LAMBDA n, room, buf : RtlAppendUnicodeToString(n, room, Smaller(d, room)))
  \/ \E count \in Counts : Call("_vsnprintf_s", LAMBDA n, room, buf : _vsnprintf_s(n, room, buf, count))
  \/ CallAbout("RtlCompressBuffer", RtlCompressBuffer)
  \/ CallAbout("RtlDecompressBuffer", RtlDecompressBuffer)
  \/ CallAbout("ZwDeviceIoControlFile", ZwDeviceIoControlFile)
  \/ \E c \in SystemInformationClasses :
       CallAbout(c, LAMBDA n, room, buf : ZwQuerySystemInformation(c, n, room, buf))
  \/ \E c \in ProcessInformationClasses :
       CallAbout(c, LAMBDA n, room, buf : ZwQueryInformationProcess(c, n, room))

NextBuffers ==
  \/ NextKernelBuffers
  \/ NextAsking
  \/ NextCutting
  \/ NextCrtBuffers
  \/ \E n \in Lengths \cup {None} : Choose(n) \/ SetEnvironmentVariable(n) \/ SetCurrentDirectory(n)

(***************************************************************************)
(* Properties.                                                             *)
(***************************************************************************)
TypeOK ==
  /\ text \in Lengths \cup {None}
  /\ told.size \in Nat /\ told.text \in Lengths \cup {None}

\* The functions that write although the guest gave them no room, and the path functions that count a full
\* buffer without its terminator.
WritesAnyway == {"lstrcpyn", "GetModuleFileNameExA", "mbsrtowcs"}
OneBeyond == {"PathAddBackslash", "PathRenameExtension"}

\* Nothing is written beyond the room the guest gave, whatever the text has become since the guest asked for
\* its size.
BuffersAreRespected ==
  [][ res'.put <= res'.room
      \/ (res'.fn \in WritesAnyway /\ res'.room = 0)
      \/ (res'.fn \in OneBeyond /\ res'.put = MAX_PATH + 1) ]_vars

\* A function that asked for a size succeeds when it is called with a buffer of that size, as long as what it
\* reports has not changed: the usual two calls suffice.
TwoCallsSuffice ==
  [][ (res'.fn = told.fn /\ res'.room = told.size /\ res'.buf /\ text = told.text /\ UNCHANGED text) => res'.ok ]_vars
=============================================================================
