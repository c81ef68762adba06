-------------------------- MODULE HandlersProofs --------------------------
(***************************************************************************)
(* What is proved of the handlers: no buffer is written past its end, a    *)
(* driver's runs keep their order, and a function of the guest is called   *)
(* as often as the guest asked for.                                        *)
(***************************************************************************)
EXTENDS Handlers, SequenceTheorems, FiniteSetTheorems, WellFoundedInduction, NaturalsInduction, TLAPS

(***************************************************************************)
(* The buffers.  A handler's outcome is good when what it writes fits the  *)
(* buffer, the size it asks for is the one it needs, and the size it needs *)
(* is enough.  Every handler's outcome is good for every text and room     *)
(* (AskingFits to PathsFit), so that a call keeps BufInv: the size last    *)
(* asked for is what the function needs for the text it was asked about.   *)
(***************************************************************************)
\* The functions that ask for the characters and the terminator.
PlusOne ==
  {"GetFullPathName", "GetFinalPathNameByHandle", "GetComputerName", "GetEnvironmentVariable", "GetCurrentDirectory",
   "GetTempPath", "GetShortPathName", "GetLongPathName", "GetLogicalDriveStrings", "GetComputerNameEx", "GetUserNameEx",
   "GetUserName", "UrlCombine", "RtlGetPersistedStateLocation", "LookupAccountName", "LookupAccountSid",
   "GetSystemDirectory", "GetWindowsDirectory", "GetSystemWindowsDirectory", "ExpandEnvironmentStrings",
   "GetLocaleInfo", "GetDateFormat", "GetTimeFormat", "mbstowcs_s", "stdio_common_format", "modules"}

\* The functions that ask for the characters or elements alone.
Exact ==
  {"QueryServiceConfig", "GetTokenInformation", "CryptGetHashParam", "LCMapString", "LCMapStringEx",
   "WideCharToMultiByte", "MultiByteToWideChar", "EnumProcessModules", "EnumProcessModulesEx", "EnumProcessIds",
   "EnumServicesStatus", "GetRawInputDeviceList", "processes", "wow64", "wcstombs", "mbstowcs", "mbsrtowcs"}

\* The size that a function asks for, of a text of length n.
Needs(f, n, size) ==
  /\ size > 0
  /\ \/ f \in PlusOne /\ size = n + 1
     \/ f \in Exact /\ size = n
     \/ f = "GetVolumePathNamesForVolumeName" /\ size = n + 2
     \/ f = "GetFileVersionInfo" /\ size = 2 * n + 1
     \/ f = "TokenFlag" /\ size = 4
     \/ f = "GetRawSmbios" /\ size = MaxText
     \/ f = "GetSystemFirmwareTable" /\ size = MaxBuffer

\* What a function writes is within the room or is a named exception.
Respected(f, put, room) ==
  \/ put <= room
  \/ f \in B!WritesAnyway /\ room = 0
  \/ f \in B!OneBeyond /\ put = MAX_PATH + 1

\* The outcome o of a call of f fits the buffer, asks for the size that f needs, and succeeds with that size.
Good(f, o, n, room, buf) ==
  /\ Respected(f, o.put, room)
  /\ o.tell > 0 => Needs(f, n, o.tell)
  /\ Needs(f, n, room) /\ buf => o.ok

\* The inductive invariant: the size asked for last is the one that the function needs.
BufInv ==
  /\ text \in B!Lengths \cup {-1}
  /\ told.size \in Nat /\ told.text \in B!Lengths \cup {-1}
  /\ told.fn = "none" \/ (told.text # -1 /\ Needs(told.fn, told.text, told.size))
  /\ Respected(buf_res.fn, buf_res.put, buf_res.room)

\* The step keeps the invariant, and a second call with the size asked for succeeds.
BufKept ==
  /\ BufInv'
  /\ \/ buf_res'.fn = told.fn /\ buf_res'.room = told.size /\ buf_res'.buf /\ text = told.text /\ text' = text
        => buf_res'.ok
     \/ UNCHANGED B!vars

-----------------------------------------------------------------------------
\* The sizes asked for are natural numbers.
LEMMA SizesAreNumbers ==
  ASSUME NEW f, NEW n \in Nat, NEW size, Needs(f, n, size)
  PROVE  size \in Nat
BY BufferAssumption DEF Needs

\* A call with a good outcome keeps the invariant.
LEMMA GoodCall ==
  ASSUME BufInv, NEW f, f # "none", NEW room \in Nat, NEW buf \in BOOLEAN, NEW o, text # -1,
         B!Returns(f, room, buf, o), Good(f, o, text, room, buf)
  PROVE  BufKept
<1>1. text \in B!Lengths /\ text \in Nat BY BufferAssumption DEF BufInv, B!Lengths
<1>2. /\ buf_res' = [fn |-> f, room |-> room, buf |-> buf, put |-> o.put, ok |-> o.ok]
      /\ told' = (IF o.tell > 0 THEN [fn |-> f, size |-> o.tell, text |-> text] ELSE told)
      /\ text' = text
  BY DEF B!Returns
<1>3. Respected(f, o.put, room) /\ (o.tell > 0 => Needs(f, text, o.tell)) /\ (Needs(f, text, room) /\ buf => o.ok)
  BY DEF Good
<1>4. /\ buf_res'.fn = f /\ buf_res'.room = room /\ buf_res'.buf = buf /\ buf_res'.put = o.put /\ buf_res'.ok = o.ok
  BY <1>2
<1>5. Respected(buf_res'.fn, buf_res'.put, buf_res'.room) BY <1>3, <1>4
<1>6. /\ told'.size \in Nat /\ told'.text \in B!Lengths \cup {-1}
      /\ told'.fn = "none" \/ (told'.text # -1 /\ Needs(told'.fn, told'.text, told'.size))
  <2>1. CASE o.tell > 0
    <3>1. Needs(f, text, o.tell) /\ o.tell \in Nat BY <1>1, <1>3, <2>1, SizesAreNumbers
    <3>2. told'.fn = f /\ told'.size = o.tell /\ told'.text = text BY <1>2, <2>1
    <3> QED BY <1>1, <3>1, <3>2
  <2>2. CASE ~(o.tell > 0) BY <1>2, <2>2 DEF BufInv
  <2> QED BY <2>1, <2>2
<1>7. BufInv'
  <2>1. text' \in B!Lengths \cup {-1} BY <1>1, <1>2
  <2> QED BY <1>5, <1>6, <2>1 DEF BufInv, B!Lengths
<1>8. buf_res'.fn = told.fn /\ buf_res'.room = told.size /\ buf_res'.buf /\ text = told.text => buf_res'.ok
  <2>1. SUFFICES ASSUME f = told.fn, room = told.size, buf, text = told.text PROVE o.ok BY <1>4
  <2>2. Needs(f, text, room) BY <2>1 DEF BufInv
  <2> QED BY <1>3, <2>1, <2>2
<1> QED BY <1>7, <1>8 DEF BufKept

\* A call with nothing to report, which at most clears the buffer, keeps the invariant.
LEMMA CallWithoutText ==
  ASSUME BufInv, NEW f, f # "none", NEW room \in Nat, NEW buf \in BOOLEAN, text = -1, NEW k \in 0 .. room,
         B!Returns(f, room, buf, B!Spoil(k))
  PROVE  BufKept
<1>2. /\ buf_res' = [fn |-> f, room |-> room, buf |-> buf, put |-> k, ok |-> FALSE]
      /\ told' = told /\ text' = text
  BY DEF B!Returns, B!Spoil
<1>4. /\ buf_res'.fn = f /\ buf_res'.room = room /\ buf_res'.put = k
  BY <1>2
<1>5. Respected(buf_res'.fn, buf_res'.put, buf_res'.room) BY <1>4 DEF Respected
<1>7. BufInv' BY <1>2, <1>5 DEF BufInv, B!Lengths
<1>8. ~(buf_res'.fn = told.fn /\ text = told.text) BY <1>4 DEF BufInv
<1> QED BY <1>7, <1>8 DEF BufKept

\* The text that the functions report changes between calls.
LEMMA OtherText ==
  ASSUME BufInv, NEW n \in B!Lengths \cup {-1}, B!Choose(n)
  PROVE  BufKept
<1>1. text' = n /\ told' = told /\ buf_res' = buf_res BY DEF B!Choose
<1>2. BufInv' BY <1>1 DEF BufInv, B!Lengths, Respected, Needs
<1>3. text' = text => UNCHANGED B!vars BY <1>1 DEF B!vars
<1> QED BY <1>2, <1>3 DEF BufKept

\* The outcomes of the functions that ask for a size are good.
AskingFit(n, room, buf) ==
  /\ Good("GetFullPathName", B!GetFullPathName(n, room, buf), n, room, buf)
  /\ Good("GetFinalPathNameByHandle", B!GetFinalPathNameByHandle(n, room, buf), n, room, buf)
  /\ Good("GetComputerName", B!GetComputerName(n, room, buf), n, room, buf)
  /\ Good("GetEnvironmentVariable", B!GetEnvironmentVariable(n, room, buf), n, room, buf)
  /\ Good("GetCurrentDirectory", B!GetCurrentDirectory(n, room, buf), n, room, buf)
  /\ Good("GetTempPath", B!GetTempPath(n, room, buf), n, room, buf)
  /\ Good("GetShortPathName", B!GetShortPathName(n, room, buf), n, room, buf)
  /\ Good("GetLongPathName", B!GetLongPathName(n, room, buf), n, room, buf)
  /\ Good("GetLogicalDriveStrings", B!GetLogicalDriveStrings(n, room, buf), n, room, buf)
  /\ Good("GetComputerNameEx", B!GetComputerNameEx(n, room, buf), n, room, buf)
  /\ Good("GetUserNameEx", B!GetUserNameEx(n, room, buf), n, room, buf)
  /\ Good("GetUserName", B!GetUserName(n, room, buf), n, room, buf)
  /\ Good("UrlCombine", B!UrlCombine(n, room, buf), n, room, buf)
  /\ Good("RtlGetPersistedStateLocation", B!RtlGetPersistedStateLocation(n, room, buf), n, room, buf)
  /\ Good("GetVolumePathNamesForVolumeName", B!GetVolumePathNamesForVolumeName(n, room, buf), n, room, buf)
  /\ Good("LookupAccountName", B!LookupAccountName(n, room, buf), n, room, buf)
  /\ Good("LookupAccountSid", B!LookupAccountSid(n, room, buf), n, room, buf)
  /\ Good("ExpandEnvironmentStrings", B!ExpandEnvironmentStrings(n, room, buf), n, room, buf)
  /\ Good("QueryServiceConfig", B!QueryServiceConfig(n, room, buf), n, room, buf)
  /\ Good("GetTokenInformation", B!GetTokenInformation(n, room, buf), n, room, buf)
  /\ Good("CryptGetHashParam", B!CryptGetHashParam(n, room, buf), n, room, buf)
  /\ Good("GetRawInputDeviceList", B!GetRawInputDeviceList(n, room, buf), n, room, buf)
  /\ Good("GetRawSmbios", B!GetRawSmbios(B!get_raw_smbios_data, room, buf), n, room, buf)
  /\ Good("TokenFlag", B!TokenFlag(room, buf), n, room, buf)
  /\ Good("GetSystemFirmwareTable", B!GetSystemFirmwareTable(n, room, buf), n, room, buf)
  /\ Good("GetFileVersionInfo", B!GetFileVersionInfo(n, room, buf), n, room, buf)
  /\ Good("GetSystemDirectory", B!GetSystemDirectory(n, room), n, room, buf)
  /\ Good("GetWindowsDirectory", B!GetWindowsDirectory(n, room), n, room, buf)
  /\ Good("GetSystemWindowsDirectory", B!GetSystemWindowsDirectory(n, room), n, room, buf)
  /\ Good("GetLocaleInfo", B!GetLocaleInfo(n, room, buf), n, room, buf)
  /\ Good("GetDateFormat", B!GetDateFormat(n, room, buf), n, room, buf)
  /\ Good("GetTimeFormat", B!GetTimeFormat(n, room, buf), n, room, buf)
  /\ Good("LCMapString", B!LCMapString(n, room, buf), n, room, buf)
  /\ Good("LCMapStringEx", B!LCMapStringEx(n, room, buf), n, room, buf)
  /\ Good("WideCharToMultiByte", B!WideCharToMultiByte(n, room, buf), n, room, buf)
  /\ Good("MultiByteToWideChar", B!MultiByteToWideChar(n, room, buf), n, room, buf)
  /\ Good("EnumProcessModules", B!EnumProcessModules(n, room, buf), n, room, buf)
  /\ Good("EnumProcessModulesEx", B!EnumProcessModulesEx(n, room, buf), n, room, buf)
  /\ Good("EnumProcessIds", B!EnumProcessIds(n, room, buf), n, room, buf)
  /\ Good("EnumServicesStatus", B!EnumServicesStatus(n, room, buf), n, room, buf)

\* So they are for every text, room and buffer.
LEMMA AskingFits ==
  ASSUME NEW n \in Nat, NEW room \in Nat, NEW buf \in BOOLEAN
  PROVE  AskingFit(n, room, buf)
<1>1. /\ Good("GetFullPathName", B!GetFullPathName(n, room, buf), n, room, buf)
      /\ Good("GetFinalPathNameByHandle", B!GetFinalPathNameByHandle(n, room, buf), n, room, buf)
      /\ Good("GetComputerName", B!GetComputerName(n, room, buf), n, room, buf)
      /\ Good("GetEnvironmentVariable", B!GetEnvironmentVariable(n, room, buf), n, room, buf)
      /\ Good("GetCurrentDirectory", B!GetCurrentDirectory(n, room, buf), n, room, buf)
      /\ Good("GetTempPath", B!GetTempPath(n, room, buf), n, room, buf)
      /\ Good("GetShortPathName", B!GetShortPathName(n, room, buf), n, room, buf)
      /\ Good("GetLongPathName", B!GetLongPathName(n, room, buf), n, room, buf)
  BY BufferAssumption DEF Good, Needs, PlusOne, Exact, Respected, B!Smaller, B!Put, B!Ask,
     B!Refuse, B!Spoil,
     B!GetFullPathName, B!GetFinalPathNameByHandle, B!GetComputerName, B!GetEnvironmentVariable,
     B!GetCurrentDirectory, B!GetTempPath, B!GetShortPathName, B!GetLongPathName, B!AskOrPut
<1>2. /\ Good("GetLogicalDriveStrings", B!GetLogicalDriveStrings(n, room, buf), n, room, buf)
      /\ Good("GetComputerNameEx", B!GetComputerNameEx(n, room, buf), n, room, buf)
      /\ Good("GetUserNameEx", B!GetUserNameEx(n, room, buf), n, room, buf)
      /\ Good("GetUserName", B!GetUserName(n, room, buf), n, room, buf)
      /\ Good("UrlCombine", B!UrlCombine(n, room, buf), n, room, buf)
      /\ Good("RtlGetPersistedStateLocation", B!RtlGetPersistedStateLocation(n, room, buf), n, room, buf)
      /\ Good("GetVolumePathNamesForVolumeName", B!GetVolumePathNamesForVolumeName(n, room, buf), n, room, buf)
      /\ Good("LookupAccountName", B!LookupAccountName(n, room, buf), n, room, buf)
      /\ Good("LookupAccountSid", B!LookupAccountSid(n, room, buf), n, room, buf)
      /\ Good("ExpandEnvironmentStrings", B!ExpandEnvironmentStrings(n, room, buf), n, room, buf)
  BY BufferAssumption DEF Good, Needs, PlusOne, Exact, Respected, B!Smaller, B!Put, B!Ask,
     B!Refuse, B!Spoil,
     B!GetLogicalDriveStrings, B!GetComputerNameEx, B!GetUserNameEx, B!GetUserName, B!UrlCombine,
     B!RtlGetPersistedStateLocation, B!GetVolumePathNamesForVolumeName, B!LookupAccountName, B!LookupAccountSid,
     B!ExpandEnvironmentStrings, B!AskOrPut
<1>3. /\ Good("QueryServiceConfig", B!QueryServiceConfig(n, room, buf), n, room, buf)
      /\ Good("GetTokenInformation", B!GetTokenInformation(n, room, buf), n, room, buf)
      /\ Good("CryptGetHashParam", B!CryptGetHashParam(n, room, buf), n, room, buf)
      /\ Good("GetRawInputDeviceList", B!GetRawInputDeviceList(n, room, buf), n, room, buf)
  BY BufferAssumption DEF Good, Needs, PlusOne, Exact, Respected, B!Smaller, B!Put, B!Ask,
     B!Refuse, B!Spoil,
     B!QueryServiceConfig, B!GetTokenInformation, B!CryptGetHashParam, B!GetRawInputDeviceList, B!AskOrPut
<1>4. /\ Good("GetRawSmbios", B!GetRawSmbios(B!get_raw_smbios_data, room, buf), n, room, buf)
      /\ Good("TokenFlag", B!TokenFlag(room, buf), n, room, buf)
      /\ Good("GetSystemFirmwareTable", B!GetSystemFirmwareTable(n, room, buf), n, room, buf)
      /\ Good("GetFileVersionInfo", B!GetFileVersionInfo(n, room, buf), n, room, buf)
  BY BufferAssumption DEF Good, Needs, PlusOne, Exact, Respected, B!Smaller, B!Put, B!Ask,
     B!Refuse, B!Spoil,
     B!GetRawSmbios, B!TokenFlag, B!GetSystemFirmwareTable, B!GetFileVersionInfo, B!AskOrPut,
     B!get_raw_smbios_data, B!get_info
<1>5. /\ Good("GetSystemDirectory", B!GetSystemDirectory(n, room), n, room, buf)
      /\ Good("GetWindowsDirectory", B!GetWindowsDirectory(n, room), n, room, buf)
      /\ Good("GetSystemWindowsDirectory", B!GetSystemWindowsDirectory(n, room), n, room, buf)
  BY BufferAssumption DEF Good, Needs, PlusOne, Exact, Respected, B!Smaller, B!Put, B!Ask,
     B!Refuse, B!Spoil,
     B!GetSystemDirectory, B!GetWindowsDirectory, B!GetSystemWindowsDirectory
<1>6. /\ Good("GetLocaleInfo", B!GetLocaleInfo(n, room, buf), n, room, buf)
      /\ Good("GetDateFormat", B!GetDateFormat(n, room, buf), n, room, buf)
      /\ Good("GetTimeFormat", B!GetTimeFormat(n, room, buf), n, room, buf)
      /\ Good("LCMapString", B!LCMapString(n, room, buf), n, room, buf)
      /\ Good("LCMapStringEx", B!LCMapStringEx(n, room, buf), n, room, buf)
  BY BufferAssumption DEF Good, Needs, PlusOne, Exact, Respected, B!Smaller, B!Put, B!Ask,
     B!Refuse, B!Spoil,
     B!GetLocaleInfo, B!GetDateFormat, B!GetTimeFormat, B!LCMapString, B!LCMapStringEx, B!ZeroAsks
<1>7. /\ Good("WideCharToMultiByte", B!WideCharToMultiByte(n, room, buf), n, room, buf)
      /\ Good("MultiByteToWideChar", B!MultiByteToWideChar(n, room, buf), n, room, buf)
  BY BufferAssumption DEF Good, Needs, PlusOne, Exact, Respected, B!Smaller, B!Put, B!Ask,
     B!Refuse, B!Spoil,
     B!WideCharToMultiByte, B!MultiByteToWideChar
<1>8. /\ Good("EnumProcessModules", B!EnumProcessModules(n, room, buf), n, room, buf)
      /\ Good("EnumProcessModulesEx", B!EnumProcessModulesEx(n, room, buf), n, room, buf)
      /\ Good("EnumProcessIds", B!EnumProcessIds(n, room, buf), n, room, buf)
      /\ Good("EnumServicesStatus", B!EnumServicesStatus(n, room, buf), n, room, buf)
  BY BufferAssumption DEF Good, Needs, PlusOne, Exact, Respected, B!Smaller, B!Put, B!Ask,
     B!Refuse, B!Spoil,
     B!EnumProcessModules, B!EnumProcessModulesEx, B!EnumProcessIds, B!EnumServicesStatus
<1> QED BY <1>1, <1>2, <1>3, <1>4, <1>5, <1>6, <1>7, <1>8 DEF AskingFit

\* The outcomes of the functions that cut the text, or fail, are good.
CuttingFit(n, room, buf) ==
  /\ Good("GetModuleFileName", B!GetModuleFileName(n, room, buf), n, room, buf)
  /\ Good("GetConsoleTitle", B!GetConsoleTitle(n, room, buf), n, room, buf)
  /\ Good("GetWindowText", B!GetWindowText(n, room, buf), n, room, buf)
  /\ Good("GetModuleBaseName", B!GetModuleBaseName(n, room, buf), n, room, buf)
  /\ Good("GetModuleFileNameEx", B!GetModuleFileNameEx(n, room, buf), n, room, buf)
  /\ Good("LoadString", B!LoadString(n, room, buf), n, room, buf)
  /\ Good("wvnsprintfA", B!wvnsprintfA(n, room, buf), n, room, buf)
  /\ Good("wnsprintf", B!wnsprintf(n, room, buf), n, room, buf)
  /\ Good("lstrcpyn", B!lstrcpyn(n, room, buf), n, room, buf)
  /\ Good("GetModuleFileNameExA", B!GetModuleFileNameExA(n, room, buf), n, room, buf)
  /\ Good("EnumProcesses", B!EnumProcesses(n, room, buf), n, room, buf)
  /\ Good("QueryDosDevice", B!QueryDosDevice(n, room, buf), n, room, buf)
  /\ Good("FormatMessage", B!FormatMessage(n, room, buf), n, room, buf)
  /\ Good("StringFromGUID2", B!StringFromGUID2(n, room, buf), n, room, buf)
  /\ Good("QueryInformationJobObject", B!QueryInformationJobObject(n, room, buf), n, room, buf)
  /\ Good("GetModuleInformation", B!GetModuleInformation(n, room, buf), n, room, buf)
  /\ Good("CopySid", B!CopySid(n, room, buf), n, room, buf)
  /\ Good("DeviceIoControl", B!DeviceIoControl(n, room, buf), n, room, buf)
  /\ Good("EnumDisplayDevices", B!EnumDisplayDevices(n, room, buf), n, room, buf)
  /\ Good("GetVolumeInformation", B!GetVolumeInformation(n, room, buf), n, room, buf)

\* So they are for every text, room and buffer.
LEMMA CuttingFits ==
  ASSUME NEW n \in Nat, NEW room \in Nat, NEW buf \in BOOLEAN
  PROVE  CuttingFit(n, room, buf)
<1>1. /\ Good("GetModuleFileName", B!GetModuleFileName(n, room, buf), n, room, buf)
      /\ Good("GetConsoleTitle", B!GetConsoleTitle(n, room, buf), n, room, buf)
      /\ Good("GetWindowText", B!GetWindowText(n, room, buf), n, room, buf)
      /\ Good("GetModuleBaseName", B!GetModuleBaseName(n, room, buf), n, room, buf)
      /\ Good("GetModuleFileNameEx", B!GetModuleFileNameEx(n, room, buf), n, room, buf)
      /\ Good("LoadString", B!LoadString(n, room, buf), n, room, buf)
  BY BufferAssumption DEF Good, Needs, PlusOne, Exact, Respected, B!Smaller, B!Put, B!Ask,
     B!Refuse, B!Spoil,
     B!GetModuleFileName, B!GetConsoleTitle, B!GetWindowText, B!GetModuleBaseName, B!GetModuleFileNameEx,
     B!LoadString, B!Cut
<1>2. /\ Good("wvnsprintfA", B!wvnsprintfA(n, room, buf), n, room, buf)
      /\ Good("wnsprintf", B!wnsprintf(n, room, buf), n, room, buf)
  BY BufferAssumption DEF Good, Needs, PlusOne, Exact, Respected, B!Smaller, B!Put, B!Ask,
     B!Refuse, B!Spoil,
     B!wvnsprintfA, B!wnsprintf, B!Cut
<1>3. /\ Good("lstrcpyn", B!lstrcpyn(n, room, buf), n, room, buf)
      /\ Good("GetModuleFileNameExA", B!GetModuleFileNameExA(n, room, buf), n, room, buf)
  BY BufferAssumption DEF Good, Needs, PlusOne, Exact, Respected, B!Smaller, B!Put, B!Ask,
     B!Refuse, B!Spoil,
     B!lstrcpyn, B!GetModuleFileNameExA, B!Cut, B!CutFromEnd, B!WritesAnyway
<1>4. /\ Good("EnumProcesses", B!EnumProcesses(n, room, buf), n, room, buf)
      /\ Good("QueryDosDevice", B!QueryDosDevice(n, room, buf), n, room, buf)
      /\ Good("FormatMessage", B!FormatMessage(n, room, buf), n, room, buf)
      /\ Good("StringFromGUID2", B!StringFromGUID2(n, room, buf), n, room, buf)
      /\ Good("QueryInformationJobObject", B!QueryInformationJobObject(n, room, buf), n, room, buf)
      /\ Good("GetModuleInformation", B!GetModuleInformation(n, room, buf), n, room, buf)
  BY BufferAssumption DEF Good, Needs, PlusOne, Exact, Respected, B!Smaller, B!Put, B!Ask,
     B!Refuse, B!Spoil,
     B!EnumProcesses, B!QueryDosDevice, B!FormatMessage, B!StringFromGUID2, B!QueryInformationJobObject,
     B!GetModuleInformation, B!FitsOrFails
<1>5. /\ Good("CopySid", B!CopySid(n, room, buf), n, room, buf)
      /\ Good("DeviceIoControl", B!DeviceIoControl(n, room, buf), n, room, buf)
      /\ Good("EnumDisplayDevices", B!EnumDisplayDevices(n, room, buf), n, room, buf)
      /\ Good("GetVolumeInformation", B!GetVolumeInformation(n, room, buf), n, room, buf)
  BY BufferAssumption DEF Good, Needs, PlusOne, Exact, Respected, B!Smaller, B!Put, B!Ask,
     B!Refuse, B!Spoil,
     B!CopySid, B!DeviceIoControl, B!EnumDisplayDevices, B!GetVolumeInformation, B!FitsOrFails
<1> QED BY <1>1, <1>2, <1>3, <1>4, <1>5 DEF CuttingFit

\* The outcomes of the C run-time functions are good.
CrtFit(n, room, buf) ==
  /\ Good("format_time", B!format_time(n, room, buf), n, room, buf)
  /\ Good("strcpy_s", B!strcpy_s(n, room, buf), n, room, buf)
  /\ Good("wcscpy_s", B!wcscpy_s(n, room, buf), n, room, buf)
  /\ Good("strncpy", B!strncpy(n, room, buf), n, room, buf)
  /\ Good("wcsncpy", B!wcsncpy(n, room, buf), n, room, buf)
  /\ Good("memcpy_s", B!memcpy_s(n, room, buf), n, room, buf)
  /\ Good("memmove_s", B!memmove_s(n, room, buf), n, room, buf)
  /\ Good("_snprintf", B!_snprintf(n, room, buf), n, room, buf)
  /\ Good("_vsnprintf", B!_vsnprintf(n, room, buf), n, room, buf)
  /\ Good("_snwprintf", B!_snwprintf(n, room, buf), n, room, buf)
  /\ Good("_vsnwprintf", B!_vsnwprintf(n, room, buf), n, room, buf)
  /\ Good("sprintf_s", B!sprintf_s(n, room, buf), n, room, buf)
  /\ Good("convert_int_s", B!convert_int_s(n, room, buf), n, room, buf)
  /\ Good("_fullpath", B!_fullpath(n, room, buf), n, room, buf)
  /\ Good("make_path", B!make_path(n, room, buf), n, room, buf)
  /\ Good("split_path_s", B!split_path_s(n, room, buf), n, room, buf)
  /\ Good("wcstombs", B!wcstombs(n, room, buf), n, room, buf)
  /\ Good("mbstowcs", B!mbstowcs(n, room, buf), n, room, buf)
  /\ Good("mbsrtowcs", B!mbsrtowcs(n, room, buf), n, room, buf)

\* So they are for every text, room and buffer.
LEMMA CrtFits ==
  ASSUME NEW n \in Nat, NEW room \in Nat, NEW buf \in BOOLEAN
  PROVE  CrtFit(n, room, buf)
<1>1. /\ Good("format_time", B!format_time(n, room, buf), n, room, buf)
      /\ Good("strcpy_s", B!strcpy_s(n, room, buf), n, room, buf)
      /\ Good("wcscpy_s", B!wcscpy_s(n, room, buf), n, room, buf)
      /\ Good("strncpy", B!strncpy(n, room, buf), n, room, buf)
      /\ Good("wcsncpy", B!wcsncpy(n, room, buf), n, room, buf)
      /\ Good("memcpy_s", B!memcpy_s(n, room, buf), n, room, buf)
      /\ Good("memmove_s", B!memmove_s(n, room, buf), n, room, buf)
  BY BufferAssumption DEF Good, Needs, PlusOne, Exact, Respected, B!Smaller, B!Put, B!Ask,
     B!Refuse, B!Spoil,
     B!format_time, B!strcpy_s, B!wcscpy_s, B!strncpy, B!wcsncpy, B!memcpy_s, B!memmove_s
<1>2. /\ Good("_snprintf", B!_snprintf(n, room, buf), n, room, buf)
      /\ Good("_vsnprintf", B!_vsnprintf(n, room, buf), n, room, buf)
      /\ Good("_snwprintf", B!_snwprintf(n, room, buf), n, room, buf)
      /\ Good("_vsnwprintf", B!_vsnwprintf(n, room, buf), n, room, buf)
  BY BufferAssumption DEF Good, Needs, PlusOne, Exact, Respected, B!Smaller, B!Put, B!Ask,
     B!Refuse, B!Spoil,
     B!_snprintf, B!_vsnprintf, B!_snwprintf, B!_vsnwprintf, B!Unterminated
<1>3. /\ Good("sprintf_s", B!sprintf_s(n, room, buf), n, room, buf)
      /\ Good("convert_int_s", B!convert_int_s(n, room, buf), n, room, buf)
      /\ Good("_fullpath", B!_fullpath(n, room, buf), n, room, buf)
      /\ Good("make_path", B!make_path(n, room, buf), n, room, buf)
      /\ Good("split_path_s", B!split_path_s(n, room, buf), n, room, buf)
  BY BufferAssumption DEF Good, Needs, PlusOne, Exact, Respected, B!Smaller, B!Put, B!Ask,
     B!Refuse, B!Spoil,
     B!sprintf_s, B!convert_int_s, B!_fullpath, B!make_path, B!split_path_s, B!write_secure_format, B!strcpy_s
<1>4. /\ Good("wcstombs", B!wcstombs(n, room, buf), n, room, buf)
      /\ Good("mbstowcs", B!mbstowcs(n, room, buf), n, room, buf)
      /\ Good("mbsrtowcs", B!mbsrtowcs(n, room, buf), n, room, buf)
  BY BufferAssumption DEF Good, Needs, PlusOne, Exact, Respected, B!Smaller, B!Put, B!Ask,
     B!Refuse, B!Spoil,
     B!wcstombs, B!mbstowcs, B!mbsrtowcs, B!Cut, B!WritesAnyway
<1> QED BY <1>1, <1>2, <1>3, <1>4 DEF CrtFit

\* The outcomes of the C run-time functions that take a count c, a target that holds d characters, or options.
CrtCountedFit(n, room, buf, c, d, std, legacy) ==
  /\ Good("mbstowcs_s", B!mbstowcs_s(n, room, buf, c), n, room, buf)
  /\ Good("copy_n_secure", B!copy_n_secure(n, room, buf, c), n, room, buf)
  /\ Good("write_secure_format", B!write_secure_format(n, room, buf, c), n, room, buf)
  /\ Good("append_n_secure", B!append_n_secure(n, room, d, c), n, room, buf)
  /\ Good("strcat_s", B!strcat_s(n, room, buf, d), n, room, buf)
  /\ Good("wcscat_s", B!wcscat_s(n, room, buf, d), n, room, buf)
  /\ Good("stdio_common_format", B!stdio_common_format(n, room, buf, std, legacy), n, room, buf)

\* They are good for every count, target and option.
LEMMA CrtCountedFits ==
  ASSUME NEW n \in Nat, NEW room \in Nat, NEW buf \in BOOLEAN,
         NEW c \in B!Counts, NEW d \in B!Lengths, NEW std \in BOOLEAN, NEW legacy \in BOOLEAN
  PROVE  CrtCountedFit(n, room, buf, c, d, std, legacy)
<1>1. /\ Good("mbstowcs_s", B!mbstowcs_s(n, room, buf, c), n, room, buf)
      /\ Good("copy_n_secure", B!copy_n_secure(n, room, buf, c), n, room, buf)
      /\ Good("write_secure_format", B!write_secure_format(n, room, buf, c), n, room, buf)
  BY BufferAssumption DEF Good, Needs, PlusOne, Exact, Respected, B!Smaller, B!Put, B!Ask,
     B!Refuse, B!Spoil,
     B!mbstowcs_s, B!copy_n_secure, B!write_secure_format, B!TRUNCATE, B!Counts, B!Lengths
<1>2. /\ Good("append_n_secure", B!append_n_secure(n, room, d, c), n, room, buf)
  BY BufferAssumption DEF Good, Needs, PlusOne, Exact, Respected, B!Smaller, B!Put, B!Ask,
     B!Refuse, B!Spoil,
     B!append_n_secure, B!TRUNCATE, B!Counts, B!Lengths
<1>3. /\ Good("strcat_s", B!strcat_s(n, room, buf, d), n, room, buf)
      /\ Good("wcscat_s", B!wcscat_s(n, room, buf, d), n, room, buf)
  BY BufferAssumption DEF Good, Needs, PlusOne, Exact, Respected, B!Smaller, B!Put, B!Ask,
     B!Refuse, B!Spoil,
     B!strcat_s, B!wcscat_s, B!Lengths
<1>4. /\ Good("stdio_common_format", B!stdio_common_format(n, room, buf, std, legacy), n, room, buf)
  BY BufferAssumption DEF Good, Needs, PlusOne, Exact, Respected, B!Smaller, B!Put, B!Ask,
     B!Refuse, B!Spoil,
     B!stdio_common_format, B!Cut, B!Unterminated
<1> QED BY <1>1, <1>2, <1>3, <1>4 DEF CrtCountedFit

\* The outcomes of the kernel functions are good.
KernelFit(n, room, buf) ==
  /\ Good("RtlInitString", B!RtlInitString(n, room, buf), n, room, buf)
  /\ Good("RtlDuplicateUnicodeString", B!RtlDuplicateUnicodeString(n, room, buf), n, room, buf)
  /\ Good("RtlAnsiStringToUnicodeString", B!RtlAnsiStringToUnicodeString(n, room, buf), n, room, buf)
  /\ Good("RtlCopyUnicodeString", B!RtlCopyUnicodeString(n, room, buf), n, room, buf)
  /\ Good("RtlCompressBuffer", B!RtlCompressBuffer(n, room, buf), n, room, buf)
  /\ Good("RtlDecompressBuffer", B!RtlDecompressBuffer(n, room, buf), n, room, buf)
  /\ Good("ZwDeviceIoControlFile", B!ZwDeviceIoControlFile(n, room, buf), n, room, buf)
  /\ Good("modules", B!ZwQuerySystemInformation("modules", n, room, buf), n, room, buf)
  /\ Good("processes", B!ZwQuerySystemInformation("processes", n, room, buf), n, room, buf)
  /\ Good("time", B!ZwQuerySystemInformation("time", n, room, buf), n, room, buf)
  /\ Good("flags", B!ZwQuerySystemInformation("flags", n, room, buf), n, room, buf)
  /\ Good("wow64", B!ZwQueryInformationProcess("wow64", n, room), n, room, buf)
  /\ Good("basic", B!ZwQueryInformationProcess("basic", n, room), n, room, buf)
  /\ Good("debug", B!ZwQueryInformationProcess("debug", n, room), n, room, buf)

\* So they are for every text, room and buffer.
LEMMA KernelFits ==
  ASSUME NEW n \in Nat, NEW room \in Nat, NEW buf \in BOOLEAN
  PROVE  KernelFit(n, room, buf)
<1>1. /\ Good("RtlInitString", B!RtlInitString(n, room, buf), n, room, buf)
      /\ Good("RtlDuplicateUnicodeString", B!RtlDuplicateUnicodeString(n, room, buf), n, room, buf)
      /\ Good("RtlAnsiStringToUnicodeString", B!RtlAnsiStringToUnicodeString(n, room, buf), n, room, buf)
      /\ Good("RtlCopyUnicodeString", B!RtlCopyUnicodeString(n, room, buf), n, room, buf)
      /\ Good("RtlCompressBuffer", B!RtlCompressBuffer(n, room, buf), n, room, buf)
      /\ Good("RtlDecompressBuffer", B!RtlDecompressBuffer(n, room, buf), n, room, buf)
      /\ Good("ZwDeviceIoControlFile", B!ZwDeviceIoControlFile(n, room, buf), n, room, buf)
  BY BufferAssumption DEF Good, Needs, PlusOne, Exact, Respected, B!Smaller, B!Put, B!Ask,
     B!Refuse, B!Spoil,
     B!RtlInitString, B!RtlDuplicateUnicodeString, B!RtlAnsiStringToUnicodeString, B!RtlCopyUnicodeString,
     B!RtlCompressBuffer, B!RtlDecompressBuffer, B!ZwDeviceIoControlFile, B!FitsOrFails
<1>2. /\ Good("modules", B!ZwQuerySystemInformation("modules", n, room, buf), n, room, buf)
      /\ Good("processes", B!ZwQuerySystemInformation("processes", n, room, buf), n, room, buf)
      /\ Good("time", B!ZwQuerySystemInformation("time", n, room, buf), n, room, buf)
      /\ Good("flags", B!ZwQuerySystemInformation("flags", n, room, buf), n, room, buf)
  BY BufferAssumption DEF Good, Needs, PlusOne, Exact, Respected, B!Smaller, B!Put, B!Ask,
     B!Refuse, B!Spoil,
     B!ZwQuerySystemInformation, B!AskOrPut, B!FitsOrFails
<1>3. /\ Good("wow64", B!ZwQueryInformationProcess("wow64", n, room), n, room, buf)
      /\ Good("basic", B!ZwQueryInformationProcess("basic", n, room), n, room, buf)
      /\ Good("debug", B!ZwQueryInformationProcess("debug", n, room), n, room, buf)
  BY BufferAssumption DEF Good, Needs, PlusOne, Exact, Respected, B!Smaller, B!Put, B!Ask,
     B!Refuse, B!Spoil,
     B!ZwQueryInformationProcess, B!AskOrPut, B!FitsOrFails, B!write_process_info
<1> QED BY <1>1, <1>2, <1>3 DEF KernelFit

\* The outcomes of the kernel functions that take a count c or a target that holds d characters.
KernelCountedFit(n, room, buf, c, d) ==
  /\ Good("RtlAppendUnicodeToString", B!RtlAppendUnicodeToString(n, room, B!Smaller(d, room)), n, room, buf)
  /\ Good("_vsnprintf_s", B!_vsnprintf_s(n, room, buf, c), n, room, buf)

\* They are good for every count and target.
LEMMA KernelCountedFits ==
  ASSUME NEW n \in Nat, NEW room \in Nat, NEW buf \in BOOLEAN,
         NEW c \in B!Counts, NEW d \in B!Lengths
  PROVE  KernelCountedFit(n, room, buf, c, d)
<1>1. /\ Good("RtlAppendUnicodeToString", B!RtlAppendUnicodeToString(n, room, B!Smaller(d, room)), n, room, buf)
  BY BufferAssumption DEF Good, Needs, PlusOne, Exact, Respected, B!Smaller, B!Put, B!Ask,
     B!Refuse, B!Spoil,
     B!RtlAppendUnicodeToString, B!_append_to_unicode_string, B!Lengths
<1>2. /\ Good("_vsnprintf_s", B!_vsnprintf_s(n, room, buf, c), n, room, buf)
  BY BufferAssumption DEF Good, Needs, PlusOne, Exact, Respected, B!Smaller, B!Put, B!Ask,
     B!Refuse, B!Spoil,
     B!_vsnprintf_s, B!_write_secure_counted_string, B!TRUNCATE, B!Counts, B!Lengths
<1> QED BY <1>1, <1>2 DEF KernelCountedFit

\* The outcomes of the path functions, whose buffer has MAX_PATH characters.
PathCutting(n) ==
  /\ Good("PathCombine", B!PathCombine(n), n, MAX_PATH, TRUE)
  /\ Good("PathAddBackslash", B!PathAddBackslash(n), n, MAX_PATH, TRUE)
  /\ Good("PathRenameExtension", B!PathRenameExtension(n), n, MAX_PATH, TRUE)

\* They are good for every path.
LEMMA PathsFit ==
  ASSUME NEW n \in Nat
  PROVE  PathCutting(n)
BY BufferAssumption DEF PathCutting, Good, Needs, PlusOne, Exact, Respected, B!OneBeyond, B!Put,
   B!Ask,
   B!Refuse, B!Spoil,
     B!PathCombine, B!PathAddBackslash, B!PathRenameExtension

-----------------------------------------------------------------------------
\* What a call of a function comes down to.
TheyCall ==
  /\ \A f, o : \A room \in B!Rooms, buf \in BOOLEAN :
       f # "none" /\ text # B!None /\ B!Returns(f, room, buf, o) /\ Good(f, o, text, room, buf) => BufKept
  /\ \A f : \A room \in B!Rooms, buf \in BOOLEAN :
       f # "none" /\ text = B!None /\ B!Returns(f, room, buf, B!Refuse) => BufKept
  /\ \A f : \A room \in B!Rooms, buf \in BOOLEAN :
       /\ f # "none" /\ text = B!None
       /\ \/ B!Returns(f, room, buf, B!Spoil(IF buf /\ room > 0 THEN B!Terminator(room) ELSE 0))
          \/ B!Returns(f, room, buf, B!Spoil(IF buf /\ room > 0 THEN B!Everything(room) ELSE 0))
       => BufKept
  /\ text # B!None => text \in Nat
  /\ B!Rooms \subseteq Nat

\* Every call keeps the invariant, when its outcome is good.
LEMMA TheCalls == BufInv => TheyCall
<1> SUFFICES ASSUME BufInv PROVE TheyCall OBVIOUS
<1>1. B!Rooms \subseteq Nat /\ B!None = -1 /\ (text # -1 => text \in Nat)
  BY BufferAssumption DEF B!Rooms, B!None, BufInv, B!Lengths
<1>2. \A f, o : \A room \in B!Rooms, buf \in BOOLEAN :
        f # "none" /\ text # B!None /\ B!Returns(f, room, buf, o) /\ Good(f, o, text, room, buf) => BufKept
  BY <1>1, GoodCall
<1>3. \A f : \A room \in B!Rooms, buf \in BOOLEAN : \A k \in 0 .. room :
        f # "none" /\ text = B!None /\ B!Returns(f, room, buf, B!Spoil(k)) => BufKept
  BY <1>1, CallWithoutText
<1>4. B!Refuse = B!Spoil(0) BY DEF B!Refuse, B!Ask, B!Spoil
<1>5. \A room \in B!Rooms : 0 \in 0 .. room BY <1>1
<1>6. \A room \in B!Rooms, buf \in BOOLEAN :
        /\ (IF buf /\ room > 0 THEN B!Terminator(room) ELSE 0) \in 0 .. room
        /\ (IF buf /\ room > 0 THEN B!Everything(room) ELSE 0) \in 0 .. room
  BY <1>1 DEF B!Terminator, B!Everything
<1>7. \A f : \A room \in B!Rooms, buf \in BOOLEAN :
        f # "none" /\ text = B!None /\ B!Returns(f, room, buf, B!Refuse) => BufKept
  BY <1>3, <1>4, <1>5
<1>8. ASSUME NEW f, NEW room \in B!Rooms, NEW buf \in BOOLEAN, f # "none", text = B!None,
             \/ B!Returns(f, room, buf, B!Spoil(IF buf /\ room > 0 THEN B!Terminator(room) ELSE 0))
             \/ B!Returns(f, room, buf, B!Spoil(IF buf /\ room > 0 THEN B!Everything(room) ELSE 0))
      PROVE BufKept
  <2> DEFINE k == IF buf /\ room > 0 THEN B!Terminator(room) ELSE 0
             l == IF buf /\ room > 0 THEN B!Everything(room) ELSE 0
  <2>1. k \in 0 .. room /\ l \in 0 .. room BY <1>6
  <2> HIDE DEF k, l
  <2>2. B!Returns(f, room, buf, B!Spoil(k)) \/ B!Returns(f, room, buf, B!Spoil(l)) BY <1>8 DEF k, l
  <2> QED BY <1>3, <1>8, <2>1, <2>2
<1> QED BY <1>1, <1>2, <1>7, <1>8 DEF TheyCall

\* The calls that ask for a size.
LEMMA AskingCalls ==
  ASSUME BufInv, B!NextAsking
  PROVE  BufKept
<1>1. TheyCall BY TheCalls
<1>2. text # B!None => \A room \in B!Rooms, buf \in BOOLEAN : AskingFit(text, room, buf)
  BY <1>1, AskingFits DEF TheyCall
<1>3. CASE \/ B!CallAbout("GetFullPathName", B!GetFullPathName)
           \/ B!CallAbout("GetFinalPathNameByHandle", B!GetFinalPathNameByHandle)
           \/ B!Call("GetComputerName", B!GetComputerName)
           \/ B!CallAbout("GetEnvironmentVariable", B!GetEnvironmentVariable)
           \/ B!Call("GetCurrentDirectory", B!GetCurrentDirectory)
           \/ B!Call("GetTempPath", B!GetTempPath)
           \/ B!Call("GetShortPathName", B!GetShortPathName)
           \/ B!Call("GetLongPathName", B!GetLongPathName)
  BY <1>1, <1>2, <1>3 DEF TheyCall, AskingFit, B!CallAbout, B!CallOrClear, B!Call
<1>4. CASE \/ B!Call("GetLogicalDriveStrings", B!GetLogicalDriveStrings)
           \/ B!Call("GetComputerNameEx", B!GetComputerNameEx)
           \/ B!Call("GetUserNameEx", B!GetUserNameEx)
           \/ B!Call("GetUserName", B!GetUserName)
           \/ B!CallAbout("UrlCombine", B!UrlCombine)
           \/ B!CallAbout("RtlGetPersistedStateLocation", B!RtlGetPersistedStateLocation)
           \/ B!CallAbout("GetVolumePathNamesForVolumeName", B!GetVolumePathNamesForVolumeName)
           \/ B!CallAbout("LookupAccountName", B!LookupAccountName)
  BY <1>1, <1>2, <1>4 DEF TheyCall, AskingFit, B!CallAbout, B!CallOrClear, B!Call
<1>5. CASE \/ B!CallAbout("LookupAccountSid", B!LookupAccountSid)
           \/ B!CallAbout("QueryServiceConfig", B!QueryServiceConfig)
           \/ B!Call("GetTokenInformation", B!GetTokenInformation)
           \/ B!Call("TokenFlag", LAMBDA n, room, buf : B!TokenFlag(room, buf))
           \/ B!CallAbout("CryptGetHashParam", B!CryptGetHashParam)
           \/ B!Call("GetSystemDirectory", LAMBDA n, room, buf : B!GetSystemDirectory(n, room))
           \/ B!Call("GetWindowsDirectory", LAMBDA n, room, buf : B!GetWindowsDirectory(n, room))
           \/ B!Call("GetSystemWindowsDirectory", LAMBDA n, room, buf : B!GetSystemWindowsDirectory(n, room))
  BY <1>1, <1>2, <1>5 DEF TheyCall, AskingFit, B!CallAbout, B!CallOrClear, B!Call
<1>6. CASE \/ B!CallAbout("ExpandEnvironmentStrings", B!ExpandEnvironmentStrings)
           \/ B!Call("GetRawSmbios", LAMBDA n, room, buf : B!GetRawSmbios(B!get_raw_smbios_data, room, buf))
           \/ B!Call("GetSystemFirmwareTable", B!GetSystemFirmwareTable)
           \/ B!CallAbout("GetLocaleInfo", B!GetLocaleInfo)
           \/ B!CallAbout("GetDateFormat", B!GetDateFormat)
           \/ B!CallAbout("GetTimeFormat", B!GetTimeFormat)
           \/ B!CallAbout("LCMapString", B!LCMapString)
           \/ B!CallAbout("LCMapStringEx", B!LCMapStringEx)
  BY <1>1, <1>2, <1>6 DEF TheyCall, AskingFit, B!CallAbout, B!CallOrClear, B!Call
<1>7. CASE \/ B!CallAbout("WideCharToMultiByte", B!WideCharToMultiByte)
           \/ B!CallAbout("MultiByteToWideChar", B!MultiByteToWideChar)
           \/ B!CallAbout("EnumProcessModules", B!EnumProcessModules)
           \/ B!CallAbout("EnumProcessModulesEx", B!EnumProcessModulesEx)
           \/ B!Call("EnumProcessIds", B!EnumProcessIds)
           \/ B!Call("EnumServicesStatus", B!EnumServicesStatus)
           \/ B!Call("GetRawInputDeviceList", B!GetRawInputDeviceList)
           \/ B!CallAbout("GetFileVersionInfo", B!GetFileVersionInfo)
  BY <1>1, <1>2, <1>7 DEF TheyCall, AskingFit, B!CallAbout, B!CallOrClear, B!Call
<1>8. CASE B!GetFileVersionInfoSize
  <2>1. text # B!None /\ B!Returns("GetFileVersionInfo", 0, FALSE, B!Ask(B!get_size(text)))
    BY <1>8 DEF B!GetFileVersionInfoSize
  <2>2. text \in Nat /\ 0 \in B!Rooms BY <1>1, <2>1, BufferAssumption DEF TheyCall, B!Rooms
  <2>3. Good("GetFileVersionInfo", B!Ask(B!get_size(text)), text, 0, FALSE)
    BY <2>2 DEF Good, Needs, PlusOne, Exact, Respected, B!Ask, B!get_size
  <2> QED BY <1>1, <2>1, <2>2, <2>3 DEF TheyCall
<1> QED BY <1>3, <1>4, <1>5, <1>6, <1>7, <1>8 DEF B!NextAsking

\* The calls that cut the text, or fail.
LEMMA CuttingCalls ==
  ASSUME BufInv, B!NextCutting
  PROVE  BufKept
<1>1. TheyCall BY TheCalls
<1>2. text # B!None => \A room \in B!Rooms, buf \in BOOLEAN : CuttingFit(text, room, buf)
  BY <1>1, CuttingFits DEF TheyCall
<1>3. CASE \/ B!CallAbout("GetModuleFileName", B!GetModuleFileName)
           \/ B!Call("GetConsoleTitle", B!GetConsoleTitle)
           \/ B!Call("GetWindowText", B!GetWindowText)
           \/ B!CallAbout("GetModuleBaseName", B!GetModuleBaseName)
           \/ B!CallAbout("GetModuleFileNameEx", B!GetModuleFileNameEx)
           \/ B!Call("wvnsprintfA", B!wvnsprintfA)
           \/ B!Call("wnsprintf", B!wnsprintf)
           \/ B!CallAbout("LoadString", B!LoadString)
  BY <1>1, <1>2, <1>3 DEF TheyCall, CuttingFit, B!CallAbout, B!CallOrClear, B!Call
<1>4. CASE \/ B!CallAbout("lstrcpyn", B!lstrcpyn)
           \/ B!CallAbout("GetModuleFileNameExA", B!GetModuleFileNameExA)
           \/ B!Call("EnumProcesses", B!EnumProcesses)
           \/ B!CallAbout("QueryDosDevice", B!QueryDosDevice)
           \/ B!CallAbout("FormatMessage", B!FormatMessage)
           \/ B!Call("StringFromGUID2", B!StringFromGUID2)
           \/ B!CallAbout("QueryInformationJobObject", B!QueryInformationJobObject)
           \/ B!CallAbout("GetModuleInformation", B!GetModuleInformation)
  BY <1>1, <1>2, <1>4 DEF TheyCall, CuttingFit, B!CallAbout, B!CallOrClear, B!Call
<1>5. CASE \/ B!CallAbout("CopySid", B!CopySid)
           \/ B!CallAbout("DeviceIoControl", B!DeviceIoControl)
           \/ B!CallAbout("EnumDisplayDevices", B!EnumDisplayDevices)
           \/ B!Call("GetVolumeInformation", B!GetVolumeInformation)
  BY <1>1, <1>2, <1>5 DEF TheyCall, CuttingFit, B!CallAbout, B!CallOrClear, B!Call
<1>6. CASE \/ B!PathCall("PathCombine", B!PathCombine(text))
           \/ B!PathCall("PathAddBackslash", B!PathAddBackslash(text))
           \/ B!PathCall("PathRenameExtension", B!PathRenameExtension(text))
  <2>1. text # B!None /\ text \in Nat /\ PathCutting(text) BY <1>1, <1>6, PathsFit DEF TheyCall, B!PathCall
  <2>2. text # -1 /\ MAX_PATH \in Nat /\ TRUE \in BOOLEAN BY <2>1, BufferAssumption DEF B!None
  <2> QED BY <1>6, <2>1, <2>2, GoodCall DEF PathCutting, B!PathCall
<1> QED BY <1>3, <1>4, <1>5, <1>6 DEF B!NextCutting

\* The calls of the kernel.
LEMMA KernelBufferCalls ==
  ASSUME BufInv, B!NextKernelBuffers
  PROVE  BufKept
<1>1. TheyCall BY TheCalls
<1>2. text # B!None => \A room \in B!Rooms, buf \in BOOLEAN : KernelFit(text, room, buf)
  BY <1>1, KernelFits DEF TheyCall
<1>3. CASE \/ B!Call("RtlInitString", B!RtlInitString)
           \/ B!CallAbout("RtlDuplicateUnicodeString", B!RtlDuplicateUnicodeString)
           \/ B!Call("RtlAnsiStringToUnicodeString", B!RtlAnsiStringToUnicodeString)
           \/ B!Call("RtlCopyUnicodeString", B!RtlCopyUnicodeString)
           \/ B!CallAbout("RtlCompressBuffer", B!RtlCompressBuffer)
           \/ B!CallAbout("RtlDecompressBuffer", B!RtlDecompressBuffer)
           \/ B!CallAbout("ZwDeviceIoControlFile", B!ZwDeviceIoControlFile)
  BY <1>1, <1>2, <1>3 DEF TheyCall, KernelFit, B!CallAbout, B!CallOrClear, B!Call
<1>4. text # B!None => \A room \in B!Rooms, buf \in BOOLEAN, c \in B!Counts, d \in B!Lengths :
                          KernelCountedFit(text, room, buf, c, d)
  BY <1>1, KernelCountedFits DEF TheyCall
<1>5. 0 \in B!Lengths /\ B!TRUNCATE \in B!Counts BY BufferAssumption DEF B!Lengths, B!Counts
<1>6. CASE \E d \in B!Lengths :
             B!Call("RtlAppendUnicodeToString",
               LAMBDA n, room, buf : B!RtlAppendUnicodeToString(n, room, B!Smaller(d, room)))
  BY <1>1, <1>2, <1>4, <1>5, <1>6 DEF TheyCall, KernelFit, KernelCountedFit, B!CallAbout, B!Call
<1>7. CASE \E c \in B!Counts : B!Call("_vsnprintf_s", LAMBDA n, room, buf : B!_vsnprintf_s(n, room, buf, c))
  BY <1>1, <1>2, <1>4, <1>5, <1>7 DEF TheyCall, KernelFit, KernelCountedFit, B!CallAbout, B!Call
<1>8. CASE \E c \in B!SystemInformationClasses :
             B!CallAbout(c,
               LAMBDA n, room, buf : B!ZwQuerySystemInformation(c, n, room, buf))
  BY <1>1, <1>2, <1>4, <1>5, <1>8 DEF TheyCall, KernelFit, KernelCountedFit, B!CallAbout,
     B!Call,
     B!SystemInformationClasses, B!ProcessInformationClasses
<1>9. CASE \E c \in B!ProcessInformationClasses :
             B!CallAbout(c,
               LAMBDA n, room, buf : B!ZwQueryInformationProcess(c, n, room))
  BY <1>1, <1>2, <1>4, <1>5, <1>9 DEF TheyCall, KernelFit, KernelCountedFit, B!CallAbout,
     B!Call,
     B!SystemInformationClasses, B!ProcessInformationClasses
<1> QED BY <1>3, <1>4, <1>5, <1>6, <1>7, <1>8, <1>9 DEF B!NextKernelBuffers

\* The calls of the C run-time library.
LEMMA CrtBufferCalls ==
  ASSUME BufInv, B!NextCrtBuffers
  PROVE  BufKept
<1>1. TheyCall BY TheCalls
<1>2. text # B!None => \A room \in B!Rooms, buf \in BOOLEAN : CrtFit(text, room, buf)
  BY <1>1, CrtFits DEF TheyCall
<1>3. CASE \/ B!CallAbout("format_time", B!format_time)
           \/ B!CallOrClear("strcpy_s", B!strcpy_s, B!Terminator)
           \/ B!CallOrClear("wcscpy_s", B!wcscpy_s, B!Terminator)
           \/ B!Call("strncpy", B!strncpy)
           \/ B!Call("wcsncpy", B!wcsncpy)
           \/ B!CallOrClear("memcpy_s", B!memcpy_s, B!Everything)
           \/ B!CallAbout("memmove_s", B!memmove_s)
           \/ B!Call("_snprintf", B!_snprintf)
  BY <1>1, <1>2, <1>3 DEF TheyCall, CrtFit, B!CallAbout, B!CallOrClear, B!Call
<1>4. CASE \/ B!Call("_vsnprintf", B!_vsnprintf)
           \/ B!Call("_snwprintf", B!_snwprintf)
           \/ B!Call("_vsnwprintf", B!_vsnwprintf)
           \/ B!Call("sprintf_s", B!sprintf_s)
           \/ B!Call("convert_int_s", B!convert_int_s)
           \/ B!CallAbout("wcstombs", B!wcstombs)
           \/ B!Call("mbstowcs", B!mbstowcs)
           \/ B!Call("mbsrtowcs", B!mbsrtowcs)
  BY <1>1, <1>2, <1>4 DEF TheyCall, CrtFit, B!CallAbout, B!CallOrClear, B!Call
<1>5. CASE \/ B!Call("_fullpath", B!_fullpath)
           \/ B!Call("make_path", B!make_path)
           \/ B!CallOrClear("split_path_s", B!split_path_s, B!Terminator)
  BY <1>1, <1>2, <1>5 DEF TheyCall, CrtFit, B!CallAbout, B!CallOrClear, B!Call
<1>6. text # B!None =>
        \A room \in B!Rooms, buf \in BOOLEAN, c \in B!Counts, d \in B!Lengths, std \in BOOLEAN, legacy \in BOOLEAN :
          CrtCountedFit(text, room, buf, c, d, std, legacy)
  BY <1>1, CrtCountedFits DEF TheyCall
<1>7. 0 \in B!Lengths /\ B!TRUNCATE \in B!Counts BY BufferAssumption DEF B!Lengths, B!Counts
<1>8. CASE \E c \in B!Counts :
             \/ B!CallAbout("mbstowcs_s", LAMBDA n, room, buf : B!mbstowcs_s(n, room, buf, c))
             \/ B!CallOrClear("copy_n_secure", LAMBDA n, room, buf : B!copy_n_secure(n, room, buf, c), B!Terminator)
             \/ B!Call("write_secure_format", LAMBDA n, room, buf : B!write_secure_format(n, room, buf, c))
             \/ \E d \in B!Lengths : B!Call("append_n_secure", LAMBDA n, room, buf : B!append_n_secure(n, room, d, c))
  BY <1>1, <1>6, <1>7, <1>8 DEF TheyCall, CrtCountedFit, B!CallAbout, B!CallOrClear, B!Call
<1>9. CASE \E d \in B!Lengths :
             \/ B!CallOrClear("strcat_s", LAMBDA n, room, buf : B!strcat_s(n, room, buf, d), B!Terminator)
             \/ B!CallOrClear("wcscat_s", LAMBDA n, room, buf : B!wcscat_s(n, room, buf, d), B!Terminator)
  BY <1>1, <1>6, <1>7, <1>9 DEF TheyCall, CrtCountedFit, B!CallAbout, B!CallOrClear, B!Call
<1>10. CASE \E std, legacy \in BOOLEAN :
              B!Call("stdio_common_format",
                LAMBDA n, room, buf : B!stdio_common_format(n, room, buf, std, legacy))
  BY <1>1, <1>6, <1>7, <1>10 DEF TheyCall, CrtCountedFit, B!CallAbout, B!CallOrClear, B!Call
<1> QED BY <1>3, <1>4, <1>5, <1>6, <1>7, <1>8, <1>9, <1>10 DEF B!NextCrtBuffers

\* Every call keeps the invariant and respects the buffer.
LEMMA BufStep ==
  ASSUME BufInv, B!NextBuffers
  PROVE  BufKept
<1>1. ASSUME NEW n \in B!Lengths \cup {B!None}, B!Choose(n) PROVE BufKept
  BY <1>1, OtherText DEF B!None
<1>2. CASE \E n \in B!Lengths \cup {B!None} : B!Choose(n) \/ B!SetEnvironmentVariable(n) \/ B!SetCurrentDirectory(n)
  BY <1>1, <1>2 DEF B!SetEnvironmentVariable, B!SetCurrentDirectory
<1> QED BY <1>2, AskingCalls, CuttingCalls, KernelBufferCalls, CrtBufferCalls DEF B!NextBuffers

\* The invariant holds at the start.
LEMMA BufStart == B!Init => BufInv
<1> SUFFICES ASSUME B!Init PROVE BufInv OBVIOUS
<1>1. /\ text \in B!Lengths \cup {-1} /\ told = [fn |-> "none", size |-> 0, text |-> -1]
      /\ buf_res = [fn |-> "none", room |-> 0, buf |-> FALSE, put |-> 0, ok |-> FALSE]
  BY DEF B!Init, B!None
<1>2. told.fn = "none" /\ told.size = 0 /\ told.text = -1 /\ buf_res.put = 0 /\ buf_res.room = 0 BY <1>1
<1> QED BY <1>1, <1>2 DEF BufInv, Respected

\* A step or a stutter keeps the invariant and is as the two properties say.
LEMMA BufImplies ==
  ASSUME BufInv, [B!NextBuffers]_(B!vars)
  PROVE  /\ BufInv'
         /\ [Respected(buf_res'.fn, buf_res'.put, buf_res'.room)]_(B!vars)
         /\ [buf_res'.fn = told.fn /\ buf_res'.room = told.size /\ buf_res'.buf /\ text = told.text /\ UNCHANGED text
             => buf_res'.ok]_(B!vars)
<1>1. CASE B!NextBuffers
  <2>1. BufKept BY <1>1, BufStep
  <2> QED BY <2>1 DEF BufKept, BufInv
<1>2. CASE UNCHANGED B!vars BY <1>2 DEF B!vars, BufInv
<1> QED BY <1>1, <1>2

\* No handler writes beyond the room that the guest gave, and the usual two calls suffice, for every length of
\* the text, every room and every MAX_PATH (GetComputerName, GetUserName, strncpy_s, ZwQuerySystemInformation).
THEOREM BuffersFit == B!Init /\ [][B!NextBuffers]_(B!vars) => B!BuffersAreRespected /\ B!TwoCallsSuffice /\ []B!TypeOK
<1>1. B!Init => BufInv BY BufStart
<1>2. BufInv /\ [B!NextBuffers]_(B!vars) =>
        /\ BufInv'
        /\ [Respected(buf_res'.fn, buf_res'.put, buf_res'.room)]_(B!vars)
        /\ [buf_res'.fn = told.fn /\ buf_res'.room = told.size /\ buf_res'.buf /\ text = told.text /\ UNCHANGED text
            => buf_res'.ok]_(B!vars)
  BY BufImplies
<1>3. [Respected(buf_res'.fn, buf_res'.put, buf_res'.room)]_(B!vars)
      => [\/ buf_res'.put <= buf_res'.room
          \/ buf_res'.fn \in B!WritesAnyway /\ buf_res'.room = 0
          \/ buf_res'.fn \in B!OneBeyond /\ buf_res'.put = MAX_PATH + 1]_(B!vars)
  BY DEF Respected
<1>4. BufInv => B!TypeOK BY DEF BufInv, B!TypeOK, B!None
<1> QED BY <1>1, <1>2, <1>3, <1>4, PTL DEF B!BuffersAreRespected, B!TwoCallsSuffice

-----------------------------------------------------------------------------
(***************************************************************************)
(* The order of a driver's runs.  The runs that ran, that wait in the      *)
(* queue and that wait for DriverEntry are apart: none of them is an IRP,  *)
(* an export or the unload routine of another.  The unload routine is      *)
(* chosen when the exports have left the queue before it, and once only,   *)
(* as unload_called says (DriverInv).                                      *)
(***************************************************************************)

\* The runs of a driver that must not run twice.
Once == {"irp", "export", "unload"}
\* Two runs of the same IRP or export, or of the unload routine.
Alike(a, b) == a.type = b.type /\ a.name = b.name /\ a.type \in Once

\* The kinds of runs and their names: an IRP has its major function, an export its number.
Types == {"entry", "export", "irp", "unload", "thread", "reinit"}
Names == {""} \cup Nat \cup {IrpOrder[i] : i \in DOMAIN IrpOrder}
DriverRuns == {K!Run(type, name, inside) : type \in Types, name \in Names, inside \in BOOLEAN}
\* The three lists of runs.
Schedule(s) ==
  /\ {"queue", "delayed", "ran"} \subseteq DOMAIN s
  /\ s.queue \in Seq(DriverRuns) /\ s.delayed \in Seq(DriverRuns) /\ s.ran \in Seq(DriverRuns)

\* No two runs of a list, and no run of one list and one of another, are alike.
Different(s) == \A i, j \in 1 .. Len(s) : Alike(s[i], s[j]) => i = j
RunsApart(s, t) == \A i \in 1 .. Len(s), j \in 1 .. Len(t) : ~Alike(s[i], t[j])
\* In a list, every export is before the unload routine.
ExportsFirst(s) == \A u, e \in 1 .. Len(s) : s[u].type = "unload" /\ s[e].type = "export" => e < u
HasRun(s, type) == \E i \in 1 .. Len(s) : s[i].type = type

\* The invariant of the order.
DriverInv(s, called) ==
  /\ Schedule(s)
  /\ Different(s.ran) /\ Different(s.queue) /\ Different(s.delayed)
  /\ RunsApart(s.ran, s.queue) /\ RunsApart(s.ran, s.delayed) /\ RunsApart(s.queue, s.delayed)
  /\ ExportsFirst(s.ran) /\ ExportsFirst(s.queue)
  /\ HasRun(s.ran, "unload") => ~HasRun(s.queue, "export")
  /\ HasRun(s.ran, "unload") \/ HasRun(s.queue, "unload") => called /\ s.delayed = <<>>
  /\ \A i \in 1 .. Len(s.delayed) : s.delayed[i].type = "export"

\* The state of the driver emulator satisfies the invariant.
KernelInv == DriverInv(sched, drv.unload_called) /\ "unload_called" \in DOMAIN drv

\* A run that is alike to none joins the queue: exports never do, and the unload routine when nothing is delayed.
LEMMA AddsARun ==
  ASSUME NEW s, NEW called, DriverInv(s, called), NEW r \in DriverRuns,
         r.type = "export" => FALSE,
         r.type \in Once => /\ \A i \in 1 .. Len(s.ran) : ~Alike(s.ran[i], r)
                            /\ \A i \in 1 .. Len(s.queue) : ~Alike(s.queue[i], r)
                            /\ \A i \in 1 .. Len(s.delayed) : ~Alike(s.delayed[i], r),
         r.type = "unload" => called /\ s.delayed = <<>>
  PROVE  DriverInv(K!add_run(s, r), called)
<1> DEFINE t == K!add_run(s, r)
<1>1. Schedule(s) /\ s.queue \in Seq(DriverRuns) /\ s.ran \in Seq(DriverRuns) /\ s.delayed \in Seq(DriverRuns)
  BY DEF DriverInv, Schedule
<1>2. /\ Schedule(t) /\ t.queue = Append(s.queue, r) /\ t.ran = s.ran /\ t.delayed = s.delayed
  BY <1>1 DEF K!add_run, Schedule
<1>3. /\ Len(t.queue) = Len(s.queue) + 1 /\ t.queue[Len(s.queue) + 1] = r
      /\ \A i \in 1 .. Len(s.queue) : t.queue[i] = s.queue[i]
      /\ Len(s.queue) \in Nat /\ Len(s.ran) \in Nat /\ Len(s.delayed) \in Nat
  BY <1>1, <1>2
<1> HIDE DEF t
<1>4. \A a \in DriverRuns : ~(Alike(a, r) /\ r.type \notin Once) /\ ~(Alike(r, a) /\ r.type \notin Once)
  BY DEF Alike
<1>5. \A a : Alike(a, r) <=> Alike(r, a) BY DEF Alike
<1>11. \A i \in 1 .. Len(t.queue) : i \in 1 .. Len(s.queue) \/ i = Len(s.queue) + 1 BY <1>3
<1>12. r.type \in Once => \A i \in 1 .. Len(s.queue) : ~Alike(s.queue[i], r) OBVIOUS
<1>6. Different(t.queue)
  <2>1. SUFFICES ASSUME NEW i \in 1 .. Len(t.queue), NEW j \in 1 .. Len(t.queue), Alike(t.queue[i], t.queue[j])
                 PROVE i = j BY DEF Different
  <2>2. CASE i = Len(s.queue) + 1 /\ j \in 1 .. Len(s.queue)
    <3>1. Alike(r, s.queue[j]) BY <1>3, <2>1, <2>2
    <3>2. r.type \in Once BY <3>1 DEF Alike
    <3> QED BY <1>5, <1>12, <2>2, <3>1, <3>2
  <2>3. CASE j = Len(s.queue) + 1 /\ i \in 1 .. Len(s.queue)
    <3>1. Alike(s.queue[i], r) BY <1>3, <2>1, <2>3
    <3>2. r.type \in Once BY <3>1 DEF Alike
    <3> QED BY <1>5, <1>12, <2>3, <3>1, <3>2
  <2>4. CASE i \in 1 .. Len(s.queue) /\ j \in 1 .. Len(s.queue) BY <1>3, <2>1, <2>4 DEF DriverInv, Different
  <2> QED BY <1>11, <2>2, <2>3, <2>4
<1>7. RunsApart(t.ran, t.queue) /\ RunsApart(t.queue, t.delayed)
  BY <1>1, <1>2, <1>3, <1>4, <1>5 DEF DriverInv, RunsApart, Alike
<1>8. ExportsFirst(t.queue)
  <2>1. SUFFICES ASSUME NEW u \in 1 .. Len(t.queue), NEW e \in 1 .. Len(t.queue),
                        t.queue[u].type = "unload", t.queue[e].type = "export"
                 PROVE e < u BY DEF ExportsFirst
  <2>2. e \in 1 .. Len(s.queue) /\ s.queue[e].type = "export" BY <1>3, <1>11, <2>1
  <2>3. CASE u \in 1 .. Len(s.queue) BY <1>3, <2>1, <2>2, <2>3 DEF DriverInv, ExportsFirst
  <2>4. CASE u = Len(s.queue) + 1 BY <1>3, <2>2, <2>4
  <2> QED BY <1>11, <2>3, <2>4
<1>9. HasRun(t.queue, "export") => HasRun(s.queue, "export") BY <1>1, <1>3 DEF HasRun
<1>10. HasRun(t.queue, "unload") => HasRun(s.queue, "unload") \/ r.type = "unload" BY <1>1, <1>3 DEF HasRun
<1> QED BY <1>2, <1>6, <1>7, <1>8, <1>9, <1>10 DEF DriverInv, t

\* The exports that wait for the end of DriverEntry join an empty queue.
LEMMA ReleasesTheDelayed ==
  ASSUME NEW s, NEW called, DriverInv(s, called), s.queue = <<>>
  PROVE  /\ DriverInv(K!Released(s), called) /\ K!Released(s).delayed = <<>> /\ K!Released(s).ran = s.ran
         /\ K!Released(s).queue = s.delayed
<1> DEFINE t == K!Released(s)
<1>1. Schedule(s) /\ s.queue \in Seq(DriverRuns) /\ s.ran \in Seq(DriverRuns) /\ s.delayed \in Seq(DriverRuns)
  BY DEF DriverInv, Schedule
<1>2. s.queue \o s.delayed = s.delayed BY <1>1
<1>3. Schedule(t) /\ t.queue = s.delayed /\ t.delayed = <<>> /\ t.ran = s.ran
  BY <1>1, <1>2 DEF K!Released, Schedule
<1> HIDE DEF t
<1>4. RunsApart(t.ran, t.queue) /\ RunsApart(t.ran, t.delayed) /\ RunsApart(t.queue, t.delayed) /\ Different(t.delayed)
  BY <1>3 DEF DriverInv, RunsApart, Different
<1>5. ExportsFirst(t.queue) /\ ~HasRun(t.queue, "unload") BY <1>3 DEF DriverInv, ExportsFirst, HasRun
<1>6. HasRun(t.ran, "unload") => ~HasRun(t.queue, "export")
  <2>1. SUFFICES ASSUME HasRun(s.ran, "unload") PROVE ~HasRun(t.queue, "export") BY <1>3
  <2>2. s.delayed = <<>> BY <2>1 DEF DriverInv
  <2> QED BY <1>3, <2>2 DEF HasRun
<1>7. \A i \in 1 .. Len(t.delayed) : t.delayed[i].type = "export" BY <1>3
<1>8. DriverInv(t, called) BY <1>3, <1>4, <1>5, <1>6, <1>7 DEF DriverInv
<1> QED BY <1>3, <1>8 DEF t

\* The end of the emulation leaves the lists alone.
LEMMA Completes ==
  ASSUME NEW s, NEW called, DriverInv(s, called)
  PROVE  DriverInv(K!on_emu_complete(s), called)
<1>1. Schedule(s) BY DEF DriverInv
<1>2. /\ Schedule(K!on_emu_complete(s)) /\ K!on_emu_complete(s).ran = s.ran
      /\ K!on_emu_complete(s).queue = s.queue /\ K!on_emu_complete(s).delayed = s.delayed
  BY <1>1 DEF K!on_emu_complete, Schedule
<1> QED BY <1>2 DEF DriverInv

\* The prepared run leaves the queue, and ran if the emulation is not complete.
LEMMA PreparesARun ==
  ASSUME NEW s, NEW called, DriverInv(s, called)
  PROVE  DriverInv(K!_prepare_next_run(s), called)
<1> DEFINE t == K!_prepare_next_run(s)
<1>1. Schedule(s) /\ s.queue \in Seq(DriverRuns) /\ s.ran \in Seq(DriverRuns) /\ s.delayed \in Seq(DriverRuns)
  BY DEF DriverInv, Schedule
<1>2. CASE s.queue = <<>>
  <2>1. t = [K!on_emu_complete(s) EXCEPT !.cur = K!NoRun] BY <1>2 DEF K!_prepare_next_run
  <2>2. DriverInv(K!on_emu_complete(s), called) /\ Schedule(K!on_emu_complete(s)) BY Completes DEF DriverInv
  <2>4. /\ Schedule(t) /\ t.ran = K!on_emu_complete(s).ran
        /\ t.queue = K!on_emu_complete(s).queue /\ t.delayed = K!on_emu_complete(s).delayed
    BY <2>1, <2>2 DEF Schedule
  <2> QED BY <2>2, <2>4 DEF DriverInv
<1>3. CASE s.queue # <<>>
  <2> DEFINE r == s.queue[1]
             rest == Tail(s.queue)
  <2>1. /\ r \in DriverRuns /\ rest \in Seq(DriverRuns) /\ Len(rest) = Len(s.queue) - 1 /\ Head(s.queue) = r
        /\ Len(s.queue) \in Nat /\ Len(s.queue) >= 1 /\ \A i \in 1 .. Len(rest) : rest[i] = s.queue[i + 1]
    BY <1>1, <1>3
  <2> HIDE DEF r, rest
  <2>8. SUFFICES DriverInv(t, called) OBVIOUS
  <2>2. t = [s EXCEPT !.cur = Head(s.queue), !.queue = Tail(@), !.ending = FALSE,
                      !.ran = IF s.complete THEN @ ELSE Append(@, Head(s.queue))]
    BY <1>3 DEF K!_prepare_next_run
  <2>3. /\ Schedule(t) /\ t.queue = rest /\ t.delayed = s.delayed
        /\ t.ran = (IF s.complete THEN s.ran ELSE Append(s.ran, r))
    BY <1>1, <2>1, <2>2 DEF Schedule, rest
  <2> HIDE DEF t
  <2>4. Different(rest) /\ RunsApart(rest, s.delayed) /\ RunsApart(s.ran, rest) /\ ExportsFirst(rest)
    <3>1. \A i \in 1 .. Len(rest) : i + 1 \in 1 .. Len(s.queue) /\ rest[i] = s.queue[i + 1] BY <2>1
    <3>2. Different(rest)
      <4>1. SUFFICES ASSUME NEW i \in 1 .. Len(rest), NEW j \in 1 .. Len(rest), Alike(rest[i], rest[j]) PROVE i = j BY DEF Different
      <4>2. i + 1 = j + 1 BY <3>1, <4>1 DEF DriverInv, Different
      <4> QED BY <2>1, <4>2
    <3>3. RunsApart(rest, s.delayed) /\ RunsApart(s.ran, rest) BY <3>1 DEF DriverInv, RunsApart
    <3>4. ExportsFirst(rest)
      <4>1. SUFFICES ASSUME NEW u \in 1 .. Len(rest), NEW e \in 1 .. Len(rest), rest[u].type = "unload", rest[e].type = "export"
                     PROVE e < u BY DEF ExportsFirst
      <4>2. e + 1 < u + 1 BY <3>1, <4>1 DEF DriverInv, ExportsFirst
      <4> QED BY <2>1, <4>2
    <3> QED BY <3>2, <3>3, <3>4
  <2>5. (HasRun(rest, "export") => HasRun(s.queue, "export")) /\ (HasRun(rest, "unload") => HasRun(s.queue, "unload"))
    <3>1. \A i \in 1 .. Len(rest) : i + 1 \in 1 .. Len(s.queue) /\ rest[i] = s.queue[i + 1] BY <2>1
    <3> QED BY <3>1 DEF HasRun
  <2>6. CASE s.complete
    BY <2>3, <2>4, <2>5, <2>6 DEF DriverInv
  <2>7. CASE ~s.complete
    <3>1. /\ t.ran \in Seq(DriverRuns) /\ Len(t.ran) = Len(s.ran) + 1 /\ Len(s.ran) \in Nat
          /\ t.ran[Len(s.ran) + 1] = r /\ \A i \in 1 .. Len(s.ran) : t.ran[i] = s.ran[i]
      BY <1>1, <2>1, <2>3, <2>7
    <3>2. \A i \in 1 .. Len(t.ran) : i = Len(s.ran) + 1 \/ i \in 1 .. Len(s.ran) BY <3>1
    <3>3. 1 \in 1 .. Len(s.queue) /\ r = s.queue[1] BY <2>1 DEF r
    <3>4. \A a : Alike(a, r) <=> Alike(r, a) BY DEF Alike
    <3>5. \A i \in 1 .. Len(s.ran) : ~Alike(s.ran[i], r) BY <3>3 DEF DriverInv, RunsApart
    <3>6. Different(t.ran)
      <4>1. SUFFICES ASSUME NEW i \in 1 .. Len(t.ran), NEW j \in 1 .. Len(t.ran), Alike(t.ran[i], t.ran[j])
                     PROVE i = j BY DEF Different
      <4> QED BY <3>1, <3>2, <3>4, <3>5, <4>1 DEF DriverInv, Different
    <3>7. \A i \in 1 .. Len(rest) : ~Alike(r, rest[i])
      <4>1. SUFFICES ASSUME NEW i \in 1 .. Len(rest), Alike(r, rest[i]) PROVE FALSE OBVIOUS
      <4>2. i + 1 \in 1 .. Len(s.queue) /\ rest[i] = s.queue[i + 1] BY <2>1
      <4>3. 1 = i + 1 BY <3>3, <4>1, <4>2 DEF DriverInv, Different
      <4> QED BY <2>1, <4>3
    <3>8. RunsApart(t.ran, rest)
      <4>1. SUFFICES ASSUME NEW i \in 1 .. Len(t.ran), NEW j \in 1 .. Len(rest) PROVE ~Alike(t.ran[i], rest[j]) BY DEF RunsApart
      <4>2. CASE i = Len(s.ran) + 1 BY <3>1, <3>7, <4>2
      <4>3. CASE i \in 1 .. Len(s.ran) BY <2>4, <3>1, <4>3 DEF RunsApart
      <4> QED BY <3>2, <4>2, <4>3
    <3>9. RunsApart(t.ran, s.delayed)
      <4>1. SUFFICES ASSUME NEW i \in 1 .. Len(t.ran), NEW j \in 1 .. Len(s.delayed)
                     PROVE ~Alike(t.ran[i], s.delayed[j]) BY DEF RunsApart
      <4>2. CASE i = Len(s.ran) + 1 BY <3>1, <3>3, <4>2 DEF DriverInv, RunsApart
      <4>3. CASE i \in 1 .. Len(s.ran) BY <3>1, <4>3 DEF DriverInv, RunsApart
      <4> QED BY <3>2, <4>2, <4>3
    <3>10. ExportsFirst(t.ran)
      <4>1. SUFFICES ASSUME NEW u \in 1 .. Len(t.ran), NEW e \in 1 .. Len(t.ran),
                            t.ran[u].type = "unload", t.ran[e].type = "export"
                     PROVE e < u BY DEF ExportsFirst
      <4>2. CASE u \in 1 .. Len(s.ran)
        <5>1. t.ran[u] = s.ran[u] BY <3>1, <4>2
        <5>2. HasRun(s.ran, "unload") BY <4>1, <4>2, <5>1 DEF HasRun
        <5>3. r.type # "export" BY <3>3, <5>2 DEF DriverInv, HasRun
        <5>4. e \in 1 .. Len(s.ran) BY <3>1, <3>2, <4>1, <5>3
        <5>5. t.ran[e] = s.ran[e] BY <3>1, <5>4
        <5> QED BY <4>1, <4>2, <5>1, <5>4, <5>5 DEF DriverInv, ExportsFirst
      <4>3. CASE u = Len(s.ran) + 1
        <5>1. r.type = "unload" BY <3>1, <4>1, <4>3
        <5>2. e # u BY <4>1
        <5> QED BY <3>1, <3>2, <4>3, <5>2
      <4> QED BY <3>2, <4>2, <4>3
    <3>11. HasRun(t.ran, "unload") => HasRun(s.ran, "unload") \/ r.type = "unload" BY <3>1, <3>2 DEF HasRun
    <3>12. r.type = "unload" => HasRun(s.queue, "unload") BY <3>3 DEF HasRun
    <3>13. r.type = "unload" => ~HasRun(rest, "export")
      <4>1. SUFFICES ASSUME r.type = "unload", NEW i \in 1 .. Len(rest), rest[i].type = "export" PROVE FALSE BY DEF HasRun
      <4>2. i + 1 \in 1 .. Len(s.queue) /\ rest[i] = s.queue[i + 1] BY <2>1
      <4>3. i + 1 < 1 BY <3>3, <4>1, <4>2 DEF DriverInv, ExportsFirst
      <4> QED BY <2>1, <4>3
    <3> QED BY <2>3, <2>4, <2>5, <3>6, <3>8, <3>9, <3>10, <3>11, <3>12, <3>13 DEF DriverInv
  <2> QED BY <2>6, <2>7
<1> QED BY <1>2, <1>3
\* A run is in the set of runs, and has the fields that it is made of.
LEMMA RunsAreRuns ==
  ASSUME NEW type \in Types, NEW name \in Names, NEW inside \in BOOLEAN
  PROVE  /\ K!Run(type, name, inside) \in DriverRuns
         /\ K!Run(type, name, inside).type = type /\ K!Run(type, name, inside).name = name
<1>1. /\ K!Run(type, name, inside).type = type /\ K!Run(type, name, inside).name = name BY DEF K!Run
<1>2. K!Run(type, name, inside) \in DriverRuns
  <2>1. \E a \in Types, b \in Names, c \in BOOLEAN : K!Run(type, name, inside) = K!Run(a, b, c) OBVIOUS
  <2> QED BY <2>1 DEF DriverRuns
<1> QED BY <1>1, <1>2

\* A set of natural numbers has a least one.
LEMMA LeastOf ==
  ASSUME NEW Some, Some \subseteq Nat, Some # {}
  PROVE  \E x \in Some : \A y \in Some : x <= y
<1>1. IsWellFoundedOn(OpToRel(<, Nat), Nat) BY NatLessThanWellFounded
<1>2. PICK x \in Some : \A y \in Some : ~(<<y, x>> \in OpToRel(<, Nat)) BY <1>1, WFMin
<1>3. \A y \in Some : ~(y < x) BY <1>2 DEF OpToRel
<1>4. \A y \in Some : x <= y BY <1>3
<1> QED BY <1>4

\* The next major function is one that was not sent.
LEMMA LeastMajor ==
  ASSUME NEW s, K!Unsent(s) # {}
  PROVE  K!Min(K!Unsent(s)) \in K!Unsent(s)
<1>1. K!Unsent(s) \subseteq Nat BY KernelAssumption DEF K!Unsent
<1>2. \E x \in K!Unsent(s) : \A y \in K!Unsent(s) : x <= y BY <1>1, LeastOf
<1> HIDE DEF K!Unsent
<1> QED BY <1>2 DEF K!Min

\* The choice of the next run keeps the invariant, and sets unload_called when it chooses the unload routine.
LEMMA NextDriverFunc ==
  ASSUME KernelInv
  PROVE  DriverInv(K!next_driver_func(sched), IF K!CallsUnload(sched) THEN TRUE ELSE drv.unload_called)
<1> DEFINE u == K!Released(sched)
           c == IF K!CallsUnload(sched) THEN TRUE ELSE drv.unload_called
<1>1. DriverInv(sched, drv.unload_called) BY DEF KernelInv
<1>2. CASE sched.queue # <<>> \/ ~sched.all
  BY <1>1, <1>2 DEF K!next_driver_func, K!CallsUnload
<1>3. CASE sched.queue = <<>> /\ sched.all
  <2>1. /\ DriverInv(u, drv.unload_called) /\ u.delayed = <<>> /\ u.ran = sched.ran /\ u.queue = sched.delayed
    BY <1>1, <1>3, ReleasesTheDelayed
  <2> HIDE DEF u
  <2>2. \A i \in 1 .. Len(u.queue) : u.queue[i].type = "export" BY <1>1, <2>1 DEF DriverInv
  <2>3. Len(u.delayed) = 0 BY <2>1
  <2>4. DriverInv(u, TRUE) BY <2>1 DEF DriverInv
  <2>5. CASE K!Unloads(sched)
    <3>1. K!next_driver_func(sched) = K!driver_unload(u) BY <1>3, <2>5 DEF K!next_driver_func, u
    <3>2. K!CallsUnload(sched) <=> drv.unload BY <1>3, <2>5 DEF K!CallsUnload
    <3>3. CASE ~drv.unload \/ drv.unload_called
      <4>1. K!driver_unload(u) = K!on_emu_complete(u) BY <3>3 DEF K!driver_unload
      <4>2. DriverInv(u, c) BY <2>1, <2>4
      <4> HIDE DEF c
      <4>3. DriverInv(K!on_emu_complete(u), c) BY <4>2, Completes
      <4> QED BY <3>1, <4>1, <4>3 DEF c
    <3>4. CASE drv.unload /\ ~drv.unload_called
      <4> DEFINE r == K!Run("unload", "", TRUE)
      <4>1. K!driver_unload(u) = K!add_run(u, r) BY <3>4 DEF K!driver_unload
      <4>9. "" \in Names /\ "unload" \in Types BY DEF Names, Types
      <4>2. r \in DriverRuns /\ r.type = "unload" BY <4>9, RunsAreRuns
      <4> HIDE DEF r
      <4>3. ~HasRun(u.ran, "unload") BY <2>1, <3>4 DEF DriverInv
      <4>4. /\ \A i \in 1 .. Len(u.ran) : ~Alike(u.ran[i], r)
            /\ \A i \in 1 .. Len(u.queue) : ~Alike(u.queue[i], r)
            /\ \A i \in 1 .. Len(u.delayed) : ~Alike(u.delayed[i], r)
        BY <2>2, <2>3, <4>2, <4>3 DEF HasRun, Alike
      <4>5. DriverInv(K!add_run(u, r), TRUE) BY <2>1, <2>4, <4>2, <4>4, AddsARun
      <4> QED BY <3>1, <3>2, <3>4, <4>1, <4>5
    <3> QED BY <3>3, <3>4
  <2>6. CASE ~K!Unloads(sched)
    <3> DEFINE k == K!Min(K!Unsent(sched))
               r == K!Run("irp", IrpOrder[k], TRUE)
    <3>1. K!next_driver_func(sched) = K!add_run(u, r) /\ c = drv.unload_called
      BY <1>3, <2>6 DEF K!next_driver_func, K!CallsUnload, u
    <3>2. k \in K!Unsent(sched) BY <2>6, LeastMajor DEF K!Unloads
    <3> HIDE DEF k
    <3>3. k \in DOMAIN IrpOrder /\ ~K!Sent(sched, IrpOrder[k]) BY <3>2 DEF K!Unsent
    <3>4. IrpOrder[k] \in Names BY <3>3, KernelAssumption DEF Names
    <3>9. "irp" \in Types BY DEF Types
    <3>5. r \in DriverRuns /\ r.type = "irp" /\ r.name = IrpOrder[k] BY <3>4, <3>9, RunsAreRuns
    <3> HIDE DEF r
    <3>6. DOMAIN sched.ran = 1 .. Len(sched.ran) BY <1>1 DEF DriverInv, Schedule
    <3>7. /\ \A i \in 1 .. Len(u.ran) : ~Alike(u.ran[i], r)
          /\ \A i \in 1 .. Len(u.queue) : ~Alike(u.queue[i], r)
          /\ \A i \in 1 .. Len(u.delayed) : ~Alike(u.delayed[i], r)
      BY <2>1, <2>2, <2>3, <3>3, <3>5, <3>6 DEF K!Sent, Alike
    <3>8. DriverInv(K!add_run(u, r), drv.unload_called) BY <2>1, <3>5, <3>7, AddsARun
    <3> QED BY <3>1, <3>8
  <2> QED BY <2>5, <2>6
<1> QED BY <1>2, <1>3

\* What leaves the runs alone keeps the invariant.
LEMMA RunsStay ==
  ASSUME KernelInv, {"queue", "delayed", "ran"} \subseteq DOMAIN sched',
         sched'.queue = sched.queue, sched'.delayed = sched.delayed, sched'.ran = sched.ran,
         DOMAIN drv' = DOMAIN drv, drv'.unload_called = drv.unload_called
  PROVE  KernelInv'
BY DEF KernelInv, DriverInv, Schedule, Different, RunsApart, ExportsFirst, HasRun

\* The end of a run.
LEMMA RunCompletes ==
  ASSUME KernelInv, K!on_run_complete
  PROVE  KernelInv'
<1> DEFINE t == IF sched.cur.inside THEN K!next_driver_func(sched) ELSE sched
           c == IF sched.cur.inside /\ K!CallsUnload(sched) THEN TRUE ELSE drv.unload_called
<1>1. DriverInv(t, c) BY NextDriverFunc DEF KernelInv
<1>2. sched' = K!_prepare_next_run(t) BY DEF K!on_run_complete
<1>3. drv'.unload_called = c /\ "unload_called" \in DOMAIN drv' BY DEF K!on_run_complete, KernelInv
<1> HIDE DEF t, c
<1>4. DriverInv(sched', c) BY <1>1, <1>2, PreparesARun
<1> QED BY <1>3, <1>4 DEF KernelInv

\* A run that the driver asks for.
LEMMA ThreadsAreAdded ==
  ASSUME KernelInv, NEW type \in {"thread", "reinit"}, NEW inside \in BOOLEAN,
         sched' = [K!add_run(sched, K!Run(type, "", inside)) EXCEPT !.made = @ + 1], drv' = drv
  PROVE  KernelInv'
<1> DEFINE r == K!Run(type, "", inside)
           t == K!add_run(sched, r)
<1>6. "" \in Names /\ type \in Types BY DEF Names, Types
<1>1. r \in DriverRuns /\ r.type = type BY <1>6, RunsAreRuns
<1> HIDE DEF r
<1>2. DriverInv(t, drv.unload_called) BY <1>1, AddsARun DEF KernelInv, Once
<1>3. sched' = [t EXCEPT !.made = @ + 1] BY DEF r
<1> HIDE DEF t
<1>4. /\ {"queue", "delayed", "ran"} \subseteq DOMAIN sched'
      /\ sched'.queue = t.queue /\ sched'.delayed = t.delayed /\ sched'.ran = t.ran
  BY <1>2, <1>3 DEF DriverInv, Schedule
<1>5. DriverInv(sched', drv.unload_called) BY <1>2, <1>4 DEF DriverInv, Schedule
<1> QED BY <1>5 DEF KernelInv

\* The fields of the two records stay or change apart from the runs.
SameRuns ==
  /\ sched' = sched \/ sched' = [sched EXCEPT !.ending = TRUE]
  /\ \/ drv' = drv
     \/ \E m : drv' = [drv EXCEPT !.majors = m]
     \/ drv' = [drv EXCEPT !.unload = TRUE]
     \/ \E d, n : drv' = [drv EXCEPT !.devices = d, !.chain = n]

\* A step that leaves the runs alone keeps the invariant.
LEMMA SameRunsStay ==
  ASSUME KernelInv, SameRuns
  PROVE  KernelInv'
<1>1. /\ {"queue", "delayed", "ran"} \subseteq DOMAIN sched' /\ sched'.queue = sched.queue
      /\ sched'.delayed = sched.delayed /\ sched'.ran = sched.ran
  BY DEF SameRuns, KernelInv, DriverInv, Schedule
<1>2. DOMAIN drv' = DOMAIN drv /\ drv'.unload_called = drv.unload_called BY DEF SameRuns, KernelInv
<1> QED BY <1>1, <1>2, RunsStay
\* The steps of the three parts of the kernel.
KernelNext == K!NextRuns \/ K!NextKernelObjects \/ K!NextPool

\* The steps that order the runs keep the invariant.
LEMMA RunsStep ==
  ASSUME KernelInv, K!NextRuns
  PROVE  KernelInv'
<1>1. CASE K!on_run_complete BY <1>1, RunCompletes
<1>2. CASE \/ \E m \in K!Majors : K!SetMajorFunction(m)
           \/ K!SetDriverUnload \/ K!PsTerminateSystemThread \/ K!KeBugCheckEx
  <2>1. SameRuns
    BY <1>2 DEF SameRuns, K!SetMajorFunction, K!SetDriverUnload, K!PsTerminateSystemThread,
       K!KeBugCheckEx,
       K!InDriver, K!InSched, K!Only
  <2> QED BY <2>1, SameRunsStay
<1>3. CASE \E n \in DeviceNames, k \in BOOLEAN : K!IoCreateDevice(n, k) \/ K!IoCreateDeviceSecure(n, k)
  <2>1. SameRuns
    BY <1>3 DEF SameRuns, K!IoCreateDevice, K!IoCreateDeviceSecure, K!create_device_object,
       K!Raises
  <2> QED BY <2>1, SameRunsStay
<1>4. CASE \E inside, wants \in BOOLEAN : K!PsCreateSystemThread(inside, wants)
  <2>1. PICK inside \in BOOLEAN, wants \in BOOLEAN : K!PsCreateSystemThread(inside, wants) BY <1>4
  <2>2. CASE Len(sched.queue) >= max_runs
    <3>1. SameRuns BY <2>1, <2>2 DEF SameRuns, K!PsCreateSystemThread, K!Raises, K!InSched
    <3> QED BY <3>1, SameRunsStay
  <2>3. CASE ~(Len(sched.queue) >= max_runs)
    <3>1. /\ sched' = [K!add_run(sched, K!Run("thread", "", inside)) EXCEPT !.made = @ + 1] /\ drv' = drv
          /\ "thread" \in {"thread", "reinit"}
      BY <2>1, <2>3 DEF K!PsCreateSystemThread, K!InSched
    <3> QED BY <3>1, ThreadsAreAdded
  <2> QED BY <2>2, <2>3
<1>5. CASE K!IoRegisterBootDriverReinitialization
  <2>1. /\ sched' = [K!add_run(sched, K!Run("reinit", "", TRUE)) EXCEPT !.made = @ + 1] /\ drv' = drv
        /\ "reinit" \in {"thread", "reinit"} /\ TRUE \in BOOLEAN
    BY <1>5 DEF K!IoRegisterBootDriverReinitialization, K!InSched
  <2> QED BY <2>1, ThreadsAreAdded
<1> QED BY <1>1, <1>2, <1>3, <1>4, <1>5 DEF K!NextRuns

\* The calls about devices, names, references, processes and IRQL keep it.
LEMMA KernelObjectsStep ==
  ASSUME KernelInv, K!NextKernelObjects
  PROVE  KernelInv'
<1>1. CASE K!on_run_complete BY <1>1, RunCompletes
<1>2. CASE \/ \E n \in DeviceNames : K!IoCreateDevice(n, TRUE)
           \/ K!IoDeleteDevice \/ K!IoDeleteSymbolicLink \/ K!IoDeleteDriver
           \/ \E l \in LinkNames, n \in DeviceNames \cup LinkNames : K!IoCreateSymbolicLink(l, n)
  <2>1. SameRuns
    BY <1>2 DEF SameRuns, K!IoCreateDevice, K!create_device_object, K!Raises, K!IoDeleteDevice,
       K!IoDeleteSymbolicLink, K!IoDeleteDriver, K!IoCreateSymbolicLink, K!Only, K!InObjs
  <2> QED BY <2>1, SameRunsStay
<1>3. CASE \/ \E n \in DeviceNames \cup LinkNames : K!ObReferenceObjectByName(n) \/ K!IoGetDeviceObjectPointer(n)
           \/ \E p \in KernelProcesses : \/ K!PsLookupProcessByProcessId(p) \/ K!ObfDereferenceObject(p)
                                   \/ K!KeStackAttachProcess(p)
           \/ \E n \in DeviceNames : K!ZwCreateEvent(n) \/ K!IoCreateSynchronizationEvent(n) \/ K!ZwOpenEvent(n)
  <2>1. SameRuns
    BY <1>3 DEF SameRuns, K!ObReferenceObjectByName, K!IoGetDeviceObjectPointer,
       K!PsLookupProcessByProcessId,
       K!ObfDereferenceObject, K!KeStackAttachProcess, K!ZwCreateEvent, K!IoCreateSynchronizationEvent,
       K!ZwOpenEvent, K!Only, K!InObjs, K!InCpu
  <2> QED BY <2>1, SameRunsStay
<1>4. CASE \/ K!ObfReferenceObject \/ K!KeUnstackDetachProcess \/ K!PsGetCurrentProcessId
           \/ \E k \in BOOLEAN : K!ObOpenObjectByPointer(k) \/ K!ObReferenceObjectByHandle(k)
           \/ K!KeAcquireSpinLock \/ K!KeGetCurrentIrql
           \/ \E old \in {K!PASSIVE_LEVEL, K!DISPATCH_LEVEL} : K!KeReleaseSpinLock(old)
  <2>1. SameRuns
    BY <1>4 DEF SameRuns, K!ObfReferenceObject, K!KeUnstackDetachProcess,
       K!PsGetCurrentProcessId,
       K!ObOpenObjectByPointer, K!ObReferenceObjectByHandle, K!KeAcquireSpinLock, K!KeGetCurrentIrql,
       K!KeReleaseSpinLock, K!Only, K!InCpu
  <2> QED BY <2>1, SameRunsStay
<1> QED BY <1>1, <1>2, <1>3, <1>4 DEF K!NextKernelObjects

\* The calls about pool, IRPs, MDLs, memory and all that the emulator does not keep leave the runs alone.
LEMMA PoolStep ==
  ASSUME KernelInv, K!NextPool
  PROVE  KernelInv'
<1>1. CASE K!on_run_complete BY <1>1, RunCompletes
<1>2. CASE ~K!on_run_complete
  <2>1. \A kind : (K!Allocates(kind) \/ K!Frees(kind)) => SameRuns BY DEF SameRuns, K!Allocates, K!Frees, K!InPool
  <2>2. \A r : K!Only(r) => SameRuns BY DEF SameRuns, K!Only
  <2>3. \A p : K!Modifies(p) => SameRuns BY DEF SameRuns, K!Modifies, K!InObjs
  <2>4. \A m, i, o : K!IoBuildDeviceIoControlRequest(m, i, o) => SameRuns
    BY DEF SameRuns, K!IoBuildDeviceIoControlRequest, K!InPool
  <2> HIDE DEF SameRuns
  <2>5. (\/ K!ExAllocatePoolWithTag \/ K!ExFreePoolWithTag
         \/ \E n \in 0 .. 1 : K!ExAllocatePool2(n) \/ K!MmMapIoSpace(n)
         \/ K!IoAllocateWorkItem \/ K!IoFreeWorkItem \/ K!IoQueueWorkItem
         \/ K!IoAllocateIrp \/ K!IoFreeIrp \/ K!IoAllocateMdl \/ K!IoFreeMdl \/ K!IofCallDriver \/ K!MmUnmapIoSpace)
        => SameRuns
    BY <2>1, <2>2 DEF K!ExAllocatePoolWithTag, K!ExFreePoolWithTag, K!ExAllocatePool2,
       K!MmMapIoSpace,
       K!IoAllocateWorkItem, K!IoFreeWorkItem, K!IoQueueWorkItem, K!IoAllocateIrp, K!IoFreeIrp, K!IoAllocateMdl,
       K!IoFreeMdl, K!IofCallDriver, K!MmUnmapIoSpace
  <2>6. (\/ \E k \in BOOLEAN : K!ZwAllocateVirtualMemory(k) \/ K!ZwGetContextThread(k)
         \/ \E p \in KernelProcesses, k, g \in BOOLEAN : K!ZwWriteVirtualMemory(p, k, g) \/ K!ZwSetContextThread(p, k, g)
         \/ K!FsRtlAllocatePool \/ K!ZwProtectVirtualMemory \/ \E n \in {15, 16} : K!RtlInitializeSid(n))
        => SameRuns
    BY <2>1, <2>2, <2>3 DEF K!ZwAllocateVirtualMemory, K!ZwGetContextThread,
       K!ObReferenceObjectByHandle,
       K!ZwWriteVirtualMemory, K!ZwSetContextThread, K!FsRtlAllocatePool, K!ZwProtectVirtualMemory, K!RtlInitializeSid
  <2>7. (\/ K!KernelTimers \/ K!KernelWaits \/ K!Deferred \/ K!CompletionRoutines \/ K!Debugger
         \/ K!KernelEvents \/ K!Resources \/ K!CmCallbacks \/ K!NotifyRoutines \/ K!ShutdownNotifications
         \/ K!SecurityDescriptors \/ K!RtlQueryFeatureConfiguration \/ K!FeatureConfiguration \/ K!DebugPrints)
        => SameRuns
    BY <2>2 DEF K!KernelTimers, K!KernelWaits, K!Deferred, K!CompletionRoutines, K!Debugger,
       K!KernelEvents,
       K!Resources, K!CmCallbacks, K!NotifyRoutines, K!ShutdownNotifications, K!SecurityDescriptors,
       K!RtlQueryFeatureConfiguration, K!FeatureConfiguration, K!DebugPrints
  <2>8. SameRuns BY <1>2, <2>4, <2>5, <2>6, <2>7 DEF K!NextPool
  <2> QED BY <2>8, SameRunsStay
<1> QED BY <1>1, <1>2

\* The invariant holds at the start: DriverEntry ran, and the exports have different numbers.
LEMMA KernelStart == K!Init => KernelInv
<1> SUFFICES ASSUME K!Init PROVE KernelInv OBVIOUS
<1>1. PICK all \in BOOLEAN, n \in 0 .. MaxExports :
        sched = [queue |-> <<>>, delayed |-> IF all THEN [i \in 1 .. n |-> K!ExportRun(i)] ELSE <<>>,
                 exports |-> IF all THEN n ELSE 0, all |-> all, cur |-> K!DriverEntry, ran |-> <<K!DriverEntry>>,
                 ending |-> FALSE, complete |-> FALSE, made |-> 0]
  BY DEF K!Init
<1>2. "unload_called" \in DOMAIN drv BY DEF K!Init
<1>3. /\ sched.queue = <<>> /\ sched.ran = <<K!DriverEntry>>
      /\ sched.delayed = (IF all THEN [i \in 1 .. n |-> K!ExportRun(i)] ELSE <<>>)
      /\ {"queue", "delayed", "ran"} \subseteq DOMAIN sched
  BY <1>1
<1>4. K!DriverEntry \in DriverRuns /\ K!DriverEntry.type = "entry"
  <2>1. "entry" \in Types /\ "" \in Names BY DEF Types, Names
  <2> QED BY <2>1, RunsAreRuns DEF K!DriverEntry
<1>5. \A i \in Nat : K!ExportRun(i) \in DriverRuns /\ K!ExportRun(i).type = "export" /\ K!ExportRun(i).name = i
  <2>1. "export" \in Types /\ \A i \in Nat : i \in Names BY DEF Types, Names
  <2> QED BY <2>1, RunsAreRuns DEF K!ExportRun
<1>6. n \in Nat BY KernelAssumption
<1>7. /\ sched.delayed \in Seq(DriverRuns)
      /\ \A i \in 1 .. Len(sched.delayed) : sched.delayed[i].type = "export" /\ sched.delayed[i].name = i
  <2>1. CASE all
    <3> DEFINE d == [i \in 1 .. n |-> K!ExportRun(i)]
    <3>1. d \in Seq(DriverRuns) /\ Len(d) = n /\ \A i \in 1 .. n : d[i] = K!ExportRun(i) /\ i \in Nat BY <1>5, <1>6
    <3> QED BY <1>3, <1>5, <2>1, <3>1
  <2>2. CASE ~all BY <1>3, <2>2
  <2> QED BY <2>1, <2>2
<1>8. Len(sched.ran) = 1 /\ sched.ran[1].type = "entry" /\ sched.ran \in Seq(DriverRuns) BY <1>3, <1>4
<1>9. Schedule(sched) /\ Len(sched.queue) = 0 BY <1>3, <1>7, <1>8 DEF Schedule
<1>10. Different(sched.ran) /\ ExportsFirst(sched.ran) /\ ~HasRun(sched.ran, "unload")
  <2>1. \A i \in 1 .. Len(sched.ran) : i = 1 /\ sched.ran[i].type = "entry" BY <1>8
  <2> QED BY <2>1 DEF Different, ExportsFirst, HasRun
<1>11. /\ Different(sched.queue) /\ ExportsFirst(sched.queue) /\ ~HasRun(sched.queue, "unload")
       /\ RunsApart(sched.ran, sched.queue) /\ RunsApart(sched.queue, sched.delayed)
  BY <1>9 DEF Different, ExportsFirst, HasRun, RunsApart
<1>12. Different(sched.delayed) /\ RunsApart(sched.ran, sched.delayed)
  <2>1. \A i \in 1 .. Len(sched.ran) : i = 1 /\ sched.ran[i].type = "entry" BY <1>8
  <2> QED BY <1>7, <2>1 DEF Different, RunsApart, Alike
<1> QED BY <1>2, <1>7, <1>9, <1>10, <1>11, <1>12 DEF KernelInv, DriverInv

\* The cardinality of the instance is that of the theorems about finite sets.
LEMMA KernelCardinality ==
  ASSUME NEW Same
  PROVE  K!Cardinality(Same) = Cardinality(Same)
BY Zenon DEF K!Cardinality, Cardinality

\* The invariant says that every run is there once, in its order.
LEMMA KernelOrder ==
  ASSUME KernelInv
  PROVE  K!DriverRunsOnce
<1>1. sched.ran \in Seq(DriverRuns) /\ Different(sched.ran) /\ ExportsFirst(sched.ran)
      /\ DOMAIN sched.ran = 1 .. Len(sched.ran) /\ Len(sched.ran) \in Nat
  BY DEF KernelInv, DriverInv, Schedule
<1>2. ASSUME NEW type \in Once, NEW name PROVE K!Count(type, name) <= 1
  <2> DEFINE Same == {i \in DOMAIN sched.ran : sched.ran[i].type = type /\ sched.ran[i].name = name}
  <2>1. \A i, j \in Same : i = j BY <1>1 DEF Different, Alike
  <2>2. K!Count(type, name) = Cardinality(Same) BY KernelCardinality DEF K!Count
  <2> HIDE DEF Same
  <2>3. CASE Same = {} BY <2>2, <2>3, FS_EmptySet
  <2>4. CASE Same # {}
    <3>1. PICK x : Same = {x} BY <2>1, <2>4
    <3>2. Cardinality({x}) = 1 BY FS_Singleton
    <3> QED BY <2>2, <3>1, <3>2
  <2> QED BY <2>3, <2>4
<1>3. \A u \in K!Position("unload"), e \in K!Position("export") : e < u BY <1>1 DEF K!Position, ExportsFirst
<1>4. "irp" \in Once /\ "export" \in Once /\ "unload" \in Once BY DEF Once
<1> QED BY <1>2, <1>3, <1>4 DEF K!DriverRunsOnce

\* Each IRP, each export and the unload routine of a driver run at most once.
THEOREM DriverOrder == K!Init /\ [][KernelNext]_(K!vars) => []K!DriverRunsOnce
<1>1. KernelInv /\ [KernelNext]_(K!vars) => KernelInv'
  <2>1. KernelInv /\ KernelNext => KernelInv' BY RunsStep, KernelObjectsStep, PoolStep DEF KernelNext
  <2>2. KernelInv /\ UNCHANGED K!vars => KernelInv'
    BY DEF K!vars, KernelInv, DriverInv, Schedule, Different, RunsApart, ExportsFirst, HasRun
  <2> QED BY <2>1, <2>2
<1> QED BY <1>1, KernelStart, KernelOrder, PTL

-----------------------------------------------------------------------------
(***************************************************************************)
(* The C run-time library.  A function that is in the table of exit        *)
(* functions is in it once and was not called (TableOK), so that a call,   *)
(* which empties its entry first, is the only one, however the table moves *)
(* and is run again in between.  Without nesting one frame runs the table, *)
(* and all above its last entry is empty unless the table changed          *)
(* (Follows), so that a table that is freed is empty.  A handler that is   *)
(* installed was not called (SignalInv).                                   *)
(***************************************************************************)

\* The table t, alone on the heap a: a function that is registered in it was not called, and is in it once.
TableOK(t, a, r) ==
  /\ t = [first |-> t.first, last |-> t.last, end |-> t.end]
  /\ t.first \in Nat /\ t.last \in Nat /\ t.end \in Nat /\ t.last <= t.end
  /\ t.first = 0 => t.last = 0 /\ t.end = 0
  /\ r \in Seq({0, 1})
  /\ a = [x \in {t.first} \ {0} |-> a[x]]
  /\ t.first # 0 =>
       /\ a[t.first] \in [1 .. t.end -> 0 .. Len(r)]
       /\ \A i \in 1 .. t.end : i > t.last => a[t.first][i] = 0
       /\ \A i, j \in 1 .. t.end : a[t.first][i] = a[t.first][j] /\ a[t.first][i] # 0 => i = j
       /\ \A i \in 1 .. t.end : a[t.first][i] # 0 => r[a[t.first][i]] = 0

\* A frame that runs the table from its entry `last` down, and saw the table end at saved[2].
ExitFrame(f) ==
  /\ f = [kind |-> "onexit", first |-> f.first, last |-> f.last, saved |-> <<f.first, f.saved[2]>>, new |-> FALSE]
  /\ f.first \in Nat /\ f.last \in Nat /\ f.saved[2] \in Nat /\ f.last <= f.saved[2]

\* The frame f of the table t has called all above its last entry, unless the table changed.
Follows(f, t, a) ==
  /\ t.first # 0 /\ f.saved[2] <= t.last
  /\ f.saved = <<t.first, t.last>> => \A i \in 1 .. t.end : i > f.last => a[t.first][i] = 0

\* The frames that wait for a guest function.
FramesOK(fr) ==
  /\ \E Some : fr \in Seq(Some)
  /\ \A k \in 1 .. Len(fr) : fr[k].kind = "onexit" => ExitFrame(fr[k])

\* Without nesting, one frame runs the table, and nothing was lost.
Alone(fr, t, a) ==
  /\ \A k, l \in 1 .. Len(fr) : fr[k].kind = "onexit" /\ fr[l].kind = "onexit" => k = l
  /\ \A k \in 1 .. Len(fr) : fr[k].kind = "onexit" => Follows(fr[k], t, a)

\* No freed table was read.
HistOK(h) ==
  /\ h = [nested |-> h.nested, fault |-> h.fault, lost |-> h.lost, installs |-> h.installs, handled |-> h.handled]
  /\ h.nested \in BOOLEAN /\ ~h.fault

\* The inductive invariant of the exit functions.
ExitInv ==
  /\ TableOK(tab, arrays, ran) /\ FramesOK(crt_frames) /\ HistOK(crt_hist)
  /\ ~crt_hist.nested => Alone(crt_frames, tab, arrays) /\ crt_hist.lost = {}

-----------------------------------------------------------------------------
(* Frames. *)

\* A frame that is pushed is the last one, and the others stay.
LEMMA PushedFrame ==
  ASSUME NEW fr, FramesOK(fr), NEW f
  PROVE  /\ \E Some : Append(fr, f) \in Seq(Some)
         /\ Len(fr) \in Nat /\ Len(Append(fr, f)) = Len(fr) + 1
         /\ Append(fr, f)[Len(fr) + 1] = f
         /\ \A k \in 1 .. Len(fr) : Append(fr, f)[k] = fr[k]
         /\ \A k \in 1 .. Len(Append(fr, f)) : k \in 1 .. Len(fr) \/ k = Len(fr) + 1
<1>1. PICK Some : fr \in Seq(Some) BY DEF FramesOK
<1>2. fr \in Seq(Some \cup {f}) /\ Len(fr) \in Nat BY <1>1
<1>3. Append(fr, f) \in Seq(Some \cup {f}) /\ Len(Append(fr, f)) = Len(fr) + 1 BY <1>2
<1>4. Append(fr, f)[Len(fr) + 1] = f /\ \A k \in 1 .. Len(fr) : Append(fr, f)[k] = fr[k] BY <1>2
<1> QED BY <1>2, <1>3, <1>4

\* A frame that goes is the last one, and the others stay.
LEMMA PoppedFrame ==
  ASSUME NEW fr, FramesOK(fr), fr # <<>>
  PROVE  /\ \E Some : M!Front(fr) \in Seq(Some)
         /\ Len(fr) \in Nat /\ Len(fr) >= 1 /\ Len(M!Front(fr)) = Len(fr) - 1
         /\ \A k \in 1 .. Len(M!Front(fr)) : k \in 1 .. Len(fr) /\ k # Len(fr) /\ M!Front(fr)[k] = fr[k]
         /\ M!Last(fr) = fr[Len(fr)] /\ Len(fr) \in 1 .. Len(fr)
<1>1. PICK Some : fr \in Seq(Some) BY DEF FramesOK
<1>2. Len(fr) \in Nat /\ Len(fr) >= 1 BY <1>1
<1>3. M!Front(fr) = SubSeq(fr, 1, Len(fr) - 1) BY DEF M!Front
<1>4. SubSeq(fr, 1, Len(fr) - 1) \in Seq(Some) BY <1>1, <1>2
<1>5. Len(SubSeq(fr, 1, Len(fr) - 1)) = Len(fr) - 1
  <2>1. \A k \in 1 .. Len(fr) - 1 : fr[k] \in Some BY <1>1, <1>2
  <2> DEFINE n == Len(fr)
  <2>2. n \in Nat /\ n >= 1 BY <1>2
  <2> HIDE DEF n
  <2>3. 1 \in Int /\ n - 1 \in Int /\ (IF 1 <= n - 1 THEN (n - 1) - 1 + 1 ELSE 0) = n - 1 BY <2>2
  <2>4. Len(SubSeq(fr, 1, n - 1)) = IF 1 <= n - 1 THEN (n - 1) - 1 + 1 ELSE 0
    <3>1. \A k \in 1 .. n - 1 : fr[k] \in Some BY <2>1 DEF n
    <3> QED BY <2>3, <3>1, SubSeqProperties
  <2> QED BY <2>3, <2>4 DEF n
<1>6. \A k \in 1 .. Len(fr) - 1 : SubSeq(fr, 1, Len(fr) - 1)[k] = fr[k] BY <1>1, <1>2
<1> QED BY <1>2, <1>3, <1>4, <1>5, <1>6 DEF M!Last

\* A frame that runs no table comes, a frame goes, or all go: what the frames say of the table stays.
LEMMA OtherFrame ==
  ASSUME NEW fr, FramesOK(fr), NEW f, f.kind # "onexit"
  PROVE  /\ FramesOK(Append(fr, f))
         /\ \A t, a : Alone(fr, t, a) => Alone(Append(fr, f), t, a)
<1> DEFINE g == Append(fr, f)
<1>1. /\ \E Some : g \in Seq(Some)
      /\ Len(fr) \in Nat /\ Len(g) = Len(fr) + 1 /\ g[Len(fr) + 1] = f
      /\ \A k \in 1 .. Len(fr) : g[k] = fr[k]
      /\ \A k \in 1 .. Len(g) : k \in 1 .. Len(fr) \/ k = Len(fr) + 1
  BY PushedFrame
<1> HIDE DEF g
<1>2. \A k \in 1 .. Len(g) : g[k].kind = "onexit" => k \in 1 .. Len(fr) /\ g[k] = fr[k] BY <1>1
<1>3. FramesOK(g) BY <1>1, <1>2 DEF FramesOK
<1>4. ASSUME NEW t, NEW a, Alone(fr, t, a) PROVE Alone(g, t, a) BY <1>2, <1>4 DEF Alone
<1> QED BY <1>3, <1>4 DEF g

\* A frame goes.
LEMMA FrameGoes ==
  ASSUME NEW fr, FramesOK(fr), fr # <<>>
  PROVE  /\ FramesOK(M!Front(fr))
         /\ \A t, a : Alone(fr, t, a) => Alone(M!Front(fr), t, a)
<1> DEFINE g == M!Front(fr)
<1>1. (\E Some : g \in Seq(Some)) /\ \A k \in 1 .. Len(g) : k \in 1 .. Len(fr) /\ g[k] = fr[k] BY PoppedFrame
<1> HIDE DEF g
<1>2. FramesOK(g) BY <1>1 DEF FramesOK
<1>3. ASSUME NEW t, NEW a, Alone(fr, t, a) PROVE Alone(g, t, a) BY <1>1, <1>3 DEF Alone
<1> QED BY <1>2, <1>3 DEF g

\* No frames say nothing.
LEMMA NoFrames == FramesOK(<<>>) /\ \A t, a : Alone(<<>>, t, a)
BY DEF FramesOK, Alone

-----------------------------------------------------------------------------
(* The last entry. *)

\* A set of numbers up to n has a greatest one.
LEMMA GreatestOf ==
  ASSUME NEW n \in Nat, NEW Some, Some \subseteq 1 .. n, Some # {}
  PROVE  \E x \in Some : \A y \in Some : y <= x
<1> DEFINE T == {d \in 0 .. n : n - d \in Some}
<1>1. T \subseteq Nat OBVIOUS
<1>2. T # {}
  <2>1. PICK x \in Some : TRUE OBVIOUS
  <2>2. n - x \in 0 .. n /\ n - (n - x) = x BY <2>1
  <2> QED BY <2>2
<1>3. PICK d \in T : \A e \in T : d <= e BY <1>1, <1>2, LeastOf
<1>4. n - d \in Some /\ d \in 0 .. n BY <1>3
<1>5. ASSUME NEW y \in Some PROVE y <= n - d
  <2>1. n - y \in 0 .. n /\ n - (n - y) = y BY <1>5
  <2>2. d <= n - y BY <1>3, <2>1
  <2> QED BY <1>4, <1>5, <2>2
<1> QED BY <1>4, <1>5

\* LastEntry is the last full entry up to `last`, and 0 when all are empty.
LEMMA LastFullEntry ==
  ASSUME TableOK(tab, arrays, ran), tab.first # 0, NEW last \in Nat
  PROVE  LET i == M!LastEntry(tab.first, last)
         IN  /\ i = 0 \/ (i \in 1 .. last /\ arrays[tab.first][i] # 0)
             /\ \A j \in 1 .. last : j > i => arrays[tab.first][j] = 0
<1> DEFINE full == {i \in 1 .. last : tab.first # 0 /\ arrays[tab.first][i] # 0}
<1>1. M!LastEntry(tab.first, last) = IF full = {} THEN 0 ELSE CHOOSE i \in full : \A j \in full : j <= i
  BY DEF M!LastEntry
<1>2. CASE full = {} BY <1>1, <1>2
<1>3. CASE full # {}
  <2>1. \E i \in full : \A j \in full : j <= i BY <1>3, GreatestOf
  <2> DEFINE i == CHOOSE i \in full : \A j \in full : j <= i
  <2>2. i \in full /\ \A j \in full : j <= i BY <2>1
  <2>3. M!LastEntry(tab.first, last) = i BY <1>1, <1>3
  <2> HIDE DEF i
  <2>4. ASSUME NEW j \in 1 .. last, j > i PROVE arrays[tab.first][j] = 0
    <3>1. j \notin full BY <2>2, <2>4
    <3> QED BY <3>1
  <2> QED BY <2>2, <2>3, <2>4
<1> QED BY <1>2, <1>3

-----------------------------------------------------------------------------
(* The table. *)

\* The function of an entry is called once the entry is empty.
LEMMA EntryCalled ==
  ASSUME NEW t, NEW a, NEW r, TableOK(t, a, r), t.first # 0, NEW i \in 1 .. t.end, a[t.first][i] # 0
  PROVE  TableOK(t, [a EXCEPT ![t.first] = [@ EXCEPT ![i] = 0]], [r EXCEPT ![a[t.first][i]] = @ + 1])
<1> DEFINE e == a[t.first]
           f == e[i]
           b == [a EXCEPT ![t.first] = [@ EXCEPT ![i] = 0]]
           d == [e EXCEPT ![i] = 0]
           runs == [r EXCEPT ![f] = @ + 1]
<1>1. e \in [1 .. t.end -> 0 .. Len(r)] /\ f \in 1 .. Len(r) /\ r \in Seq({0, 1}) /\ Len(r) \in Nat BY DEF TableOK
<1>2. r[f] = 0 BY DEF TableOK
<1>3. runs \in Seq({0, 1}) /\ Len(runs) = Len(r) /\ \A k \in 1 .. Len(r) : k # f => runs[k] = r[k] BY <1>1, <1>2
<1>4. a = [x \in {t.first} |-> e] BY DEF TableOK
<1>5. b = [x \in {t.first} |-> d] BY <1>4
<1>6. b = [x \in {t.first} \ {0} |-> b[x]] /\ b[t.first] = d BY <1>5
<1>7. d \in [1 .. t.end -> 0 .. Len(runs)] BY <1>1, <1>3
<1>8. \A k \in 1 .. t.end : d[k] = IF k = i THEN 0 ELSE e[k] BY <1>1
<1>9. \A k \in 1 .. t.end : k > t.last => d[k] = 0 BY <1>8 DEF TableOK
<1>10. \A k, l \in 1 .. t.end : d[k] = d[l] /\ d[k] # 0 => k = l BY <1>8 DEF TableOK
<1>11. ASSUME NEW k \in 1 .. t.end, d[k] # 0 PROVE runs[d[k]] = 0
  <2>1. k # i /\ d[k] = e[k] BY <1>8, <1>11
  <2>2. e[k] # f /\ r[e[k]] = 0 /\ e[k] \in 1 .. Len(r) BY <1>1, <1>11, <2>1 DEF TableOK
  <2> QED BY <1>3, <2>1, <2>2
<1> HIDE DEF b, d, runs, e
<1>12. /\ t = [first |-> t.first, last |-> t.last, end |-> t.end]
       /\ t.first \in Nat /\ t.last \in Nat /\ t.end \in Nat /\ t.last <= t.end
  BY DEF TableOK
<1>13. TableOK(t, b, runs) BY <1>3, <1>6, <1>7, <1>9, <1>10, <1>11, <1>12 DEF TableOK
<1> QED BY <1>13 DEF b, runs, e

\* A registration goes behind the last entry of a table with room.
LEMMA EntryAdded ==
  ASSUME NEW t, NEW a, NEW r, TableOK(t, a, r), t.last < t.end
  PROVE  TableOK([t EXCEPT !.last = @ + 1],
                 [a EXCEPT ![t.first] = [@ EXCEPT ![t.last + 1] = Len(r) + 1]], Append(r, 0))
<1> DEFINE e == a[t.first]
           i == t.last + 1
           u == [t EXCEPT !.last = @ + 1]
           d == [e EXCEPT ![i] = Len(r) + 1]
           b == [a EXCEPT ![t.first] = [@ EXCEPT ![i] = Len(r) + 1]]
           runs == Append(r, 0)
<1>1. t.first # 0 /\ t.first \in Nat /\ t.last \in Nat /\ t.end \in Nat /\ i \in 1 .. t.end BY DEF TableOK
<1>2. u = [first |-> t.first, last |-> i, end |-> t.end] BY DEF TableOK
<1>3. /\ e \in [1 .. t.end -> 0 .. Len(r)] /\ r \in Seq({0, 1}) /\ Len(r) \in Nat
      /\ \A k \in 1 .. t.end : k > t.last => e[k] = 0
      /\ \A k, l \in 1 .. t.end : e[k] = e[l] /\ e[k] # 0 => k = l
      /\ \A k \in 1 .. t.end : e[k] # 0 => r[e[k]] = 0
  BY <1>1 DEF TableOK
<1>4. /\ runs \in Seq({0, 1}) /\ Len(runs) = Len(r) + 1 /\ runs[Len(r) + 1] = 0
      /\ \A k \in 1 .. Len(r) : runs[k] = r[k]
  BY <1>3
<1>5. a = [x \in {t.first} |-> e] BY <1>1 DEF TableOK
<1>6. b = [x \in {t.first} |-> d] BY <1>5
<1>7. b = [x \in {t.first} \ {0} |-> b[x]] /\ b[t.first] = d BY <1>1, <1>6
<1>9. \A k \in 1 .. t.end : d[k] = IF k = i THEN Len(r) + 1 ELSE e[k] BY <1>3
<1>8. d \in [1 .. t.end -> 0 .. Len(runs)]
  <2>1. \A k \in 1 .. t.end : e[k] \in 0 .. Len(r) BY <1>3
  <2>2. \A k \in 1 .. t.end : d[k] \in 0 .. Len(runs) BY <1>3, <1>4, <1>9, <2>1
  <2>3. d = [k \in 1 .. t.end |-> d[k]] BY <1>3
  <2> HIDE DEF d
  <2> QED BY <2>2, <2>3
<1>10. \A k \in 1 .. t.end : k > i => d[k] = 0 BY <1>1, <1>3, <1>9
<1>11. \A k \in 1 .. t.end : e[k] \in 0 .. Len(r) BY <1>3
<1>12. \A k, l \in 1 .. t.end : d[k] = d[l] /\ d[k] # 0 => k = l
  <2>1. TAKE k, l \in 1 .. t.end
  <2>2. e[k] # Len(r) + 1 /\ e[l] # Len(r) + 1 BY <1>3, <1>11
  <2> QED BY <1>3, <1>9, <2>2
<1>13. ASSUME NEW k \in 1 .. t.end, d[k] # 0 PROVE runs[d[k]] = 0
  <2>1. CASE k = i BY <1>4, <1>9, <2>1
  <2>2. CASE k # i
    <3>1. d[k] = e[k] /\ e[k] \in 1 .. Len(r) /\ r[e[k]] = 0 BY <1>3, <1>9, <1>11, <1>13, <2>2
    <3> QED BY <1>4, <3>1
  <2> QED BY <2>1, <2>2
<1> HIDE DEF b, d, runs, e
<1>14. u.first = t.first /\ u.last = i /\ u.end = t.end BY <1>2
<1>15. u = [first |-> u.first, last |-> u.last, end |-> u.end] BY <1>2
<1> HIDE DEF u
<1>16. TableOK(u, b, runs) BY <1>1, <1>4, <1>7, <1>8, <1>10, <1>12, <1>13, <1>14, <1>15 DEF TableOK
<1> QED BY <1>16 DEF u, b, runs

\* The entries old of the table t move to the address x, with the next registration, and b is the heap then.
Moved(t, a, r, x, room, old, new, b) ==
  /\ TableOK(t, a, r) /\ t.last = t.end /\ x \in Nat \ {0} /\ room \in Nat /\ room > t.last
  /\ old = (IF t.first = 0 THEN <<>> ELSE a[t.first])
  /\ new = [i \in 1 .. room |-> IF i <= t.last THEN old[i] ELSE IF i = t.last + 1 THEN Len(r) + 1 ELSE 0]
  /\ b = [y \in (DOMAIN a \ {t.first}) \cup {x} |-> IF y = x THEN new ELSE a[y]]

\* A full table moves, and the registration goes behind its last entry.
LEMMA TableMoves ==
  ASSUME NEW t, NEW a, NEW r, NEW x, NEW room, NEW old, NEW new, NEW b, Moved(t, a, r, x, room, old, new, b)
  PROVE  TableOK([first |-> x, last |-> t.last + 1, end |-> room], b, Append(r, 0))
<1> USE DEF Moved
<1> DEFINE u == [first |-> x, last |-> t.last + 1, end |-> room]
           runs == Append(r, 0)
<1>1. t.last \in Nat /\ t.end \in Nat /\ r \in Seq({0, 1}) /\ Len(r) \in Nat BY DEF TableOK
<1>2. (DOMAIN a \ {t.first}) \cup {x} = {x} BY DEF TableOK
<1>3. b = [y \in {x} |-> new] BY <1>2
<1>4. b = [y \in {x} \ {0} |-> b[y]] /\ b[x] = new
  <2>1. {x} \ {0} = {x} OBVIOUS
  <2>2. b[x] = new BY <1>3
  <2>3. b = [y \in {x} |-> b[y]] BY <1>3, <2>2
  <2> QED BY <2>1, <2>2, <2>3
<1>5. /\ runs \in Seq({0, 1}) /\ Len(runs) = Len(r) + 1 /\ runs[Len(r) + 1] = 0
      /\ \A k \in 1 .. Len(r) : runs[k] = r[k]
  BY <1>1
<1>6. /\ \A k \in 1 .. t.last : old[k] \in 0 .. Len(r)
      /\ \A k, l \in 1 .. t.last : old[k] = old[l] /\ old[k] # 0 => k = l
      /\ \A k \in 1 .. t.last : old[k] # 0 => r[old[k]] = 0
  <2>1. CASE t.first = 0 BY <2>1 DEF TableOK
  <2>2. CASE t.first # 0
    <3>1. /\ a[t.first] \in [1 .. t.last -> 0 .. Len(r)]
          /\ \A k, l \in 1 .. t.last : a[t.first][k] = a[t.first][l] /\ a[t.first][k] # 0 => k = l
          /\ \A k \in 1 .. t.last : a[t.first][k] # 0 => r[a[t.first][k]] = 0
      BY <2>2 DEF TableOK
    <3>2. old = a[t.first] BY <2>2
    <3> QED BY <3>1, <3>2
  <2> QED BY <2>1, <2>2
<1>7. \A k \in 1 .. room : new[k] = IF k <= t.last THEN old[k] ELSE IF k = t.last + 1 THEN Len(r) + 1 ELSE 0 OBVIOUS
<1>8. \A k \in 1 .. room : new[k] \in 0 .. Len(runs) BY <1>1, <1>5, <1>6, <1>7
<1>9. new \in [1 .. room -> 0 .. Len(runs)] BY <1>8
<1>10. \A k \in 1 .. room : k > t.last + 1 => new[k] = 0 BY <1>1, <1>7
<1>11. \A k, l \in 1 .. room : new[k] = new[l] /\ new[k] # 0 => k = l
  <2>1. TAKE k, l \in 1 .. room
  <2>2. k <= t.last => k \in 1 .. t.last /\ old[k] # Len(r) + 1 BY <1>1, <1>6
  <2>3. l <= t.last => l \in 1 .. t.last /\ old[l] # Len(r) + 1 BY <1>1, <1>6
  <2> QED BY <1>1, <1>6, <1>7, <2>2, <2>3
<1>12. ASSUME NEW k \in 1 .. room, new[k] # 0 PROVE runs[new[k]] = 0
  <2>1. CASE k <= t.last
    <3>1. k \in 1 .. t.last /\ new[k] = old[k] BY <1>1, <1>7, <2>1
    <3>2. old[k] \in 1 .. Len(r) /\ r[old[k]] = 0 BY <1>6, <1>12, <3>1
    <3> QED BY <1>5, <3>1, <3>2
  <2>2. CASE ~(k <= t.last) BY <1>5, <1>7, <1>12, <2>2
  <2> QED BY <2>1, <2>2
<1> HIDE DEF runs
<1>13. u.first = x /\ u.last = t.last + 1 /\ u.end = room /\ u = [first |-> u.first, last |-> u.last, end |-> u.end] OBVIOUS
<1> HIDE DEF u
<1>14. room \in Nat /\ x \in Nat \ {0} /\ room > t.last OBVIOUS
<1> HIDE DEF Moved
<1>15. TableOK(u, b, runs) BY <1>1, <1>4, <1>5, <1>9, <1>10, <1>11, <1>12, <1>13, <1>14 DEF TableOK
<1> QED BY <1>15 DEF u, runs

\* A table is freed.
LEMMA TableGoes ==
  ASSUME NEW t, NEW a, NEW r, TableOK(t, a, r)
  PROVE  TableOK(M!NoTable, M!Restrict(a, DOMAIN a \ {t.first}), r)
<1> DEFINE b == M!Restrict(a, DOMAIN a \ {t.first})
<1>1. DOMAIN a \ {t.first} = {} BY DEF TableOK
<1>2. b = [x \in {} |-> a[x]] BY <1>1 DEF M!Restrict
<1>3. b = [x \in {0} \ {0} |-> b[x]] BY <1>2
<1>4. r \in Seq({0, 1}) BY DEF TableOK
<1> QED BY <1>3, <1>4 DEF TableOK, M!NoTable

-----------------------------------------------------------------------------
(* The handlers of exit functions. *)

\* The frames below the frame of a run.
Below(fr) == IF fr.new THEN crt_frames ELSE M!Front(crt_frames)

\* A run of the table with the frame fr, that goes on top of the frames Below(fr).
RunOf(fr, h) ==
  /\ fr = [kind |-> "onexit", first |-> tab.first, last |-> fr.last, saved |-> <<tab.first, tab.last>>, new |-> fr.new]
  /\ fr.new \in BOOLEAN /\ fr.last \in Nat /\ fr.last <= tab.last
  /\ ~fr.new => crt_frames # <<>>
  /\ HistOK(h) /\ (crt_hist.nested => h.nested) /\ h.lost = crt_hist.lost
  /\ ~h.nested => /\ tab.first # 0 => \A i \in 1 .. tab.end : i > fr.last => arrays[tab.first][i] = 0
                  /\ \A k \in 1 .. Len(Below(fr)) : Below(fr)[k].kind # "onexit"

\* They are frames.
LEMMA TheFramesBelow ==
  ASSUME ExitInv, NEW fr, fr.new \in BOOLEAN, ~fr.new => crt_frames # <<>>
  PROVE  FramesOK(Below(fr))
BY FrameGoes DEF ExitInv, Below

\* One field of the history changes.
LEMMA HistAfter ==
  ASSUME NEW nested, NEW fault, NEW lost, NEW installs, NEW handled, NEW x
  PROVE  LET h == [nested |-> nested, fault |-> fault, lost |-> lost, installs |-> installs, handled |-> handled]
         IN  /\ [h EXCEPT !.lost = x] = [nested |-> nested, fault |-> fault, lost |-> x, installs |-> installs, handled |-> handled]
             /\ [h EXCEPT !.nested = x] = [nested |-> x, fault |-> fault, lost |-> lost, installs |-> installs, handled |-> handled]
             /\ [h EXCEPT !.installs = x] = [nested |-> nested, fault |-> fault, lost |-> lost, installs |-> x, handled |-> handled]
             /\ [h EXCEPT !.handled = x] = [nested |-> nested, fault |-> fault, lost |-> lost, installs |-> installs, handled |-> x]
<1> DEFINE h == [nested |-> nested, fault |-> fault, lost |-> lost, installs |-> installs, handled |-> handled]
<1>1. [h EXCEPT !.lost = x] = [nested |-> nested, fault |-> fault, lost |-> x, installs |-> installs, handled |-> handled]
  OBVIOUS
<1>2. [h EXCEPT !.nested = x] = [nested |-> x, fault |-> fault, lost |-> lost, installs |-> installs, handled |-> handled]
  OBVIOUS
<1>3. [h EXCEPT !.installs = x] = [nested |-> nested, fault |-> fault, lost |-> lost, installs |-> x, handled |-> handled]
  OBVIOUS
<1>4. [h EXCEPT !.handled = x] = [nested |-> nested, fault |-> fault, lost |-> lost, installs |-> installs, handled |-> x]
  OBVIOUS
<1> HIDE DEF h
<1> QED BY <1>1, <1>2, <1>3, <1>4 DEF h

\* The call of an exit function keeps the invariant: its entry was the last full one, and is empty now.
LEMMA CallKeeps ==
  ASSUME ExitInv, NEW fr, NEW h, RunOf(fr, h), tab.first # 0, NEW i \in 1 .. fr.last, arrays[tab.first][i] # 0,
         \A j \in 1 .. fr.last : j > i => arrays[tab.first][j] = 0,
         M!CallFunction(fr, i, FALSE, h)
  PROVE  ExitInv'
<1> DEFINE f == [fr EXCEPT !.last = i - 1, !.new = FALSE]
           g == Append(Below(fr), f)
<1>1. TableOK(tab, arrays, ran) BY DEF ExitInv
<1>2. /\ tab.first \in Nat /\ tab.last \in Nat /\ tab.end \in Nat /\ tab.last <= tab.end
      /\ fr.first = tab.first /\ fr.last \in Nat /\ fr.last <= tab.last /\ i \in 1 .. tab.end
      /\ arrays = [x \in {tab.first} |-> arrays[x]]
      /\ arrays[tab.first] \in [1 .. tab.end -> 0 .. Len(ran)]
  BY <1>1 DEF RunOf, TableOK
<1>3. /\ arrays' = [arrays EXCEPT ![tab.first] = [@ EXCEPT ![i] = 0]]
      /\ ran' = [ran EXCEPT ![arrays[tab.first][i]] = @ + 1]
      /\ tab' = tab /\ crt_hist' = h
  BY <1>2 DEF M!CallFunction
<1>4. crt_frames' = g BY DEF M!CallFunction, Below
<1>5. TableOK(tab', arrays', ran')
  <2>1. TableOK(tab, [arrays EXCEPT ![tab.first] = [@ EXCEPT ![i] = 0]], [ran EXCEPT ![arrays[tab.first][i]] = @ + 1])
    BY <1>1, <1>2, EntryCalled
  <2> QED BY <1>3, <2>1
<1>6. f = [kind |-> "onexit", first |-> tab.first, last |-> i - 1, saved |-> <<tab.first, tab.last>>, new |-> FALSE]
  <2> DEFINE last == fr.last
             new == fr.new
  <2>1. fr = [kind |-> "onexit", first |-> tab.first, last |-> last, saved |-> <<tab.first, tab.last>>, new |-> new] BY DEF RunOf
  <2> HIDE DEF last, new
  <2> DEFINE Made(l, n) == [kind |-> "onexit", first |-> tab.first, last |-> l, saved |-> <<tab.first, tab.last>>, new |-> n]
  <2>2. ASSUME NEW n PROVE [fr EXCEPT !.last = i - 1, !.new = n] = Made(i - 1, n)
    <3>1. [Made(last, new) EXCEPT !.last = i - 1, !.new = n] = [[Made(last, new) EXCEPT !.last = i - 1] EXCEPT !.new = n] OBVIOUS
    <3>2. [Made(last, new) EXCEPT !.last = i - 1] = Made(i - 1, new) OBVIOUS
    <3>3. [Made(i - 1, new) EXCEPT !.new = n] = Made(i - 1, n) OBVIOUS
    <3> QED BY <2>1, <3>1, <3>2, <3>3, Zenon
  <2> QED BY <2>2, Zenon
<1>7. f.kind = "onexit" /\ f.first = tab.first /\ f.last = i - 1 /\ f.saved = <<tab.first, tab.last>> /\ f.saved[2] = tab.last
  <2> HIDE DEF f
  <2>1. f.kind = "onexit" /\ f.first = tab.first /\ f.last = i - 1 /\ f.saved = <<tab.first, tab.last>> BY <1>6
  <2> QED BY <2>1
<1>8. f = [kind |-> "onexit", first |-> f.first, last |-> f.last, saved |-> <<f.first, f.saved[2]>>, new |-> FALSE]
  BY <1>6, <1>7
<1> HIDE DEF f
<1>9. ExitFrame(f) BY <1>2, <1>7, <1>8 DEF ExitFrame
<1>10. FramesOK(Below(fr)) BY TheFramesBelow DEF RunOf
<1>11. /\ \E Some : g \in Seq(Some)
       /\ Len(Below(fr)) \in Nat /\ Len(g) = Len(Below(fr)) + 1 /\ g[Len(Below(fr)) + 1] = f
       /\ \A k \in 1 .. Len(Below(fr)) : g[k] = Below(fr)[k]
       /\ \A k \in 1 .. Len(g) : k \in 1 .. Len(Below(fr)) \/ k = Len(Below(fr)) + 1
  BY <1>10, PushedFrame
<1> HIDE DEF g
<1>12. FramesOK(g) BY <1>9, <1>10, <1>11 DEF FramesOK
<1>13. ASSUME ~h.nested PROVE Alone(g, tab, arrays') /\ h.lost = {}
  <2>1. h.lost = {} BY <1>13 DEF ExitInv, RunOf
  <2>2. \A k \in 1 .. Len(g) : g[k].kind = "onexit" => k = Len(Below(fr)) + 1 /\ g[k] = f BY <1>11, <1>13 DEF RunOf
  <2>3. \A j \in 1 .. tab.end : arrays'[tab.first][j] = IF j = i THEN 0 ELSE arrays[tab.first][j] BY <1>2, <1>3
  <2>4. ASSUME NEW j \in 1 .. tab.end, j > i - 1 PROVE arrays'[tab.first][j] = 0
    <3>1. CASE j = i BY <2>3, <3>1
    <3>2. CASE j > i /\ j <= fr.last BY <1>2, <2>3, <3>2
    <3>3. CASE j > fr.last BY <1>2, <1>13, <2>3, <3>3 DEF RunOf
    <3> QED BY <1>2, <2>4, <3>1, <3>2, <3>3
  <2>5. Follows(f, tab, arrays') BY <1>2, <1>7, <2>4 DEF Follows
  <2> QED BY <2>1, <2>2, <2>5 DEF Alone
<1>14. HistOK(h) BY DEF RunOf
<1> QED BY <1>3, <1>4, <1>5, <1>12, <1>13, <1>14 DEF ExitInv

\* The end of a run keeps the invariant: without nesting, no entry of the freed table is full.
LEMMA EndKeeps ==
  ASSUME ExitInv, NEW fr, NEW h, RunOf(fr, h),
         tab.first # 0 => \A j \in 1 .. fr.last : arrays[tab.first][j] = 0,
         M!EndTable(fr, h)
  PROVE  ExitInv'
<1>1. TableOK(tab, arrays, ran) BY DEF ExitInv
<1>2. fr.first = tab.first BY DEF RunOf
<1>3. TableOK(tab', arrays', ran') BY <1>1, <1>2, TableGoes DEF M!EndTable
<1>4. crt_frames' = Below(fr) BY DEF M!EndTable, Below
<1>5. FramesOK(crt_frames') BY <1>4, TheFramesBelow DEF RunOf
<1> DEFINE gone == IF fr.first = 0 THEN {} ELSE M!Range(arrays[fr.first]) \ {0}
<1>6. crt_hist' = [h EXCEPT !.lost = @ \cup gone] BY DEF M!EndTable
<1> HIDE DEF gone
<1>7. HistOK(h) BY DEF RunOf
<1>8. crt_hist' = [nested |-> h.nested, fault |-> h.fault, lost |-> h.lost \cup gone, installs |-> h.installs, handled |-> h.handled]
  <2> DEFINE n == h.nested
             l == h.lost
             p == h.installs
             c == h.handled
             t == h.fault
  <2>1. h = [nested |-> n, fault |-> t, lost |-> l, installs |-> p, handled |-> c] BY <1>7 DEF HistOK
  <2> HIDE DEF n, l, p, c, t
  <2>2. crt_hist' = [nested |-> n, fault |-> h.fault, lost |-> h.lost \cup gone, installs |-> p, handled |-> c]
    BY <1>6, <2>1, HistAfter
  <2> QED BY <2>2 DEF n, p, c, t
<1>9. HistOK(crt_hist') /\ crt_hist'.nested = h.nested /\ crt_hist'.lost = h.lost \cup gone BY <1>7, <1>8 DEF HistOK
<1>10. ASSUME ~h.nested PROVE Alone(crt_frames', tab', arrays') /\ h.lost \cup gone = {}
  <2>1. h.lost = {} BY <1>10 DEF ExitInv, RunOf
  <2>2. Alone(crt_frames', tab', arrays') BY <1>4, <1>10 DEF Alone, RunOf
  <2>3. CASE tab.first = 0 BY <1>2, <2>1, <2>2, <2>3 DEF gone
  <2>4. CASE tab.first # 0
    <3>1. DOMAIN arrays[tab.first] = 1 .. tab.end /\ tab.end \in Nat BY <1>1, <2>4 DEF TableOK
    <3>2. \A j \in 1 .. tab.end : arrays[tab.first][j] = 0 BY <1>10, <2>4, <3>1 DEF RunOf
    <3>3. gone = {} BY <1>2, <2>4, <3>1, <3>2 DEF gone, M!Range
    <3> QED BY <2>1, <2>2, <3>3
  <2> QED BY <2>3, <2>4
<1> QED BY <1>3, <1>5, <1>9, <1>10 DEF ExitInv

\* A run of the table, from a new frame or from one that goes on, keeps the invariant.
LEMMA RunKeeps ==
  ASSUME ExitInv, NEW fr, NEW h, RunOf(fr, h), M!call_onexit_functions(fr, h)
  PROVE  ExitInv'
<1> DEFINE i == M!LastEntry(tab.first, fr.last)
<1>1. TableOK(tab, arrays, ran) /\ fr.first = tab.first /\ fr.last \in Nat BY DEF ExitInv, RunOf
<1>2. ~(tab.first # 0 /\ tab.first \notin DOMAIN arrays) BY <1>1 DEF TableOK
<1>3. IF i = 0 THEN M!EndTable(fr, h) ELSE M!CallFunction(fr, i, FALSE, h)
  BY <1>1, <1>2 DEF M!call_onexit_functions, M!RunTable
<1>4. CASE tab.first = 0
  <2>1. i = 0 BY <1>4 DEF M!LastEntry
  <2> HIDE DEF i
  <2> QED BY <1>3, <1>4, <2>1, EndKeeps
<1>5. CASE tab.first # 0
  <2>1. /\ i = 0 \/ (i \in 1 .. fr.last /\ arrays[tab.first][i] # 0)
        /\ \A j \in 1 .. fr.last : j > i => arrays[tab.first][j] = 0
    BY <1>1, <1>5, LastFullEntry
  <2> HIDE DEF i
  <2>2. CASE i = 0
    <3>1. \A j \in 1 .. fr.last : arrays[tab.first][j] = 0 BY <1>1, <2>1, <2>2
    <3> QED BY <1>3, <2>2, <3>1, EndKeeps
  <2>3. CASE i # 0 BY <1>3, <1>5, <2>1, <2>3, CallKeeps
  <2> QED BY <2>2, <2>3
<1> QED BY <1>4, <1>5

\* A step that leaves the table alone keeps the invariant when the frames say no more of it.
LEMMA ExitStaysSame ==
  ASSUME ExitInv, UNCHANGED <<tab, arrays, ran>>,
         HistOK(crt_hist'), crt_hist'.nested = crt_hist.nested, crt_hist'.lost = crt_hist.lost,
         FramesOK(crt_frames'), \A t, a : Alone(crt_frames, t, a) => Alone(crt_frames', t, a)
  PROVE  ExitInv'
BY DEF ExitInv

\* The invariant holds at the start.
LEMMA InitExit == M!Init => ExitInv
<1> SUFFICES ASSUME M!Init PROVE ExitInv OBVIOUS
<1>1. /\ tab = [first |-> 0, last |-> 0, end |-> 0] /\ arrays = <<>> /\ crt_frames = <<>> /\ ran = <<>>
      /\ crt_hist = [nested |-> FALSE, fault |-> FALSE, lost |-> {}, installs |-> 0, handled |-> 0]
  BY DEF M!Init, M!NoTable
<1>2. tab.first = 0 /\ tab.last = 0 /\ tab.end = 0 /\ tab = [first |-> tab.first, last |-> tab.last, end |-> tab.end] BY <1>1
<1>3. arrays = [x \in {tab.first} \ {0} |-> arrays[x]] BY <1>1, <1>2
<1>4. ran \in Seq({0, 1}) BY <1>1
<1>5. TableOK(tab, arrays, ran) BY <1>2, <1>3, <1>4 DEF TableOK
<1>6. crt_hist.nested = FALSE /\ crt_hist.lost = {} /\ crt_hist.installs = 0 /\ crt_hist.handled = 0 BY <1>1
<1>7. HistOK(crt_hist) BY <1>1, <1>6 DEF HistOK
<1> QED BY <1>1, <1>5, <1>6, <1>7, NoFrames DEF ExitInv

\* A table is initialized when there is none.
LEMMA InitializeKeeps ==
  ASSUME ExitInv, NEW null, M!_initialize_onexit_table(null)
  PROVE  ExitInv'
<1>1. tab' = tab
  <2>1. tab' = IF ~null /\ tab.first = 0 THEN M!NoTable ELSE tab BY DEF M!_initialize_onexit_table
  <2>2. tab.first = 0 => tab = M!NoTable BY DEF ExitInv, TableOK, M!NoTable
  <2> QED BY <2>1, <2>2
<1> QED BY <1>1, ExitStaysSame DEF ExitInv, M!_initialize_onexit_table

\* A registration keeps the invariant: a frame that runs the table sees that it changed.
LEMMA RegisterKeeps ==
  ASSUME ExitInv, NEW null \in BOOLEAN, M!_register_onexit_function(null)
  PROVE  ExitInv'
<1>1. UNCHANGED <<crt_frames, crt_hist>> BY DEF M!_register_onexit_function
<1>2. CASE null BY <1>1, <1>2, ExitStaysSame DEF ExitInv, M!_register_onexit_function
<1>3. CASE ~null
  <2> DEFINE f == Len(ran) + 1
             room == IF 2 * tab.last > FirstRoom THEN 2 * tab.last ELSE FirstRoom
             x == CHOOSE c \in M!FreeAddresses : \A y \in M!FreeAddresses : c <= y
             old == IF tab.first = 0 THEN <<>> ELSE arrays[tab.first]
             new == [i \in 1 .. room |-> IF i <= tab.last THEN old[i] ELSE IF i = tab.last + 1 THEN f ELSE 0]
  <2>1. /\ ran' = Append(ran, 0)
        /\ \/ /\ tab.last < tab.end
              /\ arrays' = [arrays EXCEPT ![tab.first] = [@ EXCEPT ![tab.last + 1] = f]]
              /\ tab' = [tab EXCEPT !.last = @ + 1]
           \/ /\ tab.last = tab.end
              /\ M!FreeAddresses # {}
              /\ arrays' = [y \in (DOMAIN arrays \ {tab.first}) \cup {x} |-> IF y = x THEN new ELSE arrays[y]]
              /\ tab' = [first |-> x, last |-> tab.last + 1, end |-> room]
    BY <1>3 DEF M!_register_onexit_function
  <2> HIDE DEF f, room, x, old, new
  <2>2. TableOK(tab, arrays, ran) BY DEF ExitInv
  <2>3. tab.first \in Nat /\ tab.last \in Nat /\ tab.end \in Nat /\ tab.last <= tab.end BY <2>2 DEF TableOK
  <2>4. TableOK(tab', arrays', ran') /\ tab'.last = tab.last + 1 /\ tab'.first # 0
    <3>1. CASE tab.last < tab.end
      <4>1. /\ arrays' = [arrays EXCEPT ![tab.first] = [@ EXCEPT ![tab.last + 1] = f]]
            /\ tab' = [tab EXCEPT !.last = @ + 1]
        BY <2>1, <2>3, <3>1
      <4>2. TableOK(tab', arrays', ran') BY <2>1, <2>2, <3>1, <4>1, EntryAdded DEF f
      <4>3. tab = [first |-> tab.first, last |-> tab.last, end |-> tab.end] /\ tab.first # 0 BY <2>2, <3>1 DEF TableOK
      <4>4. tab'.last = tab.last + 1 /\ tab'.first = tab.first BY <4>1, <4>3
      <4> QED BY <4>2, <4>3, <4>4
    <3>2. CASE ~(tab.last < tab.end)
      <4>1. /\ tab.last = tab.end /\ M!FreeAddresses # {}
            /\ arrays' = [y \in (DOMAIN arrays \ {tab.first}) \cup {x} |-> IF y = x THEN new ELSE arrays[y]]
            /\ tab' = [first |-> x, last |-> tab.last + 1, end |-> room]
        BY <2>1, <2>3, <3>2
      <4>2. M!FreeAddresses \subseteq Nat \ {0} BY CrtAssumption DEF M!FreeAddresses
      <4>3. \E c \in M!FreeAddresses : \A y \in M!FreeAddresses : c <= y BY <4>1, <4>2, LeastOf
      <4>4. x \in Nat \ {0} BY <4>2, <4>3 DEF x
      <4>5. room \in Nat /\ room > tab.last BY <2>3, CrtAssumption DEF room
      <4>6. TableOK([first |-> x, last |-> tab.last + 1, end |-> room],
                    [y \in (DOMAIN arrays \ {tab.first}) \cup {x} |-> IF y = x THEN new ELSE arrays[y]], Append(ran, 0))
        <5>1. old = (IF tab.first = 0 THEN <<>> ELSE arrays[tab.first]) BY Zenon DEF old
        <5>2. new = [i \in 1 .. room |-> IF i <= tab.last THEN old[i] ELSE IF i = tab.last + 1 THEN Len(ran) + 1 ELSE 0]
          BY Zenon DEF new, f
        <5>3. TableOK([first |-> x, last |-> tab.last + 1, end |-> room], arrays', Append(ran, 0))
          <6>1. tab.last = tab.end BY <4>1
          <6>2. arrays' = [y \in (DOMAIN arrays \ {tab.first}) \cup {x} |-> IF y = x THEN new ELSE arrays[y]] BY <4>1
          <6>3. Moved(tab, arrays, ran, x, room, old, new, arrays') BY <2>2, <4>4, <4>5, <5>1, <5>2, <6>1, <6>2, Zenon DEF Moved
          <6> QED BY <6>3, TableMoves
        <5> QED BY <4>1, <5>3
      <4> QED BY <2>1, <4>1, <4>4, <4>6
    <3> QED BY <3>1, <3>2
  <2>5. FramesOK(crt_frames) BY DEF ExitInv
  <2>6. ASSUME Alone(crt_frames, tab, arrays) PROVE Alone(crt_frames, tab', arrays')
    <3>1. ASSUME NEW k \in 1 .. Len(crt_frames), crt_frames[k].kind = "onexit"
          PROVE  Follows(crt_frames[k], tab', arrays')
      <4> DEFINE g == crt_frames[k]
      <4>1. ExitFrame(g) /\ Follows(g, tab, arrays) BY <2>5, <2>6, <3>1 DEF FramesOK, Alone
      <4> HIDE DEF g
      <4>2. g.saved[2] \in Nat /\ g.saved[2] <= tab.last BY <4>1 DEF ExitFrame, Follows
      <4>3. g.saved # <<tab'.first, tab'.last>>
        <5>1. <<tab'.first, tab'.last>>[2] = tab.last + 1 BY <2>4
        <5> QED BY <2>3, <4>2, <5>1
      <4>4. g.saved[2] <= tab'.last BY <2>3, <2>4, <4>2
      <4>5. Follows(g, tab', arrays') BY <2>4, <4>3, <4>4 DEF Follows
      <4> QED BY <4>5 DEF g
    <3> QED BY <2>6, <3>1 DEF Alone
  <2> QED BY <1>1, <2>4, <2>6 DEF ExitInv
<1> QED BY <1>2, <1>3

\* A run starts with a new frame, and nests when a frame runs the table already.
LEMMA ExecuteKeeps ==
  ASSUME ExitInv, NEW null \in BOOLEAN, M!_execute_onexit_table(null)
  PROVE  ExitInv'
<1>1. CASE null \/ tab.first = 0
  BY <1>1, ExitStaysSame DEF ExitInv, M!_execute_onexit_table
<1>2. CASE ~(null \/ tab.first = 0)
  <2> DEFINE fr == M!Frame(tab.first, tab.last, TRUE)
             n == crt_hist.nested \/ M!Running
             h == [crt_hist EXCEPT !.nested = n]
  <2>1. M!call_onexit_functions(fr, h) BY <1>2 DEF M!_execute_onexit_table
  <2>2. TableOK(tab, arrays, ran) /\ FramesOK(crt_frames) /\ HistOK(crt_hist) BY DEF ExitInv
  <2>3. /\ fr = [kind |-> "onexit", first |-> tab.first, last |-> fr.last, saved |-> <<tab.first, tab.last>>, new |-> fr.new]
        /\ fr.new = TRUE /\ fr.last = tab.last
    BY DEF M!Frame
  <2>4. n \in BOOLEAN /\ (n <=> crt_hist.nested \/ M!Running) BY <2>2, Zenon DEF HistOK
  <2> HIDE DEF n
  <2>5. h = [nested |-> n, fault |-> crt_hist.fault, lost |-> crt_hist.lost, installs |-> crt_hist.installs, handled |-> crt_hist.handled]
    <3> DEFINE c == crt_hist.nested
               l == crt_hist.lost
               p == crt_hist.installs
               d == crt_hist.handled
               t == crt_hist.fault
    <3>1. crt_hist = [nested |-> c, fault |-> t, lost |-> l, installs |-> p, handled |-> d] BY <2>2 DEF HistOK
    <3> HIDE DEF c, l, p, d, t
    <3>2. \A y : [crt_hist EXCEPT !.nested = y] = [nested |-> y, fault |-> t, lost |-> l, installs |-> p, handled |-> d]
      <4> TAKE y
      <4>1. [[nested |-> c, fault |-> t, lost |-> l, installs |-> p, handled |-> d] EXCEPT !.nested = y]
              = [nested |-> y, fault |-> t, lost |-> l, installs |-> p, handled |-> d]
        BY HistAfter
      <4> QED BY <3>1, <4>1, Zenon
    <3>3. h = [nested |-> n, fault |-> t, lost |-> l, installs |-> p, handled |-> d] BY <3>2, Zenon
    <3> QED BY <3>3 DEF l, p, d, t
  <2>6. HistOK(h) /\ h.nested = n /\ h.lost = crt_hist.lost
    <3> HIDE DEF h
    <3>1. /\ h.nested = n /\ h.fault = crt_hist.fault /\ h.lost = crt_hist.lost
          /\ h.installs = crt_hist.installs /\ h.handled = crt_hist.handled
      BY <2>5
    <3>2. h = [nested |-> h.nested, fault |-> h.fault, lost |-> h.lost, installs |-> h.installs, handled |-> h.handled]
      BY <2>5, <3>1, Zenon
    <3> QED BY <2>2, <2>4, <3>1, <3>2, Zenon DEF HistOK
  <2> HIDE DEF fr, h
  <2>7. Below(fr) = crt_frames BY <2>3 DEF Below
  <2>8. ASSUME ~n
        PROVE  /\ \A i \in 1 .. tab.end : i > fr.last => arrays[tab.first][i] = 0
               /\ \A k \in 1 .. Len(crt_frames) : crt_frames[k].kind # "onexit"
    <3>1. \A k \in DOMAIN crt_frames : crt_frames[k].kind # "onexit" BY <2>4, <2>8 DEF M!Running
    <3>2. PICK Some : crt_frames \in Seq(Some) BY <2>2 DEF FramesOK
    <3>3. DOMAIN crt_frames = 1 .. Len(crt_frames) BY <3>2
    <3>4. \A i \in 1 .. tab.end : i > fr.last => arrays[tab.first][i] = 0 BY <1>2, <2>2, <2>3 DEF TableOK
    <3> QED BY <3>1, <3>3, <3>4
  <2>9. fr.last \in Nat /\ fr.last <= tab.last BY <2>2, <2>3 DEF TableOK
  <2>10. RunOf(fr, h)
    <3>1. crt_hist.nested => h.nested BY <2>4, <2>6
    <3>2. fr.new \in BOOLEAN /\ (~fr.new => crt_frames # <<>>) BY <2>3
    <3> QED BY <2>3, <2>6, <2>7, <2>8, <2>9, <3>1, <3>2 DEF RunOf
  <2> QED BY <2>1, <2>10, RunKeeps
<1> QED BY <1>1, <1>2

\* The top frame goes on where it was, and from the new end when the table changed.
LEMMA ReturnKeeps ==
  ASSUME ExitInv, M!OnExitReturns
  PROVE  ExitInv'
<1> DEFINE top == M!Last(crt_frames)
           now == <<tab.first, tab.last>>
           fr == IF now = top.saved THEN top ELSE M!Frame(tab.first, tab.last, FALSE)
<1>1. crt_frames # <<>> /\ top.kind = "onexit" /\ M!call_onexit_functions(fr, crt_hist)
  BY DEF M!OnExitReturns, M!Waiting, M!Top
<1>2. TableOK(tab, arrays, ran) /\ FramesOK(crt_frames) /\ HistOK(crt_hist) BY DEF ExitInv
<1>3. /\ top = crt_frames[Len(crt_frames)] /\ Len(crt_frames) \in 1 .. Len(crt_frames)
      /\ \A k \in 1 .. Len(M!Front(crt_frames)) :
           k \in 1 .. Len(crt_frames) /\ k # Len(crt_frames) /\ M!Front(crt_frames)[k] = crt_frames[k]
  BY <1>1, <1>2, PoppedFrame
<1> HIDE DEF top
<1>4. ExitFrame(top) BY <1>1, <1>2, <1>3 DEF FramesOK
<1>5. /\ fr = [kind |-> "onexit", first |-> tab.first, last |-> fr.last, saved |-> <<tab.first, tab.last>>, new |-> fr.new]
      /\ fr.new = FALSE /\ fr.last \in Nat /\ fr.last <= tab.last
      /\ now # top.saved => fr.last = tab.last
  <2>1. CASE now = top.saved
    <3>1. fr = top /\ top.saved = <<top.first, top.saved[2]>> BY <1>4, <2>1 DEF ExitFrame
    <3>2. top.first = tab.first /\ top.saved[2] = tab.last BY <2>1, <3>1
    <3> HIDE DEF fr, now
    <3>3. top = [kind |-> "onexit", first |-> top.first, last |-> top.last, saved |-> <<top.first, top.saved[2]>>, new |-> FALSE]
          /\ top.last <= top.saved[2] /\ top.last \in Nat
      BY <1>4 DEF ExitFrame
    <3>4. top.new = FALSE BY <3>3
    <3> QED BY <2>1, <3>1, <3>2, <3>3, <3>4
  <2>2. CASE now # top.saved
    <3>1. fr = [kind |-> "onexit", first |-> tab.first, last |-> tab.last, saved |-> <<tab.first, tab.last>>, new |-> FALSE]
      BY <2>2 DEF M!Frame
    <3>2. tab.last \in Nat BY <1>2 DEF TableOK
    <3> HIDE DEF fr
    <3> QED BY <3>1, <3>2
  <2> QED BY <2>1, <2>2
<1>6. now = top.saved => fr = top OBVIOUS
<1> HIDE DEF fr
<1>7. Below(fr) = M!Front(crt_frames) BY <1>5 DEF Below
<1>8. ASSUME ~crt_hist.nested
      PROVE  /\ tab.first # 0 => \A i \in 1 .. tab.end : i > fr.last => arrays[tab.first][i] = 0
             /\ \A k \in 1 .. Len(Below(fr)) : Below(fr)[k].kind # "onexit"
  <2>1. Alone(crt_frames, tab, arrays) BY <1>8 DEF ExitInv
  <2>2. \A k \in 1 .. Len(Below(fr)) : Below(fr)[k].kind # "onexit" BY <1>1, <1>3, <1>7, <2>1 DEF Alone
  <2>3. Follows(top, tab, arrays) BY <1>1, <1>3, <2>1 DEF Alone
  <2>4. CASE now = top.saved BY <1>6, <2>2, <2>3, <2>4 DEF Follows
  <2>5. CASE now # top.saved BY <1>2, <1>5, <2>2, <2>5 DEF TableOK
  <2> QED BY <2>4, <2>5
<1>9. RunOf(fr, crt_hist) BY <1>1, <1>2, <1>5, <1>8 DEF RunOf
<1> QED BY <1>1, <1>9, RunKeeps

-----------------------------------------------------------------------------
(* The other handlers: frames that run no table come and go. *)

\* Frames that run no table come and go, or all go.
Quiet ==
  \/ crt_frames' \in {crt_frames, <<>>}
  \/ \E f : f.kind # "onexit" /\ crt_frames' = Append(crt_frames, f)
  \/ crt_frames # <<>> /\ crt_frames' = M!Front(crt_frames)
  \/ crt_frames # <<>> /\ \E f : f.kind # "onexit" /\ crt_frames' = Append(M!Front(crt_frames), f)

\* They leave what the frames say of the table alone.
LEMMA QuietFrames ==
  ASSUME FramesOK(crt_frames), Quiet
  PROVE  FramesOK(crt_frames') /\ \A t, a : Alone(crt_frames, t, a) => Alone(crt_frames', t, a)
<1>1. CASE crt_frames' \in {crt_frames, <<>>} BY <1>1, NoFrames
<1>2. CASE \E f : f.kind # "onexit" /\ crt_frames' = Append(crt_frames, f) BY <1>2, OtherFrame
<1>3. CASE crt_frames # <<>> /\ crt_frames' = M!Front(crt_frames) BY <1>3, FrameGoes
<1>4. CASE crt_frames # <<>> /\ \E f : f.kind # "onexit" /\ crt_frames' = Append(M!Front(crt_frames), f)
  <2>1. FramesOK(M!Front(crt_frames)) /\ \A t, a : Alone(crt_frames, t, a) => Alone(M!Front(crt_frames), t, a)
    BY <1>4, FrameGoes
  <2>2. PICK f : f.kind # "onexit" /\ crt_frames' = Append(M!Front(crt_frames), f) BY <1>4
  <2> QED BY <2>1, <2>2, OtherFrame
<1> QED BY <1>1, <1>2, <1>3, <1>4 DEF Quiet

\* A step that leaves the table alone and moves other frames keeps the invariant.
LEMMA QuietKeeps ==
  ASSUME ExitInv, UNCHANGED <<tab, arrays, ran>>, Quiet,
         HistOK(crt_hist'), crt_hist'.nested = crt_hist.nested, crt_hist'.lost = crt_hist.lost
  PROVE  ExitInv'
<1>1. FramesOK(crt_frames') /\ \A t, a : Alone(crt_frames, t, a) => Alone(crt_frames', t, a) BY QuietFrames DEF ExitInv
<1> QED BY <1>1, ExitStaysSame

\* A handler is called no more often than one was installed: an installed one may still be called.
Installed(s) == IF signals[s] = "handler" THEN 1 ELSE 0

\* The inductive invariant of the signal handlers.
SignalInv ==
  /\ signals \in [{"fpe", "segv"} -> {"dfl", "ign", "handler"}]
  /\ crt_hist.installs \in Nat /\ crt_hist.handled \in Nat
  /\ crt_hist.handled + Installed("fpe") + Installed("segv") <= crt_hist.installs

\* The two together.
CrtInv == ExitInv /\ SignalInv

\* They hold at the start.
LEMMA InitCrt == M!Init => CrtInv
<1> SUFFICES ASSUME M!Init PROVE CrtInv OBVIOUS
<1>1. signals = [s \in {"fpe", "segv"} |-> "dfl"] BY DEF M!Init, M!Signals
<1>2. crt_hist.installs = 0 /\ crt_hist.handled = 0 BY DEF M!Init
<1>3. SignalInv BY <1>1, <1>2 DEF SignalInv, Installed
<1> QED BY <1>3, InitExit DEF CrtInv

\* A step that leaves signals alone keeps the invariant of the handlers.
LEMMA SignalsKeep ==
  ASSUME SignalInv, signals' = signals, crt_hist'.installs = crt_hist.installs, crt_hist'.handled = crt_hist.handled
  PROVE  SignalInv'
BY DEF SignalInv, Installed

\* A run of the table calls and installs no signal handler.
LEMMA RunKeepsHist ==
  ASSUME NEW fr, NEW h, HistOK(h), M!call_onexit_functions(fr, h)
  PROVE  crt_hist'.installs = h.installs /\ crt_hist'.handled = h.handled
<1>1. crt_hist' = h \/ (\E x : crt_hist' = [h EXCEPT !.lost = x]) \/ crt_hist' = [h EXCEPT !.fault = TRUE]
  BY DEF M!call_onexit_functions, M!RunTable, M!EndTable, M!CallFunction
<1>2. \A x : [h EXCEPT !.lost = x].installs = h.installs /\ [h EXCEPT !.lost = x].handled = h.handled BY DEF HistOK
<1>3. [h EXCEPT !.fault = TRUE].installs = h.installs /\ [h EXCEPT !.fault = TRUE].handled = h.handled BY DEF HistOK
<1> QED BY <1>1, <1>2, <1>3

\* A call of an initializer pushes no frame that runs the table.
LEMMA InitializerCalled ==
  ASSUME NEW at, NEW stop, NEW below, M!CallInitializer(at, stop, below)
  PROVE  crt_frames' = below \/ \E f : f.kind # "onexit" /\ crt_frames' = Append(below, f)
<1> DEFINE f == [kind |-> "initterm", at |-> M!NextInitializer(at), stop |-> stop]
<1>1. f.kind # "onexit" OBVIOUS
<1> HIDE DEF f
<1>2. crt_frames' = below \/ crt_frames' = Append(below, f) BY DEF M!CallInitializer, f
<1> QED BY <1>1, <1>2

\* The calls about exit functions and initializers keep the invariant.
LEMMA ExitStep ==
  ASSUME CrtInv, M!NextExit
  PROVE  CrtInv'
<1>1. ExitInv /\ SignalInv /\ HistOK(crt_hist) BY DEF CrtInv, ExitInv
<1>2. ASSUME UNCHANGED <<tab, arrays, ran, crt_hist, signals>>, Quiet PROVE CrtInv'
  <2>1. ExitInv' BY <1>1, <1>2, QuietKeeps
  <2>2. SignalInv' BY <1>1, <1>2, SignalsKeep
  <2> QED BY <2>1, <2>2 DEF CrtInv
<1>3. ASSUME NEW null \in BOOLEAN, M!_initialize_onexit_table(null) PROVE CrtInv'
  <2>1. ExitInv' BY <1>1, <1>3, InitializeKeeps
  <2>2. SignalInv' BY <1>1, <1>3, SignalsKeep DEF M!_initialize_onexit_table, M!OtherThanExit
  <2> QED BY <2>1, <2>2 DEF CrtInv
<1>4. ASSUME NEW null \in BOOLEAN, M!_register_onexit_function(null) PROVE CrtInv'
  <2>1. ExitInv' BY <1>1, <1>4, RegisterKeeps
  <2>2. SignalInv' BY <1>1, <1>4, SignalsKeep DEF M!_register_onexit_function, M!OtherThanExit
  <2> QED BY <2>1, <2>2 DEF CrtInv
<1>5. ASSUME NEW null \in BOOLEAN, M!_execute_onexit_table(null) PROVE CrtInv'
  <2>1. ExitInv' BY <1>1, <1>5, ExecuteKeeps
  <2>2. crt_hist'.installs = crt_hist.installs /\ crt_hist'.handled = crt_hist.handled
    <3>1. CASE null \/ tab.first = 0 BY <1>5, <3>1 DEF M!_execute_onexit_table
    <3>2. CASE ~(null \/ tab.first = 0)
      <4> DEFINE n == crt_hist.nested \/ M!Running
                 h == [crt_hist EXCEPT !.nested = n]
                 fr == M!Frame(tab.first, tab.last, TRUE)
      <4>1. M!call_onexit_functions(fr, h) BY <1>5, <3>2 DEF M!_execute_onexit_table
      <4>2. n \in BOOLEAN BY <1>1, Zenon DEF HistOK
      <4> HIDE DEF n, fr
      <4>3. HistOK(h) /\ h.installs = crt_hist.installs /\ h.handled = crt_hist.handled BY <1>1, <4>2 DEF HistOK
      <4> HIDE DEF h
      <4> QED BY <4>1, <4>3, RunKeepsHist
    <3> QED BY <3>1, <3>2
  <2>3. SignalInv' BY <1>1, <1>5, <2>2, SignalsKeep DEF M!_execute_onexit_table, M!OtherThanExit
  <2> QED BY <2>1, <2>3 DEF CrtInv
<1>6. ASSUME M!OnExitReturns PROVE CrtInv'
  <2>1. ExitInv' BY <1>1, <1>6, ReturnKeeps
  <2>2. crt_hist'.installs = crt_hist.installs /\ crt_hist'.handled = crt_hist.handled
    BY <1>1, <1>6, RunKeepsHist DEF M!OnExitReturns
  <2>3. SignalInv' BY <1>1, <1>6, <2>2, SignalsKeep DEF M!OnExitReturns, M!OtherThanExit
  <2> QED BY <2>1, <2>3 DEF CrtInv
<1>7. ASSUME M!atexit \/ M!_onexit \/ M!__dllonexit \/ M!_crt_atexit PROVE CrtInv'
  <2>1. M!atexit BY <1>7 DEF M!_onexit, M!__dllonexit, M!_crt_atexit
  <2> QED BY <1>2, <2>1 DEF M!atexit, M!OtherThanExit, Quiet
<1>8. ASSUME NEW stop, M!_call_initializers(stop) PROVE CrtInv'
  <2>1. UNCHANGED <<tab, arrays, ran, crt_hist, signals>> /\ M!CallInitializer(1, stop, crt_frames)
    BY <1>8 DEF M!_call_initializers, M!OtherThanFrames
  <2>2. Quiet BY <2>1, InitializerCalled DEF Quiet
  <2> QED BY <1>2, <2>1, <2>2
<1>9. ASSUME NEW error \in BOOLEAN, M!InitializerReturns(error) PROVE CrtInv'
  <2>1. /\ UNCHANGED <<tab, arrays, ran, crt_hist, signals>> /\ crt_frames # <<>>
        /\ \/ crt_frames' = M!Front(crt_frames)
           \/ M!CallInitializer(M!Top.at + 1, M!Top.stop, M!Front(crt_frames))
    BY <1>9 DEF M!InitializerReturns, M!OtherThanFrames, M!Waiting
  <2>2. Quiet BY <2>1, InitializerCalled DEF Quiet
  <2> QED BY <1>2, <2>1, <2>2
<1>10. ASSUME M!exit_process PROVE CrtInv'
  BY <1>2, <1>10 DEF M!exit_process, M!OtherThanFrames, Quiet
<1> QED BY <1>3, <1>4, <1>5, <1>6, <1>7, <1>8, <1>9, <1>10
     DEF M!NextExit, M!_initterm_e, M!_initterm, M!exit, M!cexit, M!_assert, M!_endthreadex, M!_invoke_watson

\* A handler that is called is not installed any more.
LEMMA HandlerCalled ==
  ASSUME CrtInv, NEW s \in M!Signals, signals[s] = "handler", M!call_signal_handler(s), M!OtherThanSignals
  PROVE  CrtInv'
<1> DEFINE f == [kind |-> "signal", signal |-> s]
<1>1. ExitInv /\ SignalInv /\ HistOK(crt_hist) BY DEF CrtInv, ExitInv
<1>2. f.kind # "onexit" OBVIOUS
<1> HIDE DEF f
<1>3. Quiet BY <1>2 DEF M!call_signal_handler, M!Push, Quiet, f
<1>4. crt_hist' = [crt_hist EXCEPT !.handled = @ + 1] BY DEF M!call_signal_handler
<1>5. HistOK(crt_hist') /\ crt_hist'.nested = crt_hist.nested /\ crt_hist'.lost = crt_hist.lost BY <1>1, <1>4 DEF HistOK
<1>6. crt_hist'.installs = crt_hist.installs /\ crt_hist'.handled = crt_hist.handled + 1 BY <1>1, <1>4 DEF HistOK
<1>7. ExitInv' BY <1>1, <1>3, <1>5, QuietKeeps DEF M!OtherThanSignals
<1>8. signals' = [signals EXCEPT ![s] = "dfl"] /\ s \in {"fpe", "segv"} BY DEF M!call_signal_handler, M!Signals
<1>9. SignalInv'
  <2>1. CASE s = "fpe" BY <1>1, <1>6, <1>8, <2>1 DEF SignalInv, Installed
  <2>2. CASE s = "segv" BY <1>1, <1>6, <1>8, <2>2 DEF SignalInv, Installed
  <2> QED BY <1>8, <2>1, <2>2
<1> QED BY <1>7, <1>9 DEF CrtInv

\* The calls about signals and invalid parameters keep the invariant.
LEMMA SignalStep ==
  ASSUME CrtInv, M!NextSignals
  PROVE  CrtInv'
<1>1. ExitInv /\ SignalInv /\ HistOK(crt_hist) BY DEF CrtInv, ExitInv
<1>2. ASSUME UNCHANGED <<tab, arrays, ran, crt_hist, signals>>, Quiet PROVE CrtInv'
  <2>1. ExitInv' BY <1>1, <1>2, QuietKeeps
  <2>2. SignalInv' BY <1>1, <1>2, SignalsKeep
  <2> QED BY <2>1, <2>2 DEF CrtInv
<1>3. ASSUME NEW s, M!raise_(s) PROVE CrtInv'
  <2>1. M!OtherThanSignals BY <1>3 DEF M!raise_
  <2>2. CASE /\ s \in M!Signals /\ signals[s] # "ign" /\ signals[s] # "dfl"
    <3>1. signals[s] = "handler" BY <1>1, <2>2 DEF SignalInv, M!Signals
    <3>2. M!call_signal_handler(s) BY <1>3, <2>2 DEF M!raise_
    <3> QED BY <2>1, <2>2, <3>1, <3>2, HandlerCalled
  <2>3. CASE ~(s \in M!Signals /\ signals[s] # "ign" /\ signals[s] # "dfl")
    <3>1. UNCHANGED <<signals, crt_hist>> /\ crt_frames' \in {crt_frames, <<>>} BY <1>3, <2>3 DEF M!raise_
    <3> QED BY <1>2, <2>1, <3>1 DEF Quiet, M!OtherThanSignals
  <2> QED BY <2>2, <2>3
<1>4. ASSUME NEW s, M!_seh_filter_exe(s) PROVE CrtInv'
  <2>1. M!OtherThanSignals BY <1>4 DEF M!_seh_filter_exe
  <2>2. CASE /\ s \in M!Signals /\ signals[s] # "ign" /\ signals[s] # "dfl"
    <3>1. signals[s] = "handler" BY <1>1, <2>2 DEF SignalInv, M!Signals
    <3>2. M!call_signal_handler(s) BY <1>4, <2>2 DEF M!_seh_filter_exe
    <3> QED BY <2>1, <2>2, <3>1, <3>2, HandlerCalled
  <2>3. CASE ~(s \in M!Signals /\ signals[s] # "ign" /\ signals[s] # "dfl")
    <3>1. UNCHANGED <<signals, crt_hist, crt_frames>> BY <1>4, <2>3 DEF M!_seh_filter_exe
    <3> QED BY <1>2, <2>1, <3>1 DEF Quiet, M!OtherThanSignals
  <2> QED BY <2>2, <2>3
<1>5. ASSUME NEW s, NEW action \in {"dfl", "ign", "handler"}, M!signal(s, action) PROVE CrtInv'
  <2>1. M!OtherThanSignals /\ crt_frames' = crt_frames BY <1>5 DEF M!signal
  <2>2. CASE s \notin M!Signals BY <1>2, <1>5, <2>1, <2>2 DEF M!signal, M!OtherThanSignals, Quiet
  <2>3. CASE s \in M!Signals
    <3>1. /\ signals' = [signals EXCEPT ![s] = action] /\ s \in {"fpe", "segv"}
          /\ crt_hist' = IF action = "handler" THEN [crt_hist EXCEPT !.installs = @ + 1] ELSE crt_hist
      BY <1>5, <2>3 DEF M!signal, M!Signals
    <3>2. /\ HistOK(crt_hist') /\ crt_hist'.nested = crt_hist.nested /\ crt_hist'.lost = crt_hist.lost
          /\ crt_hist'.handled = crt_hist.handled
          /\ crt_hist'.installs = IF action = "handler" THEN crt_hist.installs + 1 ELSE crt_hist.installs
      <4>1. CASE action = "handler" BY <1>1, <3>1, <4>1 DEF HistOK
      <4>2. CASE action # "handler" BY <1>1, <3>1, <4>2
      <4> QED BY <4>1, <4>2
    <3>3. Quiet BY <2>1 DEF Quiet
    <3>4. ExitInv' BY <1>1, <2>1, <3>2, <3>3, QuietKeeps DEF M!OtherThanSignals
    <3>5. SignalInv'
      <4>1. CASE s = "fpe" BY <1>1, <3>1, <3>2, <4>1 DEF SignalInv, Installed
      <4>2. CASE s = "segv" BY <1>1, <3>1, <3>2, <4>2 DEF SignalInv, Installed
      <4> QED BY <3>1, <4>1, <4>2
    <3> QED BY <3>4, <3>5 DEF CrtInv
  <2> QED BY <2>2, <2>3
<1>6. ASSUME M!SignalReturns PROVE CrtInv'
  BY <1>2, <1>6 DEF M!SignalReturns, M!Waiting, M!OtherThanSignals, Quiet
<1>7. ASSUME UNCHANGED crt_frames, M!OtherThanInvalid PROVE CrtInv'
  BY <1>2, <1>7 DEF M!OtherThanInvalid, Quiet
<1>8. ASSUME M!_invalid_parameter_noinfo PROVE CrtInv'
  <2> DEFINE f == [kind |-> "invalid"]
  <2>1. f.kind # "onexit" OBVIOUS
  <2> HIDE DEF f
  <2>2. crt_frames' = crt_frames \/ crt_frames' = Append(crt_frames, f)
    BY <1>8 DEF M!_invalid_parameter_noinfo, M!Push, f
  <2> QED BY <1>2, <1>8, <2>1, <2>2 DEF M!_invalid_parameter_noinfo, M!OtherThanInvalid, Quiet
<1>9. ASSUME M!InvalidReturns PROVE CrtInv'
  BY <1>2, <1>9 DEF M!InvalidReturns, M!Waiting, M!OtherThanInvalid, Quiet
<1> QED BY <1>3, <1>4, <1>5, <1>6, <1>7, <1>8, <1>9
     DEF M!NextSignals, M!_set_invalid_parameter_handler, M!_set_thread_local_invalid_parameter_handler,
         M!_get_invalid_parameter_handler, M!_get_thread_local_invalid_parameter_handler

\* Steps that leave the exit functions and signals alone keep the invariant.
LEMMA OtherSteps ==
  ASSUME CrtInv, UNCHANGED <<tab, arrays, crt_frames, ran, crt_hist, signals>>
  PROVE  CrtInv'
<1>1. ExitInv' BY ExitStaysSame DEF CrtInv, ExitInv
<1>2. SignalInv' BY SignalsKeep DEF CrtInv
<1> QED BY <1>1, <1>2 DEF CrtInv

\* The calls that allocate blocks are such steps.
LEMMA BlockStep ==
  ASSUME M!NextBlocks
  PROVE  UNCHANGED <<tab, arrays, crt_frames, ran, crt_hist, signals>>
<1>1. \A b, e : M!Blocks(b, e) => UNCHANGED <<tab, arrays, crt_frames, ran, crt_hist, signals>> BY DEF M!Blocks
<1>2. \A c, e : M!Counts(c, e) => UNCHANGED <<tab, arrays, crt_frames, ran, crt_hist, signals>> BY DEF M!Counts
<1>3. \A name, n : M!CachedBlock(name, n) => UNCHANGED <<tab, arrays, crt_frames, ran, crt_hist, signals>>
  BY <1>1 DEF M!CachedBlock
<1>4. \A n : M!Fresh(n) => UNCHANGED <<tab, arrays, crt_frames, ran, crt_hist, signals>> BY <1>1 DEF M!Fresh
<1>5. \A d, e : M!add_facet_refs(d, e) => UNCHANGED <<tab, arrays, crt_frames, ran, crt_hist, signals>>
  BY <1>2 DEF M!add_facet_refs
<1>6. \A b : M!locale_init(b) => UNCHANGED <<tab, arrays, crt_frames, ran, crt_hist, signals>>
  BY <1>2, <1>5 DEF M!locale_init
<1> QED BY <1>3, <1>4, <1>5, <1>6
     DEF M!NextBlocks, M!_errno, M!strerror, M!___lc_locale_name_func, M!localeconv, M!setlocale, M!get_pctype_table,
         M!get_global_locimp, M!__p___argv, M!__p___wargv, M!__p___argc, M!_get_initial_narrow_environment,
         M!_get_initial_wide_environment, M!facet_Incref, M!facet_Decref, M!get_winmain_command_line_ptr,
         M!get_exception_slot, M!_write_main_args

\* The calls about counters are.
LEMMA CounterStep ==
  ASSUME M!NextCounters
  PROVE  UNCHANGED <<tab, arrays, crt_frames, ran, crt_hist, signals>>
<1>1. \A c, e : M!Counts(c, e) => UNCHANGED <<tab, arrays, crt_frames, ran, crt_hist, signals>> BY DEF M!Counts
<1>2. \A f : M!Bump(f) => UNCHANGED <<tab, arrays, crt_frames, ran, crt_hist, signals>> BY <1>1 DEF M!Bump
<1>3. M!clock \/ M!_Query_perf_counter \/ M!_Random_device => UNCHANGED <<tab, arrays, crt_frames, ran, crt_hist, signals>>
  BY <1>2 DEF M!clock, M!_Query_perf_counter, M!_Random_device
<1>4. M!rand => UNCHANGED <<tab, arrays, crt_frames, ran, crt_hist, signals>> BY <1>1, SMT DEF M!rand
<1>5. \A null : M!rand_s(null) => UNCHANGED <<tab, arrays, crt_frames, ran, crt_hist, signals>>
  BY <1>1, <1>2, Zenon DEF M!rand_s
<1>6. \A n : M!srand(n) => UNCHANGED <<tab, arrays, crt_frames, ran, crt_hist, signals>> BY <1>1, Zenon DEF M!srand
<1>7. \A n : M!_set_new_mode(n) => UNCHANGED <<tab, arrays, crt_frames, ran, crt_hist, signals>>
  BY <1>1, Zenon DEF M!_set_new_mode
<1>8. \A n : M!_configthreadlocale(n) => UNCHANGED <<tab, arrays, crt_frames, ran, crt_hist, signals>>
  BY <1>1, Zenon DEF M!_configthreadlocale
<1> QED BY <1>3, <1>4, <1>5, <1>6, <1>7, <1>8 DEF M!NextCounters

\* qsort is.
LEMMA SortStep ==
  ASSUME M!NextSort
  PROVE  UNCHANGED <<tab, arrays, crt_frames, ran, crt_hist, signals>>
<1>1. PICK key : M!qsort(key) BY DEF M!NextSort
<1> QED BY <1>1 DEF M!qsort

\* The steps of the C run-time library.
CrtNext == M!NextExit \/ M!NextSignals \/ M!NextBlocks \/ M!NextCounters \/ M!NextSort

\* Every step keeps the invariant.
LEMMA CrtStep == CrtInv /\ [CrtNext]_(M!vars) => CrtInv'
<1> SUFFICES ASSUME CrtInv, [CrtNext]_(M!vars) PROVE CrtInv' OBVIOUS
<1>1. CASE M!NextExit BY <1>1, ExitStep
<1>2. CASE M!NextSignals BY <1>2, SignalStep
<1>3. CASE M!NextBlocks BY <1>3, BlockStep, OtherSteps
<1>4. CASE M!NextCounters BY <1>4, CounterStep, OtherSteps
<1>5. CASE M!NextSort BY <1>5, SortStep, OtherSteps
<1>6. CASE UNCHANGED M!vars BY <1>6, OtherSteps DEF M!vars
<1> QED BY <1>1, <1>2, <1>3, <1>4, <1>5, <1>6 DEF CrtNext

\* The invariant says that guest functions are called as often as asked for.
LEMMA CrtSafe == CrtInv => M!GuestFunctionsRunOnce
<1> SUFFICES ASSUME CrtInv PROVE M!GuestFunctionsRunOnce OBVIOUS
<1>1. M!ExitFunctionsRunOnce
  <2>1. ran \in Seq({0, 1}) BY DEF CrtInv, ExitInv, TableOK
  <2>2. \A f \in DOMAIN ran : ran[f] \in {0, 1} BY <2>1
  <2> QED BY <2>2 DEF M!ExitFunctionsRunOnce
<1>2. M!ExitFunctionsAreKept BY DEF M!ExitFunctionsAreKept, CrtInv, ExitInv, HistOK
<1>3. M!HandlersRunOnce BY DEF M!HandlersRunOnce, CrtInv, SignalInv, Installed
<1> QED BY <1>1, <1>2, <1>3 DEF M!GuestFunctionsRunOnce

\* An exit function runs at most once for each registration, when exit functions register others, make the
\* table move and run it themselves, none is lost or read in a freed table, and a signal handler runs at most once
\* for each signal() call, for any number of functions, tables, frames and calls (call_onexit_functions, raise_).
THEOREM CalledAsAsked ==
  M!Init /\ [][CrtNext]_(M!vars) => []M!GuestFunctionsRunOnce
<1>1. M!Init => CrtInv BY InitCrt
<1>2. CrtInv /\ [CrtNext]_(M!vars) => CrtInv' BY CrtStep
<1>3. CrtInv => M!GuestFunctionsRunOnce BY CrtSafe
<1> QED BY <1>1, <1>2, <1>3, PTL
=============================================================================
