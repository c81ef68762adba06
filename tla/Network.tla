---------------------------- MODULE Network ----------------------------
(***************************************************************************)
(* The emulated network: NetworkManager of netman.py, the handlers of      *)
(* ws2_32.py, wininet.py, winhttp.py, urlmon.py and dnsapi.py, and the     *)
(* kernel sockets of netio.py.                                             *)
(*                                                                         *)
(* Sockets and Internet objects are in two tables of one handle allocator, *)
(* so a handle is here the position of its object in one sequence.  A      *)
(* socket and a request have `left` bytes of answer still to be read.  The *)
(* events that the profiler records, and the memory that answers are put   *)
(* in, are not modelled.                                                   *)
(***************************************************************************)
EXTENDS Integers, Sequences, FiniteSets, FiniteSetsExt

CONSTANTS Answer,       \* bytes of the configured answer of a socket and of a request
          NameLen,      \* characters of a name, an address or a header, without the terminator
          MaxNet,       \* bound on the objects of a behaviour
          MaxSockets,   \* bound on its sockets
          MaxRoom       \* bound on the size of a buffer

VARIABLES net,          \* the objects of the two tables, and whether http responses are configured
          taken,        \* history: per object, the bytes that reads removed from its answer
          wsk,          \* the kernel sockets of netio
          res           \* what the last call told the guest

vars == <<net, taken, wsk, res>>

NotLoaded == -1
Kinds == {"socket", "instance", "session", "request"}

Object(kind, up, left) ==
  [kind |-> kind, up |-> up, open |-> TRUE, peer |-> FALSE, left |-> left]

Add(s, o) == [s EXCEPT !.objs = Append(@, o)]
Is(s, h, kind) == h \in DOMAIN s.objs /\ s.objs[h].open /\ s.objs[h].kind = kind

(***************************************************************************)
(* NetworkManager.                                                         *)
(***************************************************************************)
\* fill_recv_queue gives each new socket the whole answer of the configuration.
new_socket(s) == Add(s, Object("socket", 0, Answer))
get_socket(s, h) == Is(s, h, "socket")
close_socket(s, h) == [s EXCEPT !.objs[h].open = FALSE]

\* connect and bind store the address in the same place.
connect_socket(s, h) == [s EXCEPT !.objs[h].peer = TRUE]
bind_socket(s, h) == [s EXCEPT !.objs[h].peer = TRUE]

\* The accepted socket comes from the address that the configuration gives to "default".
accept_socket(s) == LET t == new_socket(s) IN connect_socket(t, Len(t.objs))

\* A peek seeks back by what it read.
get_recv_data(s, h, size, peek) ==
  LET n == Min({size, s.objs[h].left})
  IN  [got |-> n, left |-> IF peek THEN s.objs[h].left ELSE s.objs[h].left - n]

new_wininet_inst(s) == Add(s, Object("instance", 0, NotLoaded))
new_session(s, inst) == Add(s, Object("session", inst, NotLoaded))
new_request(s, sess) == Add(s, Object("request", sess, NotLoaded))

get_wininet(s, h, kind) == Is(s, h, kind)

\* The session of the url has a handle too, which the guest does not get.
open_url(s, inst) == LET t == new_session(s, inst) IN new_request(t, Len(t.objs))

\* The objects below an object, itself among them; the tree is three levels deep.
Tree(s, h) ==
  {x \in DOMAIN s.objs : \/ x = h \/ s.objs[x].up = h
                         \/ s.objs[x].up # 0 /\ s.objs[s.objs[x].up].up = h}

\* An object that was closed before its parent is still in the parent's children, and is passed over.
close_wininet_object(s, h) ==
  [s EXCEPT !.objs = [x \in DOMAIN @ |-> IF x \in Tree(s, h) THEN [@[x] EXCEPT !.open = FALSE] ELSE @[x]]]

\* The answer is loaded once, and kept with the position in it.
get_response(s, h) ==
  IF s.objs[h].left = NotLoaded THEN [s EXCEPT !.objs[h].left = Answer] ELSE s

get_response_size(s, h) == get_response(s, h).objs[h].left
get_response_headers(s, h) == get_response(s, h)

Init ==
  /\ \E http \in BOOLEAN : net = [objs |-> <<>>, http |-> http]
  /\ taken = <<>>
  /\ wsk = [clients |-> <<>>, npi |-> 0, sockets |-> 0]
  /\ res = [err |-> "none", put |-> 0, room |-> 0]

Tell(e, put, room) == res' = [err |-> e, put |-> put, room |-> room]
Fails(e) == Tell(e, 0, 0) /\ UNCHANGED <<net, taken, wsk>>
Says == Fails("none")

\* A step that puts no bytes; the history of a new object starts at 0.
Does(s) ==
  /\ Len(s.objs) <= MaxNet /\ Cardinality({h \in DOMAIN s.objs : s.objs[h].kind = "socket"}) <= MaxSockets
  /\ net' = s /\ Tell("none", 0, 0) /\ UNCHANGED wsk
  /\ taken' = [x \in DOMAIN s.objs |-> IF x \in DOMAIN taken THEN taken[x] ELSE 0]

\* A result of `len` bytes into a buffer that must hold them all.
Put(len, room) ==
  (IF room < len THEN Tell("insufficient", 0, room) ELSE Tell("none", len, room)) /\ UNCHANGED <<taken, wsk>>

(***************************************************************************)
(* ws2_32.                                                                 *)
(***************************************************************************)
WSAStartup == Says
WSASocket == Does(new_socket(net))
socket == Does(new_socket(net))

\* These only convert their argument, or say that they succeed.
inet_and_options == Says

gethostname(room) == Put(NameLen + 1, room) /\ UNCHANGED net
gethostbyname(known) == IF known THEN Says ELSE Fails("notfound")

connect(h) == IF ~get_socket(net, h) THEN Fails("notsock") ELSE Does(connect_socket(net, h))
WSAConnect(h) == connect(h)
bind(h) == IF ~get_socket(net, h) THEN Fails("notsock") ELSE Does(bind_socket(net, h))
listen_select == Says

\* The accepting socket need not be bound.
accept(h) == IF ~get_socket(net, h) THEN Fails("notsock") ELSE Does(accept_socket(net))

write_sockaddr(room) ==
  (IF room < NameLen THEN Tell("fault", 0, room) ELSE Tell("none", NameLen, room)) /\ UNCHANGED <<net, taken, wsk>>

getpeername(h, room) ==
  IF ~get_socket(net, h) THEN Fails("notsock")
  ELSE IF ~net.objs[h].peer THEN Fails("notconn") ELSE write_sockaddr(room)

getsockname(h, room) == IF ~get_socket(net, h) THEN Fails("notsock") ELSE write_sockaddr(room)

\* inet_ntop does not look at StringBufSize.
inet_conversions == Says
fd_set_and_shutdown == Says

recv(h, size, peek) ==
  LET r == get_recv_data(net, h, size, peek)
  IN  IF ~get_socket(net, h) THEN Fails("notsock")
      ELSE /\ net' = [net EXCEPT !.objs[h].left = r.left]
           /\ taken' = IF peek THEN taken ELSE [taken EXCEPT ![h] = @ + r.got]
           /\ Tell("none", r.got, size) /\ UNCHANGED wsk

send(h) == IF ~get_socket(net, h) THEN Fails("notsock") ELSE Says
closesocket(h) == IF ~get_socket(net, h) THEN Fails("notsock") ELSE Does(close_socket(net, h))
ioctlsocket(h) == IF ~get_socket(net, h) THEN Fails("notsock") ELSE Says

\* A service that is neither a number nor in SERVICE_PORTS; a host that is not found is the local host.
getaddrinfo(service) == IF ~service THEN Fails("notfound") ELSE Says

freeaddrinfo == Says

\* The size of the socket buffers as an integer of the option length that the guest gives.
getsockopt(room) ==
  IF room < 2 THEN Fails("raises") ELSE Tell("none", room, room) /\ UNCHANGED <<net, taken, wsk>>

(***************************************************************************)
(* wininet and winhttp.                                                    *)
(***************************************************************************)
InternetOpen == Does(new_wininet_inst(net))
WinHttpOpen == Does(new_wininet_inst(net))

InternetConnect(h) ==
  IF ~get_wininet(net, h, "instance") THEN Fails("handle") ELSE Does(new_session(net, h))
WinHttpConnect(h) == InternetConnect(h)

HttpOpenRequest(h) ==
  IF ~get_wininet(net, h, "session") THEN Fails("handle") ELSE Does(new_request(net, h))
WinHttpOpenRequest(h) == HttpOpenRequest(h)

\* rooms[i] is the size that the guest gives for part i of the url, 0 for a part it does not want.  The
\* parts before the first that does not fit are written.
CrackUrl(rooms) ==
  LET small == {i \in DOMAIN rooms : rooms[i] # 0 /\ rooms[i] <= NameLen}
      written == {i \in DOMAIN rooms : rooms[i] # 0 /\ \A j \in small : i < j}
  IN  /\ Tell(IF small = {} THEN "none" ELSE "insufficient",
              IF written = {} THEN 0 ELSE NameLen + 1,
              IF written = {} THEN 0 ELSE Min({rooms[i] : i \in written}))
      /\ UNCHANGED <<net, taken, wsk>>

InternetCrackUrl(rooms) == CrackUrl(rooms)
WinHttpCrackUrl(rooms) == CrackUrl(rooms)

InternetOptions == Says
WinHttpProxyAndOptions == Says

HttpSendRequest(h) == IF ~get_wininet(net, h, "request") THEN Fails("handle") ELSE Says
WinHttpSendRequest(h) == HttpSendRequest(h)
InternetErrorDlg_QueryOption == Says
WinHttpReceiveResponse == Says

\* get_response raises NetworkEmuError when the configuration has no http responses; the response that was
\* loaded is not asked for again.
Raises == ~net.http

InternetReadFile(h, size) ==
  LET s == get_response(net, h)
      n == Min({size, s.objs[h].left})
  IN  IF ~get_wininet(net, h, "request") THEN Fails("handle")
      ELSE IF Raises THEN Fails("raises")
      ELSE /\ net' = [s EXCEPT !.objs[h].left = @ - n]
           /\ taken' = [taken EXCEPT ![h] = @ + n]
           /\ Tell("none", n, size) /\ UNCHANGED wsk
WinHttpReadData(h, size) == InternetReadFile(h, size)

\* The status is always 200 and needs no request; the other headers are those of the response.
HttpQueryInfo(h, header, room) ==
  IF header = "status" THEN Put(NameLen + 1, room) /\ UNCHANGED net
  ELSE IF ~get_wininet(net, h, "request") THEN Fails("handle")
  ELSE IF Raises THEN Fails("raises")
  ELSE IF header = "unknown"
    THEN net' = get_response_headers(net, h) /\ Tell("noheader", 0, room) /\ UNCHANGED <<taken, wsk>>
  ELSE net' = get_response_headers(net, h) /\ Put(NameLen + 1, room)
WinHttpQueryHeaders(h, header, room) == HttpQueryInfo(h, header, room)

InternetQueryDataAvailable(h) ==
  IF ~get_wininet(net, h, "request") THEN Fails("handle")
  ELSE IF Raises THEN Fails("raises")
  ELSE /\ net' = get_response(net, h)
       /\ Tell("none", get_response_size(net, h), Answer) /\ UNCHANGED <<taken, wsk>>
WinHttpQueryDataAvailable(h) == InternetQueryDataAvailable(h)

InternetCloseHandle(h) ==
  IF ~\E kind \in Kinds \ {"socket"} : get_wininet(net, h, kind) THEN Fails("handle")
  ELSE Does(close_wininet_object(net, h))
WinHttpCloseHandle(h) == InternetCloseHandle(h)

InternetOpenUrl(h, scheme) ==
  IF ~get_wininet(net, h, "instance") THEN Fails("handle")
  ELSE IF ~scheme THEN Fails("scheme") ELSE Does(open_url(net, h))

(***************************************************************************)
(* urlmon and dnsapi.                                                      *)
(***************************************************************************)
\* The file manager records the name as a download; it makes no file.
URLDownloadToFile == Says
URLDownloadToCacheFile(room) == Put(NameLen + 1, room) /\ UNCHANGED net

DnsQuery_(record, known) == IF record = "text" \/ (record = "a" /\ known) THEN Says ELSE Fails("invalid")

(***************************************************************************)
(* netio: a client registers, captures the one provider interface, and     *)
(* makes datagram sockets with it.                                         *)
(***************************************************************************)
Wsk(w) == wsk' = w /\ Tell("none", 0, 0) /\ UNCHANGED <<net, taken>>

WskRegister(client) ==
  Len(wsk.clients) < 2 /\ Wsk([wsk EXCEPT !.clients = Append(@, client)])

\* The interface is made for the first client that captures it.
WskCaptureProviderNPI(r) ==
  IF r \notin DOMAIN wsk.clients THEN Fails("nointerface")
  ELSE Wsk(IF wsk.npi = 0 THEN [wsk EXCEPT !.npi = wsk.clients[r]] ELSE wsk)

\* Only datagram sockets have a dispatch table.
WskSocket(irp, flags) ==
  IF ~irp THEN Fails("invalid")
  ELSE IF flags # "datagram" THEN Fails("raises")
  ELSE wsk.sockets < 1 /\ Wsk([wsk EXCEPT !.sockets = @ + 1])

\* The rest of the interface answers that it succeeds; nothing is released.
WskClientCalls == Says
WskSocketCalls == Says
WskReleaseCalls == Says

Handles == 1 .. MaxNet
Rooms == 0 .. MaxRoom

NextSockets ==
  \/ WSAStartup \/ WSASocket \/ socket \/ inet_and_options \/ listen_select \/ inet_conversions
  \/ fd_set_and_shutdown \/ freeaddrinfo
  \/ \E n \in Rooms : gethostname(n) \/ getsockopt(n)
  \/ \E b \in BOOLEAN : gethostbyname(b) \/ getaddrinfo(b)
  \/ \E h \in Handles : connect(h) \/ WSAConnect(h) \/ bind(h) \/ accept(h) \/ send(h) \/ closesocket(h) \/ ioctlsocket(h)
  \/ \E h \in Handles, n \in Rooms : getpeername(h, n) \/ getsockname(h, n)
  \/ \E h \in Handles, n \in Rooms, peek \in BOOLEAN : recv(h, n, peek)

NextInternet ==
  \/ InternetOpen \/ WinHttpOpen \/ InternetOptions \/ WinHttpProxyAndOptions
  \/ InternetErrorDlg_QueryOption \/ WinHttpReceiveResponse \/ URLDownloadToFile
  \/ \E h \in Handles : InternetConnect(h) \/ WinHttpConnect(h) \/ HttpOpenRequest(h) \/ WinHttpOpenRequest(h)
  \/ \E h \in Handles : HttpSendRequest(h) \/ WinHttpSendRequest(h)
  \/ \E h \in Handles : InternetQueryDataAvailable(h) \/ WinHttpQueryDataAvailable(h)
  \/ \E h \in Handles : InternetCloseHandle(h) \/ WinHttpCloseHandle(h)
  \/ \E rooms \in [1 .. 2 -> Rooms] : InternetCrackUrl(rooms) \/ WinHttpCrackUrl(rooms)
  \/ \E h \in Handles, n \in Rooms : InternetReadFile(h, n) \/ WinHttpReadData(h, n)
  \/ \E h \in Handles, n \in Rooms, header \in {"status", "length", "unknown"} :
       HttpQueryInfo(h, header, n) \/ WinHttpQueryHeaders(h, header, n)
  \/ \E h \in Handles, b \in BOOLEAN : InternetOpenUrl(h, b)
  \/ \E n \in Rooms : URLDownloadToCacheFile(n)
  \/ \E record \in {"a", "text", "other"}, b \in BOOLEAN : DnsQuery_(record, b)

NextKernelSockets ==
  \/ WskClientCalls \/ WskSocketCalls \/ WskReleaseCalls
  \/ \E c \in 1 .. 2 : WskRegister(c) \/ WskCaptureProviderNPI(c)
  \/ \E irp \in BOOLEAN, flags \in {"datagram", "stream"} : WskSocket(irp, flags)

Next == NextSockets \/ NextInternet \/ NextKernelSockets

Spec == Init /\ [][Next]_vars

(***************************************************************************)
(* Properties.                                                             *)
(***************************************************************************)
TypeOK ==
  /\ \A h \in DOMAIN net.objs :
       /\ net.objs[h].kind \in Kinds /\ net.objs[h].up \in 0 .. (h - 1)
       /\ net.objs[h].left \in NotLoaded .. Answer
  /\ DOMAIN taken = DOMAIN net.objs
  /\ wsk.npi \in 0 .. 2 /\ wsk.sockets \in 0 .. 1

\* An Internet handle is open only while the handles above it are: closing an instance or a session closes
\* the requests below it, those of InternetOpenUrl too, whose session the guest has no handle of
\* (NetworkManager.close_wininet_object).
ClosedTreeIsClosed ==
  \A h \in DOMAIN net.objs : net.objs[h].open /\ net.objs[h].up # 0 => net.objs[net.objs[h].up].open

\* The guest gets each byte of an answer once: what it read and what is left make up the answer, however
\* peeks, size queries and header queries come between the reads (Socket.get_recv_data,
\* WininetRequest.get_response, get_response_size).
AnswersAreReadOnce ==
  \A h \in DOMAIN net.objs : net.objs[h].left # NotLoaded => taken[h] + net.objs[h].left = Answer

\* No call puts more into a buffer of the guest than the guest said it holds.
NetworkRespectsTheBuffer == [][res'.put <= res'.room]_vars
========================================================================
