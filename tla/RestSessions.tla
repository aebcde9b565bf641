---------------------------- MODULE RestSessions ----------------------------
(***************************************************************************)
(* The REST interface of the server: several connections, served in turn   *)
(* by the one thread of libwebsockets (lws), each with a session of its    *)
(* own, the struct user_buffer_data. A transaction is a request's headers, *)
(* the pieces of its body, and the write of its answer; between two of     *)
(* them lws serves other connections. What connections share is the        *)
(* folder for uploads, the applications and their last response, which an  *)
(* event loop thread may set as well.                                      *)
(*                                                                         *)
(* lws is modelled as README.md's version 3.0 behaves: a session is zeroed *)
(* memory, given anew when lws_http_transaction_completed() is called.     *)
(***************************************************************************)
EXTENDS Integers

CONSTANTS
    Conns, NoConn,  \* the connections of REST clients
    Files,          \* the names clients give the archives they upload
    Dirs,           \* the folders inside archives, which applications run from
    Handlers,       \* what the handler an application registers may do
    Parts,          \* bound: pieces in which a body arrives
    MaxRequests     \* bound: requests, numbered as they arrive

Null    == -1                   \* no application; every application, in an URL
Numbers == 0..MaxRequests       \* 0 is what was there before the first request
Extents == {"all", "some", "none"}      \* how much of an archive
Kinds   == {"get", "put", "post", "delete", "call", "send"}

ASSUME ConnsAssumption == NoConn \notin Conns /\ "none" \notin Files
ASSUME BoundsAssumption == Parts \in Nat \ {0} /\ MaxRequests \in Nat
ASSUME HandlersAssumption ==
    Handlers \subseteq {"writes", "bare", "later", "silent"}

VARIABLES
    up,              \* the server process
    count,           \* requests so far
    phase, asked,    \* per connection: where its transaction is; the request
    got,             \* a client has just received: the request and the text
    large, str, len, idx,     \* session: large_str, str, len, buffer_idx
    err, name, fd, pos,       \* error_msg set; filename, fd; pieces so far
    app,             \* session: app_request.app_
    temp,            \* the folder for uploads: the pieces in each file
    code,            \* per directory: of which uploads it has files
    apps,            \* the registry
    resp, body,      \* per application: app_response_; the response object of
                     \* its router, with the body last written to it
    later,           \* handlers that will call end() from a timer
    reading, freed,  \* the connection whose handler has run and whose response
                     \* is to be copied; whether that was deleted since
    clash, deferred, \* history: two clients held one file name at a time; a
                     \* handler left its end() to a timer
    sent, failed     \* history: the uploads received to their end; what went
                     \* wrong on the disk

buffer == <<large, str, len, idx>>
upload == <<err, name, fd, pos>>
disk   == <<temp, code, clash, sent, failed>>
calls  == <<resp, body, later, deferred>>
copy   == <<reading, freed>>
client == <<phase, asked>>
vars   == <<up, count, client, got, buffer, upload, app, disk, apps, calls,
            copy>>

\* A text: the request it was made for, what it is, and whether it fits str
\* ("short"), one write ("long") or neither ("huge").
Text(n, what, size) == [of |-> n, what |-> what, size |-> size]
Answers(n, sizes) == {Text(n, "answer", s) : s \in sizes}
Blank   == Text(0, "none", "none")
Missing == Text(Null, "none", "none")

\* A piece of a file: the request it came with, and whether it is the last, or
\* "torn" by a write that was too short. Hole: none was written there.
Hole  == <<0, "none">>
Empty == [i \in 1..Parts |-> Hole]

\* The file is all of one upload. Otherwise it cannot be unpacked to its end.
Whole(t) == \E k \in 1..Parts :
               /\ t[k][2] = "last"
               /\ \A i \in 1..k-1 : t[i] = <<t[k][1], "more">>
               /\ \A i \in k+1..Parts : t[i] = Hole
Writer(t)  == t[1][1]
Writers(t) == {t[i][1] : i \in 1..Parts} \ {0}

\* The files in a directory: the upload that was unpacked last, whether all of
\* its files are there, and those of which some may be left.
NoFiles == [top |-> Null, all |-> FALSE, rest |-> {}]
Uploads(files) == ({files.top} \cup files.rest) \ {Null}

With(id) == {a \in apps : a.id = id}

NoRequest == [n |-> 0, kind |-> "get", target |-> Null, handler |-> "none"]
Nothing   == [asked |-> NoRequest, text |-> Blank]

Init ==
    /\ up = TRUE /\ count = 0
    /\ phase = [c \in Conns |-> "idle"]
    /\ asked = [c \in Conns |-> NoRequest]
    /\ got = Nothing
    /\ large = [c \in Conns |-> Blank] /\ str = [c \in Conns |-> Blank]
    /\ len = [c \in Conns |-> "none"] /\ idx = [c \in Conns |-> 0]
    /\ err = [c \in Conns |-> FALSE] /\ name = [c \in Conns |-> "none"]
    /\ fd = [c \in Conns |-> "closed"] /\ pos = [c \in Conns |-> 0]
    /\ app = [c \in Conns |-> Null]
    /\ temp = [f \in Files |-> Empty]
    /\ apps \in {{}} \cup {{[id |-> 0, dir |-> d, by |-> 0]} : d \in Dirs}
    /\ code = [d \in Dirs |-> IF \E a \in apps : a.dir = d
                              THEN [NoFiles EXCEPT !.top = 0, !.all = TRUE]
                              ELSE NoFiles]
    /\ resp = [a \in Numbers |-> Missing] /\ body = [a \in Numbers |-> Blank]
    /\ later = {} /\ reading = NoConn /\ freed = FALSE
    /\ clash = FALSE /\ deferred = FALSE /\ sent = {0} /\ failed = {}

\* The thread of lws is between two callbacks.
Serving == up /\ reading = NoConn /\ got = Nothing
At(c, p) == Serving /\ phase[c] = p

Goto(c, p) == phase' = [phase EXCEPT ![c] = p]

\* lws takes the session from connection c, and gives it a new one.
NewSession(c) ==
    /\ large' = [large EXCEPT ![c] = Blank] /\ str' = [str EXCEPT ![c] = Blank]
    /\ len' = [len EXCEPT ![c] = "none"] /\ idx' = [idx EXCEPT ![c] = 0]
    /\ err' = [err EXCEPT ![c] = FALSE] /\ name' = [name EXCEPT ![c] = "none"]
    /\ fd' = [fd EXCEPT ![c] = "closed"] /\ pos' = [pos EXCEPT ![c] = 0]
    /\ app' = [app EXCEPT ![c] = Null]

\* The client gets text t, and the transaction is over.
Ends(c, t) ==
    /\ got' = [asked |-> asked[c], text |-> t]
    /\ asked' = [asked EXCEPT ![c] = NoRequest] /\ Goto(c, "idle")
    /\ NewSession(c)

Received == /\ up /\ got # Nothing /\ got' = Nothing
            /\ UNCHANGED <<up, count, client, buffer, upload, app, disk, apps,
                           calls, copy>>

-----------------------------------------------------------------------------
(* The headers of a request: rest_api_callback, with LWS_CALLBACK_HTTP      *)

Begins(c, kind, target, handler) ==
    /\ At(c, "idle") /\ count < MaxRequests
    /\ count' = count + 1
    /\ asked' = [asked EXCEPT ![c] = [n |-> count + 1, kind |-> kind,
                                      target |-> target, handler |-> handler]]
    /\ UNCHANGED got

\* Mutant: large_str is not cleared.
OptimizeNotClearing(c, t) ==
    /\ len' = [len EXCEPT ![c] = t.size] /\ UNCHANGED idx
    /\ IF t.size \in {"none", "short"}
       THEN str' = [str EXCEPT ![c] = t] /\ UNCHANGED large
       ELSE large' = [large EXCEPT ![c] = t] /\ UNCHANGED str

OptimizeResponseString(c, t) ==
    /\ len' = [len EXCEPT ![c] = t.size] /\ UNCHANGED idx
    /\ IF t.size \in {"none", "short"}
       THEN /\ str' = [str EXCEPT ![c] = t]
            /\ large' = [large EXCEPT ![c] = Blank]
       ELSE large' = [large EXCEPT ![c] = t] /\ UNCHANGED str

\* Applications leave the registry: with their heaps go their timers and their
\* response objects.
Remove(gone, new) ==
    /\ apps' = (apps \ gone) \cup new
    /\ later' = {l \in later : \A a \in gone : l[1] # a.by}
    /\ resp' = [n \in Numbers |-> IF \E a \in gone : a.by = n THEN Missing
                                                               ELSE resp[n]]
    /\ body' = [n \in Numbers |-> IF \E a \in gone : a.by = n THEN Blank
                                                               ELSE body[n]]

\* GET: a list, a description, a log or an error
Get(c) ==
    /\ Begins(c, "get", Null, "none")
    /\ \E t \in Answers(count + 1, {"short", "long", "huge"}) :
          OptimizeResponseString(c, t)
    /\ Goto(c, "reply")
    /\ UNCHANGED <<up, upload, app, disk, apps, calls, copy>>

\* DELETE of one application, or of all
Delete(c, target) ==
    LET gone == IF target = Null THEN apps ELSE With(target)
    IN  /\ Begins(c, "delete", Null, "none")
        /\ Remove(gone, {})
        /\ code' = [d \in Dirs |-> IF \E a \in gone : a.dir = d THEN NoFiles
                                                                ELSE code[d]]
        /\ OptimizeResponseString(c, Text(count + 1, "answer", "short"))
        /\ Goto(c, "reply")
        /\ UNCHANGED <<up, upload, app, temp, clash, sent, failed, deferred, copy>>

\* PUT and POST: the URL is kept, and a body follows
Announce(c, kind, target) ==
    /\ Begins(c, kind, target, "none") /\ Goto(c, "body")
    /\ UNCHANGED <<up, buffer, upload, app, disk, apps, calls, copy>>

\* The containers of an AppRequest that was never constructed may not work.
Faults == /\ \E c \in Conns : At(c, "idle")
          /\ count < MaxRequests
          /\ up' = FALSE
          /\ UNCHANGED <<count, client, got, buffer, upload, app, disk, apps, calls,
                         copy>>

\* What the handler of application a does for request n, up to its return
Handle(a, n, handler) ==
    \/ /\ handler = "writes"
       /\ \E t \in Answers(n, {"none", "short", "long", "huge"}) :
             body' = [body EXCEPT ![a] = t] /\ resp' = [resp EXCEPT ![a] = t]
       /\ UNCHANGED <<later, deferred>>
    \/ /\ handler = "bare"                   \* end() without write()
       /\ resp' = [resp EXCEPT ![a] = body[a]]
       /\ UNCHANGED <<body, later, deferred>>
    \/ /\ handler = "later"
       /\ later' = later \cup {<<a, n>>} /\ deferred' = TRUE
       /\ UNCHANGED <<resp, body>>
    \/ /\ handler = "silent"                 \* it throws, or never ends
       /\ UNCHANGED calls

\* getResponse(): the handler has run and app_response_ is returned
GetResponse(c, a, n, handler) ==
    /\ Handle(a, n, handler)
    /\ reading' = c /\ freed' = FALSE /\ Goto(c, "copy")

\* A request to an application's own interface, without a body: it is
\* found, and the handler runs.
Call(c, id, handler) ==
    /\ Begins(c, "call", Null, handler)
    /\ \E a \in With(id) :
          /\ app' = [app EXCEPT ![c] = a.by]
          /\ GetResponse(c, a.by, count + 1, handler)
    /\ UNCHANGED <<up, buffer, upload, disk, apps>>

\* There is none, or it is a PUT with a body: lws answers 404.
CallUnknown(c) ==
    /\ At(c, "idle") /\ count < MaxRequests /\ count' = count + 1
    /\ got' = [text  |-> Text(count + 1, "answer", "short"),
               asked |-> [n |-> count + 1, kind |-> "call", target |-> Null,
                          handler |-> "none"]]
    /\ UNCHANGED <<up, client, buffer, upload, app, disk, apps, calls, copy>>

\* With a body, which is waited for whether or not there is an application
Send(c, id, handler) ==
    /\ Begins(c, "send", Null, handler)
    /\ app' = [app EXCEPT ![c] = Null] \/
          \E a \in With(id) : app' = [app EXCEPT ![c] = a.by]
    /\ Goto(c, "body")
    /\ UNCHANGED <<up, buffer, upload, disk, apps, calls, copy>>

-----------------------------------------------------------------------------
(* The response of an application: between the handler and the copy of the  *)
(* response the application's mutex has been given back                     *)

\* A timer of application a calls end() for request n: setResponseObj deletes
\* the response object of before.
EndsLater(a, n) ==
    /\ up /\ <<a, n>> \in later
    /\ later' = later \ {<<a, n>>}
    /\ resp' = [resp EXCEPT ![a] = Text(n, "answer", "short")]
    /\ body' = [body EXCEPT ![a] = Text(n, "answer", "short")]
    /\ freed' = (freed \/ (reading # NoConn /\ app[reading] = a))
    /\ UNCHANGED <<up, count, client, got, buffer, upload, app, disk, apps, deferred,
                   reading>>

\* The text of a response object that has been deleted
Garbage(c) == {Text(Null, "garbage", "short"), resp[app[c]]}

Copy(c) ==
    /\ up /\ reading = c /\ reading' = NoConn /\ freed' = FALSE
    /\ \/ \E t \in IF freed THEN Garbage(c) ELSE {resp[app[c]]} :
             \/ /\ t # Missing
                /\ OptimizeResponseString(c, t) /\ Goto(c, "reply")
                /\ UNCHANGED <<asked, got, upload, app>>
             \/ /\ t = Missing /\ asked[c].kind = "call"       \* lws: 404
                /\ Ends(c, Text(asked[c].n, "answer", "short"))
             \/ /\ t = Missing /\ asked[c].kind = "send"       \* nothing
                /\ Goto(c, "stuck")
                /\ UNCHANGED <<asked, got, buffer, upload, app>>
    /\ UNCHANGED <<up, count, disk, apps, calls>>

-----------------------------------------------------------------------------
(* Bodies: LWS_CALLBACK_HTTP_BODY and LWS_CALLBACK_HTTP_BODY_COMPLETION     *)

InBody(c, kind) == At(c, "body") /\ asked[c].kind = kind

\* PUT: the first piece is kept in large_str, in case it is JSON
PutBody(c) ==
    /\ InBody(c, "put") /\ pos[c] < Parts
    /\ pos' = [pos EXCEPT ![c] = @ + 1]
    /\ large' = IF pos[c] = 0
                THEN [large EXCEPT ![c] = Text(asked[c].n, "body", "long")]
                ELSE large
    /\ UNCHANGED <<up, count, client, got, str, len, idx, err, name, fd, app, disk,
                   apps, calls, copy>>

PutDone(c) ==
    /\ InBody(c, "put") /\ pos[c] > 0
    /\ OptimizeResponseString(c, Text(asked[c].n, "answer", "short"))
    /\ Goto(c, "reply")
    /\ UNCHANGED <<up, count, asked, got, upload, app, disk, apps, calls, copy>>

\* Another session has opened f, and has not come to the end of its request.
Held(c, f) == \E d \in Conns \ {c} : phase[d] = "body" /\ name[d] = f /\ ~err[d]

\* The file of the form begins, in the folder or in vain.
Opening(c, f) == /\ InBody(c, "post") /\ pos[c] = 0 /\ ~err[c] /\ name[c] = "none"
                 /\ name' = [name EXCEPT ![c] = f]
                 /\ UNCHANGED <<up, count, client, got, buffer, pos, app, code, sent,
                                failed, apps, calls, copy>>

\* Mutant: without O_TRUNC
OpenKeeping(c, f) ==
    /\ Opening(c, f)
    /\ fd' = [fd EXCEPT ![c] = "open"] /\ clash' = (clash \/ Held(c, f))
    /\ UNCHANGED <<err, temp>>

\* POST of an archive: LWS_UFS_OPEN
Open(c, f) ==
    /\ Opening(c, f)
    /\ fd' = [fd EXCEPT ![c] = "open"] /\ clash' = (clash \/ Held(c, f))
    /\ temp' = [temp EXCEPT ![f] = Empty]
    /\ UNCHANGED err

\* Mutant: the failure is not reported.
OpenUnreported(c, f) ==
    /\ Opening(c, f)
    /\ UNCHANGED <<err, fd, temp, clash>>

OpenFails(c, f) ==
    /\ Opening(c, f)
    /\ err' = [err EXCEPT ![c] = TRUE]
    /\ UNCHANGED <<fd, temp, clash>>

\* A field of the form that is not "filekey"
BadField(c) ==
    /\ InBody(c, "post") /\ fd[c] = "closed" /\ pos[c] = 0 /\ ~err[c]
    /\ err' = [err EXCEPT ![c] = TRUE]
    /\ UNCHANGED <<up, count, client, got, buffer, name, fd, pos, app, disk, apps,
                   calls, copy>>

\* LWS_UFS_CONTENT and LWS_UFS_FINAL_CONTENT: the file is written through its
\* descriptor, even when its name has been removed, and even when a write was
\* too short.
Content(c, last) ==
    /\ InBody(c, "post") /\ fd[c] # "closed"
    /\ pos[c] < Parts /\ (pos[c] + 1 = Parts => last)
    /\ pos' = [pos EXCEPT ![c] = @ + 1]
    /\ \E part \in {IF last THEN "last" ELSE "more", "torn"} :
          /\ temp' = IF fd[c] = "open"
                     THEN [temp EXCEPT ![name[c]][pos[c] + 1] = <<asked[c].n, part>>]
                     ELSE temp
          /\ failed' = failed \cup (IF part = "torn" THEN {"write"} ELSE {})
    /\ fd' = IF last THEN [fd EXCEPT ![c] = "closed"] ELSE fd
    /\ sent' = sent \cup (IF last THEN {asked[c].n} ELSE {})
    /\ UNCHANGED <<up, count, client, got, buffer, err, name, app, code, clash, apps,
                   calls, copy>>

\* The body is over, whether or not it had a file and the file came to its end.
Done(c) == InBody(c, "post") /\ ~err[c]

\* Mutant: the length is not set.
AnswerWithoutLength(c, size) ==
    /\ large' = [large EXCEPT ![c] = Text(asked[c].n, "answer", size)]
    /\ Goto(c, "reply")
    /\ UNCHANGED <<up, count, asked, got, str, len, idx, err, name, app, pos,
                   clash, sent, deferred, copy>>

\* A long or a short answer goes into large_str, whatever its length.
AnswerPost(c, size) ==
    /\ large' = [large EXCEPT ![c] = Text(asked[c].n, "answer", size)]
    /\ len' = [len EXCEPT ![c] = size]
    /\ Goto(c, "reply")
    /\ UNCHANGED <<up, count, asked, got, str, idx, err, name, app, pos, clash,
                   sent, deferred, copy>>

\* remove() of the archive: who has it open keeps a file without a name.
RemoveArchive(f) ==
    /\ temp' = [temp EXCEPT ![f] = Empty]
    /\ fd' = [d \in Conns |-> IF name[d] = f /\ fd[d] = "open" THEN "detached"
                                                               ELSE fd[d]]

\* extract(): the files of t are written over those in directory d, which stay
\* otherwise: all of t's, or some, when it ends early or goes on after a file it
\* could not write, or none.
Overlay(t, d, which) ==
    IF which = "none" THEN UNCHANGED code
    ELSE /\ Writer(t) # 0
         /\ code' = [code EXCEPT ![d] =
                        [top  |-> Writer(t), all |-> which = "all",
                         rest |-> (Uploads(@) \cup Writers(t)) \ {Writer(t)}]]

\* The archive that c has sent is unpacked and removed; both may go wrong.
Unpack(c, d, which) ==
    LET t == temp[name[c]]
        broken == IF Whole(t) /\ which # "all" THEN {"extract"} ELSE {}
    IN  /\ name[c] # "none" /\ (which = "all" => Whole(t))
        /\ Overlay(t, d, which)
        /\ \/ RemoveArchive(name[c]) /\ failed' = failed \cup broken
           \/ /\ failed' = failed \cup broken \cup {"remove"}
              /\ UNCHANGED <<temp, fd>>

\* new JSApplication, in place of others
Load(c, gone, new) == Remove(gone, new) /\ AnswerPost(c, "long")

\* An upload that failed before, or that is for an id nobody has
PostRefused(c) ==
    /\ \/ InBody(c, "post") /\ err[c]
       \/ Done(c) /\ asked[c].target # Null /\ With(asked[c].target) = {}
    /\ AnswerPost(c, "short")
    /\ UNCHANGED <<fd, temp, code, failed, apps, later, resp, body>>

\* An upload to "/": a new application, in place of the one in that directory. An
\* error is answered when extract() has returned no name for it, or when it does
\* not start and no other was there.
PostNew(c, d) ==
    LET n == asked[c].n
        owners == {a \in apps : a.dir = d}
    IN  /\ Done(c) /\ asked[c].target = Null
        /\ \E which \in Extents :
              /\ Unpack(c, d, which)
              /\ \/ /\ which # "none"
                    /\ Load(c, owners, {[id |-> n, dir |-> d, by |-> n]})
                 \/ /\ which # "all" \/ owners = {}
                    /\ AnswerPost(c, "short")
                    /\ UNCHANGED <<apps, later, resp, body>>

\* Mutant: the archive is not removed.
PostKeepingArchive(c) ==
    /\ Done(c) /\ name[c] # "none" /\ Whole(temp[name[c]])
    /\ \E a \in With(asked[c].target) :
          /\ Overlay(temp[name[c]], a.dir, "all")
          /\ Load(c, {a}, {[a EXCEPT !.by = asked[c].n]})
    /\ UNCHANGED <<temp, fd, failed>>

\* An upload to an application's URL: it is loaded anew from its directory,
\* whatever has become of the archive.
PostReload(c) ==
    /\ Done(c)
    /\ \E a \in With(asked[c].target), which \in Extents :
          /\ Unpack(c, a.dir, which)
          /\ Load(c, {a}, {[a EXCEPT !.by = asked[c].n]})

\* A form without a file: there is nothing to unpack, and an application is
\* loaded anew all the same.
PostWithoutFile(c) ==
    /\ Done(c) /\ name[c] = "none"
    /\ \/ \E a \in With(asked[c].target) :
             Load(c, {a}, {[a EXCEPT !.by = asked[c].n]})
       \/ /\ asked[c].target = Null /\ AnswerPost(c, "short")
          /\ UNCHANGED <<apps, later, resp, body>>
    /\ UNCHANGED <<fd, temp, code, failed>>

\* An application was shut down and does not start again: the process ends, with
\* the archive unpacked, which no step looks at any more.
PostDies(c) ==
    /\ Done(c)
    /\ \/ With(asked[c].target) # {}
       \/ /\ asked[c].target = Null /\ name[c] # "none"
          /\ Writer(temp[name[c]]) # 0 /\ apps # {}
    /\ up' = FALSE
    /\ UNCHANGED <<count, client, got, buffer, upload, app, disk, apps, calls, copy>>

\* A request to an application with a body: text is added to input_body_.
SendBody(c) ==
    /\ InBody(c, "send") /\ pos[c] < Parts
    /\ pos' = [pos EXCEPT ![c] = @ + 1] /\ err' = [err EXCEPT ![c] = TRUE]
    /\ UNCHANGED <<up, count, client, got, buffer, name, fd, app, disk, apps, calls,
                   copy>>

\* At its end app_ is used as it was found at the beginning.
SendDone(c) ==
    /\ InBody(c, "send") /\ pos[c] > 0
    /\ \E a \in apps : a.by = app[c]
    /\ GetResponse(c, app[c], asked[c].n, asked[c].handler)
    /\ UNCHANGED <<up, count, asked, got, buffer, upload, app, disk, apps>>

\* None was found, or it has been deleted and has no heap any more.
SendDies(c) ==
    /\ InBody(c, "send") /\ pos[c] > 0
    /\ \A a \in apps : a.by # app[c]
    /\ up' = FALSE
    /\ UNCHANGED <<count, client, got, buffer, upload, app, disk, apps, calls, copy>>

\* A deleted response object may be memory that is not there any more.
CopyDies(c) ==
    /\ up /\ reading = c /\ freed
    /\ up' = FALSE
    /\ UNCHANGED <<count, client, got, buffer, upload, app, disk, apps, calls, copy>>

-----------------------------------------------------------------------------
(* The answer: writeHttpRequest, with LWS_CALLBACK_HTTP_WRITEABLE           *)

Chosen(c) == IF large[c] # Blank THEN large[c] ELSE str[c]
Cut(t) == [t EXCEPT !.what = "part"]

\* Mutant: there is always more to be written of a huge answer.
WriteableEndless(c) ==
    /\ At(c, "reply")
    /\ \/ /\ len[c] = "none" /\ Goto(c, "stuck")
          /\ UNCHANGED <<asked, got, buffer, upload, app>>
       \/ /\ len[c] # "none" /\ large[c].size = "huge"
          /\ idx' = [idx EXCEPT ![c] = @ + 1]
          /\ UNCHANGED <<client, got, large, str, len, upload, app>>
       \/ /\ len[c] # "none" /\ large[c].size # "huge"
          /\ Ends(c, Chosen(c))
    /\ UNCHANGED <<up, count, disk, apps, calls, copy>>

\* lws_http_transaction_completed() is called after each chunk, when lws may
\* give the session back or, the rest not being written yet, may not.
Writeable(c) ==
    /\ At(c, "reply")
    /\ \/ /\ len[c] = "none" /\ Goto(c, "stuck")
          /\ UNCHANGED <<asked, got, buffer, upload, app>>
       \/ /\ len[c] # "none" /\ large[c].size = "huge" /\ idx[c] = 0
          /\ idx' = [idx EXCEPT ![c] = 1]
          /\ UNCHANGED <<client, got, large, str, len, upload, app>>
       \/ /\ len[c] # "none" /\ large[c].size = "huge" /\ idx[c] = 0
          /\ Ends(c, Cut(large[c]))
       \/ /\ len[c] # "none" /\ (large[c].size = "huge" => idx[c] = 1)
          /\ Ends(c, Chosen(c))
    /\ UNCHANGED <<up, count, disk, apps, calls, copy>>

\* The client goes away, or lws gives it up. A file it was sending stays open,
\* and stays in the folder.
Drop(c) ==
    /\ Serving /\ phase[c] # "idle"
    /\ Ends(c, Blank)
    /\ UNCHANGED <<up, count, disk, apps, calls, copy>>

Targets == {Null} \cup Numbers
Ids     == {a.id : a \in apps} \cup {MaxRequests}   \* one that nobody has yet

Step(c) ==
    \/ Get(c) \/ Announce(c, "put", Null) \/ CallUnknown(c)
    \/ \E i \in {Null} \cup Ids : Delete(c, i) \/ Announce(c, "post", i)
    \/ \E i \in Ids, h \in Handlers : Call(c, i, h) \/ Send(c, i, h)
    \/ Copy(c) \/ CopyDies(c)
    \/ PutBody(c) \/ PutDone(c)
    \/ (\E f \in Files : Open(c, f) \/ OpenFails(c, f)) \/ BadField(c)
    \/ (\E last \in BOOLEAN : Content(c, last))
    \/ PostRefused(c) \/ (\E d \in Dirs : PostNew(c, d)) \/ PostReload(c)
    \/ PostWithoutFile(c) \/ PostDies(c)
    \/ SendBody(c) \/ SendDone(c) \/ SendDies(c)
    \/ Writeable(c) \/ Drop(c)

Next == \/ \E c \in Conns : Step(c)
        \/ \E a, n \in Numbers : EndsLater(a, n)
        \/ Faults \/ Received

Spec == Init /\ [][Next]_vars

-----------------------------------------------------------------------------
(* Properties                                                               *)

Sizes  == {"none", "short", "long", "huge"}
Texts  == [of : Numbers \cup {Null}, size : Sizes,
           what : {"none", "answer", "body", "part", "garbage"}]
Requests == [n : Numbers, kind : Kinds, target : Targets,
             handler : Handlers \cup {"none"}]
Pieces == Numbers \X {"more", "last", "torn", "none"}
Contents == [top : Targets, all : BOOLEAN, rest : SUBSET Numbers]
Apps   == [id : Numbers, dir : Dirs, by : Numbers]

\* The type invariant of all the variables
TypeOK ==
    /\ up \in BOOLEAN /\ count \in Numbers
    /\ phase \in [Conns -> {"idle", "body", "copy", "reply", "stuck"}]
    /\ asked \in [Conns -> Requests]
    /\ got \in [asked : Requests, text : Texts]
    /\ large \in [Conns -> Texts] /\ str \in [Conns -> Texts]
    /\ len \in [Conns -> Sizes] /\ idx \in [Conns -> 0..1]
    /\ err \in [Conns -> BOOLEAN] /\ name \in [Conns -> Files \cup {"none"}]
    /\ fd \in [Conns -> {"closed", "open", "detached"}]
    /\ pos \in [Conns -> 0..Parts]
    /\ app \in [Conns -> Targets]
    /\ temp \in [Files -> [1..Parts -> Pieces]]
    /\ code \in [Dirs -> Contents]
    /\ apps \subseteq Apps
    /\ resp \in [Numbers -> Texts] /\ body \in [Numbers -> Texts]
    /\ later \subseteq Numbers \X Numbers
    /\ reading \in Conns \cup {NoConn} /\ freed \in BOOLEAN
    /\ clash \in BOOLEAN /\ deferred \in BOOLEAN
    /\ sent \subseteq Numbers /\ failed \subseteq {"write", "extract", "remove"}

\* Unless two clients send files of one name at a time, or the disk fails, an
\* upload that came to its end and was the last to be unpacked into the directory
\* of an application has all of its files there, whatever was dropped, refused,
\* cut short or sent again under its name before; and an application made from an
\* upload runs from that one (post_request.cpp: "we have the file in file system
\* now so we can just extract it").
UploadIntact ==
    ~clash /\ "write" \notin failed /\ "extract" \notin failed =>
        \A a \in apps : LET files == code[a.dir] IN
            files.top \in sent => files.all /\ (a.by \in sent => files.top = a.by)

\* Nor does a directory ever get a file of an upload but at the end of that
\* upload's own request: what an upload left in the folder when it was dropped or
\* refused gets into no application, though writes fail, bodies are cut short and
\* forms have no file.
OwnFiles ==
    [][~clash' => \A d \in Dirs : \A n \in Uploads(code'[d]) \ Uploads(code[d]) :
          \E c \in Conns : /\ InBody(c, "post") /\ phase'[c] = "reply"
                          /\ asked[c].n = n]_vars

\* No handler has left its end() to a timer, and the one that answers this
\* request calls write() and end().
Prompt(q) == q.handler \in {"none", "writes"} /\ ~deferred

\* What a client gets is the answer that was made for its request, all of it or
\* the first part of a huge one, and not a piece of the request's own body,
\* another client's answer, or what a session or an application's response
\* object held from before.
OwnAnswer == got # Nothing /\ got.text # Blank /\ Prompt(got.asked) =>
    /\ got.text.of = got.asked.n
    /\ \/ got.text.what = "answer"
       \/ got.text.what = "part" /\ got.text.size = "huge"

\* A request to the server itself is never left without any answer; a request
\* to an application is only when its handler has written nothing, or when it
\* came with a body and no response has been made.
NeverLeft ==
    \A c \in Conns : phase[c] = "stuck" =>
        \/ asked[c].kind = "send"
        \/ asked[c].kind = "call" /\ len[c] = "none"

\* An archive that has become an application is not in the folder any more,
\* where the next upload of its name would find it, unless it cannot be removed.
ArchiveUsedOnce ==
    "remove" \notin failed =>
        \A f \in Files : Whole(temp[f]) => \A a \in apps : a.by # Writer(temp[f])

=============================================================================
