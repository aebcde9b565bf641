------------------------- MODULE RestSessionsProofs -------------------------
(***************************************************************************)
(* Proofs about RestSessions, for any connections, files, directories and  *)
(* handlers, bodies of any number of pieces and any number of requests.    *)
(***************************************************************************)
EXTENDS RestSessions, TLAPS

-----------------------------------------------------------------------------
(* Types                                                                    *)

ClientOK ==
    /\ up \in BOOLEAN /\ count \in Numbers
    /\ phase \in [Conns -> {"idle", "body", "copy", "reply", "stuck"}]
    /\ asked \in [Conns -> Requests]
    /\ got \in [asked : Requests, text : Texts]
BufferOK ==
    /\ large \in [Conns -> Texts] /\ str \in [Conns -> Texts]
    /\ len \in [Conns -> Sizes] /\ idx \in [Conns -> 0..1]
UploadOK ==
    /\ err \in [Conns -> BOOLEAN] /\ name \in [Conns -> Files \cup {"none"}]
    /\ fd \in [Conns -> {"closed", "open", "detached"}]
    /\ pos \in [Conns -> 0..Parts]
    /\ app \in [Conns -> Targets]
DiskOK ==
    /\ temp \in [Files -> [1..Parts -> Pieces]]
    /\ code \in [Dirs -> Contents]
    /\ apps \subseteq Apps
    /\ clash \in BOOLEAN
    /\ sent \subseteq Numbers /\ failed \subseteq {"write", "extract", "remove"}
CallsOK ==
    /\ resp \in [Numbers -> Texts] /\ body \in [Numbers -> Texts]
    /\ later \subseteq Numbers \X Numbers
    /\ reading \in Conns \cup {NoConn} /\ freed \in BOOLEAN
    /\ deferred \in BOOLEAN

Types == ClientOK /\ BufferOK /\ UploadOK /\ DiskOK /\ CallsOK

LEMMA Small ==
    /\ Numbers \subseteq Int /\ 0 \in Numbers
    /\ \A n \in Numbers : n < MaxRequests => n + 1 \in Numbers
    /\ MaxRequests \in Numbers
    /\ \A n \in Numbers : n + 1 # 0
    /\ Null \in Targets /\ Numbers \subseteq Targets
    /\ Null \notin Numbers /\ Targets \subseteq Int
    /\ 1 \in 1..Parts
BY BoundsAssumption DEF Numbers, Null, Targets

LEMMA Made ==
    /\ \A n \in Targets, what \in {"none", "answer", "body", "part", "garbage"},
          size \in Sizes : Text(n, what, size) \in Texts
    /\ \A n \in Targets, sizes \in SUBSET Sizes : Answers(n, sizes) \subseteq Texts
    /\ Blank \in Texts /\ Missing \in Texts
    /\ \A t \in Texts : Cut(t) \in Texts
BY Small DEF Text, Texts, Answers, Blank, Missing, Cut, Targets, Sizes

LEMMA OptimizeTypes ==
    ASSUME BufferOK, NEW c \in Conns, NEW t \in Texts, OptimizeResponseString(c, t)
    PROVE  BufferOK'
<1>1. t.size \in Sizes BY DEF Texts
<1>2. Blank \in Texts BY Made
<1> QED BY <1>1, <1>2 DEF BufferOK, OptimizeResponseString

LEMMA NewTypes ==
    ASSUME BufferOK, UploadOK, NEW c \in Conns, NewSession(c)
    PROVE  BufferOK' /\ UploadOK'
<1>1. BufferOK' BY Made DEF BufferOK, NewSession, Sizes
<1>2. UploadOK'
  BY Small, BoundsAssumption DEF UploadOK, NewSession
<1> QED BY <1>1, <1>2

LEMMA EndsTypes ==
    ASSUME ClientOK, BufferOK, UploadOK, NEW c \in Conns, NEW t \in Texts,
           Ends(c, t), UNCHANGED <<up, count>>
    PROVE  ClientOK' /\ BufferOK' /\ UploadOK'
<1>1. BufferOK' /\ UploadOK' BY NewTypes DEF Ends
<1>2. NoRequest \in Requests BY Small DEF NoRequest, Requests, Kinds
<1>3. ClientOK' BY <1>2 DEF ClientOK, Ends, Goto
<1> QED BY <1>1, <1>3

LEMMA RemoveTypes ==
    ASSUME CallsOK, apps \subseteq Apps, NEW gone, NEW new \in SUBSET Apps,
         Remove(gone, new)
    PROVE  /\ apps' \subseteq Apps
           /\ resp' \in [Numbers -> Texts] /\ body' \in [Numbers -> Texts]
           /\ later' \subseteq Numbers \X Numbers
BY Made DEF CallsOK, Remove

LEMMA NoFilesTypes == NoFiles \in Contents
BY Small DEF NoFiles, Contents

LEMMA OverlayTypes ==
    ASSUME DiskOK, NEW f \in Files, NEW d \in Dirs, NEW which,
           Overlay(temp[f], d, which)
    PROVE  code' \in [Dirs -> Contents]
<1> DEFINE n == Writer(temp[f])
           rest == (Uploads(code[d]) \cup Writers(temp[f])) \ {n}
<1>1. \A i \in 1..Parts : temp[f][i][1] \in Numbers
  BY DEF DiskOK, Pieces
<1>2. n \in Targets BY <1>1, Small DEF Writer
<1>3. code[d] \in Contents BY DEF DiskOK
<1>4. Uploads(code[d]) \subseteq Numbers
  BY <1>3 DEF Contents, Uploads, Targets
<1>5. Writers(temp[f]) \subseteq Numbers BY <1>1 DEF Writers
<1>6. rest \in SUBSET Numbers BY <1>4, <1>5
<1>7. CASE which = "none" BY <1>7 DEF Overlay, DiskOK
<1>8. CASE which # "none"
  <2>1. code' = [code EXCEPT ![d] = [top |-> n, all |-> which = "all",
                                     rest |-> rest]]
    BY <1>8 DEF Overlay
  <2> HIDE DEF n, rest
  <2>2. [top |-> n, all |-> which = "all", rest |-> rest] \in Contents
    BY <1>2, <1>6 DEF Contents
  <2> QED BY <2>1, <2>2 DEF DiskOK
<1> QED BY <1>7, <1>8

LEMMA RemoveArchiveTypes ==
    ASSUME UploadOK, DiskOK, NEW f \in Files, RemoveArchive(f)
    PROVE  /\ temp' \in [Files -> [1..Parts -> Pieces]]
           /\ fd' \in [Conns -> {"closed", "open", "detached"}]
           /\ \A e \in Conns : fd'[e] = "closed" <=> fd[e] = "closed"
BY Small DEF RemoveArchive, UploadOK, DiskOK, Empty, Hole, Pieces

LEMMA UnpackTypes ==
    ASSUME UploadOK, DiskOK, NEW c \in Conns, NEW d \in Dirs, NEW which,
           Unpack(c, d, which)
    PROVE  /\ temp' \in [Files -> [1..Parts -> Pieces]]
           /\ code' \in [Dirs -> Contents]
           /\ failed' \subseteq {"write", "extract", "remove"}
           /\ fd' \in [Conns -> {"closed", "open", "detached"}]
           /\ \A e \in Conns : fd'[e] = "closed" <=> fd[e] = "closed"
<1>1. name[c] \in Files /\ Overlay(temp[name[c]], d, which)
  BY DEF Unpack, UploadOK
<1>2. code' \in [Dirs -> Contents] BY <1>1, OverlayTypes
<1>3. failed' \subseteq {"write", "extract", "remove"} BY DEF Unpack, DiskOK
<1>4. \/ RemoveArchive(name[c]) \/ UNCHANGED <<temp, fd>>
  BY DEF Unpack
<1>5. CASE RemoveArchive(name[c]) BY <1>1, <1>2, <1>3, <1>5, RemoveArchiveTypes
<1>6. CASE UNCHANGED <<temp, fd>> BY <1>2, <1>3, <1>6 DEF UploadOK, DiskOK
<1> QED BY <1>4, <1>5, <1>6

LEMMA LoadTypes ==
    ASSUME CallsOK, apps \subseteq Apps, NEW c \in Conns, NEW gone,
           NEW new \in SUBSET Apps, Load(c, gone, new)
    PROVE  /\ apps' \subseteq Apps
           /\ resp' \in [Numbers -> Texts] /\ body' \in [Numbers -> Texts]
           /\ later' \subseteq Numbers \X Numbers
           /\ \E size \in {"short", "long"} : AnswerPost(c, size)
BY RemoveTypes DEF Load

LEMMA BeginsTypes ==
    ASSUME ClientOK, NEW c \in Conns, NEW kind \in Kinds, NEW i \in Targets,
           NEW h \in Handlers \cup {"none"}, NEW l \in {"body", "copy", "reply"},
           Begins(c, kind, i, h), Goto(c, l), UNCHANGED up
    PROVE  ClientOK'
BY Small DEF ClientOK, Begins, Goto, Requests, At, Serving

LEMMA HandleTypes ==
    ASSUME CallsOK, NEW c \in Conns, NEW a \in Numbers, NEW n \in Numbers,
           NEW h, GetResponse(c, a, n, h)
    PROVE  CallsOK'
<1>1. Answers(n, {"none", "short", "long", "huge"}) \subseteq Texts
  BY Made, Small DEF Sizes
<1>2. /\ resp' \in [Numbers -> Texts] /\ body' \in [Numbers -> Texts]
      /\ later' \subseteq Numbers \X Numbers /\ deferred' \in BOOLEAN
  <2> USE DEF CallsOK, GetResponse, Handle, calls
  <2>1. CASE h = "writes" BY <1>1, <2>1
  <2>2. CASE h = "bare" BY <2>2
  <2>3. CASE h = "later" BY <2>3
  <2>4. CASE h = "silent" BY <2>4
  <2> QED BY <2>1, <2>2, <2>3, <2>4
<1> QED BY <1>2 DEF CallsOK, GetResponse

-----------------------------------------------------------------------------
(* Sessions: what a connection's session holds in each phase                *)

Fresh(c) ==
    /\ asked[c] = NoRequest
    /\ large[c] = Blank /\ str[c] = Blank /\ len[c] = "none" /\ idx[c] = 0
    /\ err[c] = FALSE /\ name[c] = "none" /\ fd[c] = "closed" /\ pos[c] = 0

Session(c) ==
    /\ phase[c] = "idle" => Fresh(c)
    /\ phase[c] # "idle" => asked[c].n # 0
    /\ phase[c] = "body" => asked[c].kind \in {"put", "post", "send"}
    /\ phase[c] = "copy" <=> reading = c
    /\ phase[c] = "copy" =>
          asked[c].kind \in {"call", "send"} /\ app[c] \in Numbers
    /\ fd[c] # "closed" => /\ phase[c] \in {"body", "reply"}
                           /\ asked[c].kind = "post" /\ name[c] # "none"
    /\ name[c] # "none" => asked[c].kind = "post"
    /\ err[c] /\ asked[c].kind = "post" => fd[c] = "closed"
    /\ phase[c] = "body" /\ asked[c].kind = "post" /\ name[c] = "none" =>
          pos[c] = 0
    /\ phase[c] = "reply" /\ asked[c].kind \notin {"call", "send"} =>
          len[c] # "none"
    /\ phase[c] = "stuck" =>
          \/ asked[c].kind = "send"
          \/ asked[c].kind = "call" /\ len[c] = "none"
Sessions == \A c \in Conns : Session(c)

LEMMA AnswerPostTypes ==
    ASSUME Types, NEW c \in Conns, NEW size \in {"short", "long"},
           AnswerPost(c, size)
    PROVE  BufferOK'
<1>1. Text(asked[c].n, "answer", size) \in Texts /\ size \in Sizes
  BY Made, Small DEF Types, ClientOK, Requests, Sizes, Targets
<1> QED BY <1>1 DEF AnswerPost, Types, BufferOK

LEMMA AnswerPostSessions ==
    ASSUME Types, Sessions, NEW c \in Conns, NEW size \in {"short", "long"},
           InBody(c, "post"), AnswerPost(c, size),
           \A e \in Conns : fd'[e] = "closed" <=> fd[e] = "closed"
    PROVE  Sessions'
<1> SUFFICES ASSUME NEW e \in Conns PROVE Session(e)'
  BY DEF Sessions
<1>1. Session(e) BY DEF Sessions
<1>2. UNCHANGED <<asked, str, idx, err, name, pos, reading>>
  BY DEF AnswerPost, copy
<1>3. CASE e = c
  BY <1>1, <1>2, <1>3 DEF Session, Fresh, AnswerPost, Goto, InBody, At, Serving,
     Types, ClientOK, BufferOK
<1>4. CASE e # c
  BY <1>1, <1>2, <1>4 DEF Session, Fresh, AnswerPost, Goto, Types, ClientOK,
     BufferOK
<1> QED BY <1>3, <1>4

\* The end of an upload, however it is answered
LEMMA PostTypes ==
    ASSUME Types, Sessions, NEW c \in Conns, NEW size \in {"short", "long"},
           InBody(c, "post"), AnswerPost(c, size),
           temp' \in [Files -> [1..Parts -> Pieces]],
           code' \in [Dirs -> Contents], apps' \subseteq Apps,
           failed' \subseteq {"write", "extract", "remove"},
           fd' \in [Conns -> {"closed", "open", "detached"}],
           resp' \in [Numbers -> Texts], body' \in [Numbers -> Texts],
           later' \subseteq Numbers \X Numbers,
           \A e \in Conns : fd'[e] = "closed" <=> fd[e] = "closed"
    PROVE  Types' /\ Sessions'
<1>t. ClientOK /\ BufferOK /\ UploadOK /\ DiskOK /\ CallsOK BY DEF Types
<1>1. ClientOK' BY <1>t DEF AnswerPost, ClientOK, Goto
<1>2. BufferOK' BY AnswerPostTypes
<1>3. UploadOK' BY <1>t DEF AnswerPost, UploadOK
<1>4. DiskOK' BY <1>t DEF AnswerPost, DiskOK
<1>5. CallsOK' BY <1>t DEF AnswerPost, CallsOK, copy
<1>6. Sessions' BY AnswerPostSessions
<1> QED BY <1>1, <1>2, <1>3, <1>4, <1>5, <1>6 DEF Types

LEMMA GetTypes ==
    ASSUME Types, Sessions, NEW c \in Conns, Get(c)
    PROVE  Types' /\ Sessions'
<1>t. ClientOK /\ BufferOK /\ UploadOK /\ DiskOK /\ CallsOK BY DEF Types
<1>1. ClientOK' BY <1>t, BeginsTypes, Small DEF Get, Kinds
<1>2. BufferOK' BY <1>t, OptimizeTypes, Made, Small DEF Get, Begins, At, Serving,
     ClientOK, Sizes, Targets
<1>3. UploadOK' BY <1>t DEF Get, UploadOK, client, buffer, upload, disk, calls, copy
<1>4. DiskOK' BY <1>t DEF Get, DiskOK, client, buffer, upload, disk, calls, copy
<1>5. CallsOK' BY <1>t DEF Get, CallsOK, client, buffer, upload, disk, calls, copy
<1>6. Sessions' BY <1>t, Small DEF Sessions, Session, Fresh, Goto, At, Serving,
     Get, Begins, OptimizeResponseString, Answers, Text, upload, copy, ClientOK,
     BufferOK, UploadOK, CallsOK
<1> QED BY <1>1, <1>2, <1>3, <1>4, <1>5, <1>6 DEF Types

LEMMA DeleteTypes ==
    ASSUME Types, Sessions, NEW c \in Conns, NEW i \in Targets,
           Delete(c, i)
    PROVE  Types' /\ Sessions'
<1>t. ClientOK /\ BufferOK /\ UploadOK /\ DiskOK /\ CallsOK BY DEF Types
<1>1. ClientOK' BY <1>t, BeginsTypes, Small DEF Delete, Kinds
<1>2. BufferOK' BY <1>t, OptimizeTypes, Made, Small DEF Delete, Begins, At,
     Serving, ClientOK, Sizes, Targets
<1>3. UploadOK' BY <1>t DEF Delete, UploadOK, client, buffer, upload, disk, calls,
     copy
<1>4. DiskOK' BY <1>t, NoFilesTypes DEF Delete, Remove, DiskOK, With
<1>5. CallsOK' BY <1>t, RemoveTypes, Made DEF Delete, DiskOK, CallsOK, copy
<1>6. Sessions' BY <1>t, Small DEF Sessions, Session, Fresh, Goto, At, Serving,
     Delete, Begins, OptimizeResponseString, Text, upload, copy, ClientOK,
     BufferOK, UploadOK, CallsOK
<1> QED BY <1>1, <1>2, <1>3, <1>4, <1>5, <1>6 DEF Types

LEMMA AnnounceTypes ==
    ASSUME Types, Sessions, NEW c \in Conns, NEW i \in Targets, NEW k \in {"put",
         "post"},
           Announce(c, k, i)
    PROVE  Types' /\ Sessions'
<1>t. ClientOK /\ BufferOK /\ UploadOK /\ DiskOK /\ CallsOK BY DEF Types
<1>1. ClientOK' BY <1>t, BeginsTypes, Small DEF Announce, Kinds
<1>2. BufferOK' BY <1>t DEF Announce, BufferOK, client, buffer, upload, disk,
     calls, copy
<1>3. UploadOK' BY <1>t DEF Announce, UploadOK, client, buffer, upload, disk,
     calls, copy
<1>4. DiskOK' BY <1>t DEF Announce, DiskOK, client, buffer, upload, disk, calls,
     copy
<1>5. CallsOK' BY <1>t DEF Announce, CallsOK, client, buffer, upload, disk, calls,
     copy
<1>6. Sessions' BY <1>t, Small DEF Sessions, Session, Fresh, Goto, At, Serving,
     Announce, Begins, upload, copy, buffer, NoRequest, ClientOK, BufferOK,
     UploadOK, CallsOK
<1> QED BY <1>1, <1>2, <1>3, <1>4, <1>5, <1>6 DEF Types

LEMMA CallUnknownTypes ==
    ASSUME Types, Sessions, NEW c \in Conns, CallUnknown(c)
    PROVE  Types' /\ Sessions'
<1>t. ClientOK /\ BufferOK /\ UploadOK /\ DiskOK /\ CallsOK BY DEF Types
<1>1. ClientOK' BY <1>t, Small, Made DEF CallUnknown, client, ClientOK, At,
     Serving, Requests, Kinds, Sizes, Targets
<1>2. BufferOK' BY <1>t DEF CallUnknown, BufferOK, client, buffer, upload, disk,
     calls, copy
<1>3. UploadOK' BY <1>t DEF CallUnknown, UploadOK, client, buffer, upload, disk,
     calls, copy
<1>4. DiskOK' BY <1>t DEF CallUnknown, DiskOK, client, buffer, upload, disk,
     calls, copy
<1>5. CallsOK' BY <1>t DEF CallUnknown, CallsOK, client, buffer, upload, disk,
     calls, copy
<1>6. Sessions' BY <1>t DEF Sessions, Session, Fresh, Goto, At, Serving,
     CallUnknown, client, upload, copy, buffer, ClientOK, BufferOK, UploadOK,
     CallsOK
<1> QED BY <1>1, <1>2, <1>3, <1>4, <1>5, <1>6 DEF Types

LEMMA CallTypes ==
    ASSUME Types, Sessions, NEW c \in Conns, NEW i \in Targets, NEW h \in Handlers,
           Call(c, i, h)
    PROVE  Types' /\ Sessions'
<1>t. ClientOK /\ BufferOK /\ UploadOK /\ DiskOK /\ CallsOK BY DEF Types
<1>1. ClientOK' BY <1>t, BeginsTypes, Small DEF Call, Kinds, GetResponse
<1>2. BufferOK' BY <1>t DEF Call, BufferOK, client, buffer, upload, disk, calls,
     copy
<1>3. UploadOK' BY <1>t, Small DEF Call, UploadOK, With, upload, Apps, DiskOK
<1>4. DiskOK' BY <1>t DEF Call, DiskOK, client, buffer, upload, disk, calls, copy
<1>5. CallsOK' BY <1>t, HandleTypes, Small DEF Call, With, Apps, DiskOK, Begins,
     At, Serving, ClientOK
<1>6. Sessions' BY <1>t, Small, ConnsAssumption DEF Sessions, Session, Fresh,
     Goto, At, Serving, Call, Begins, GetResponse, With, Apps, DiskOK, upload,
     buffer, ClientOK, BufferOK, UploadOK, CallsOK
<1> QED BY <1>1, <1>2, <1>3, <1>4, <1>5, <1>6 DEF Types

LEMMA SendTypes ==
    ASSUME Types, Sessions, NEW c \in Conns, NEW i \in Targets, NEW h \in Handlers,
           Send(c, i, h)
    PROVE  Types' /\ Sessions'
<1>t. ClientOK /\ BufferOK /\ UploadOK /\ DiskOK /\ CallsOK BY DEF Types
<1>1. ClientOK' BY <1>t, BeginsTypes, Small DEF Send, Kinds
<1>2. BufferOK' BY <1>t DEF Send, BufferOK, client, buffer, upload, disk, calls,
     copy
<1>3. UploadOK'
  <2>1. PICK n \in Targets : app' = [app EXCEPT ![c] = n]
    BY <1>t, Small DEF Send, With, Apps, DiskOK
  <2>2. UNCHANGED upload BY DEF Send
  <2> QED BY <1>t, <2>1, <2>2 DEF UploadOK, upload
<1>4. DiskOK' BY <1>t DEF Send, DiskOK, client, buffer, upload, disk, calls, copy
<1>5. CallsOK' BY <1>t DEF Send, CallsOK, client, buffer, upload, disk, calls, copy
<1>6. Sessions' BY <1>t, Small DEF Sessions, Session, Fresh, Goto, At, Serving,
     Send, Begins, upload, buffer, copy, ClientOK, BufferOK, UploadOK, CallsOK
<1> QED BY <1>1, <1>2, <1>3, <1>4, <1>5, <1>6 DEF Types

LEMMA PutBodyTypes ==
    ASSUME Types, Sessions, NEW c \in Conns,
           PutBody(c)
    PROVE  Types' /\ Sessions'
<1>t. ClientOK /\ BufferOK /\ UploadOK /\ DiskOK /\ CallsOK BY DEF Types
<1>1. ClientOK' BY <1>t DEF PutBody, ClientOK, client, buffer, upload, disk,
     calls, copy
<1>2. BufferOK' BY <1>t, Made, Small DEF PutBody, BufferOK, Targets, ClientOK,
     Requests, Sizes
<1>3. UploadOK' BY <1>t, BoundsAssumption DEF PutBody, UploadOK
<1>4. DiskOK' BY <1>t DEF PutBody, DiskOK, client, buffer, upload, disk, calls, copy
<1>5. CallsOK' BY <1>t DEF PutBody, CallsOK, client, buffer, upload, disk, calls,
     copy
<1>6. Sessions' BY <1>t DEF Sessions, Session, Fresh, Goto, At, Serving, PutBody,
     InBody, client, copy, ClientOK, BufferOK, UploadOK, CallsOK
<1> QED BY <1>1, <1>2, <1>3, <1>4, <1>5, <1>6 DEF Types

LEMMA PutDoneTypes ==
    ASSUME Types, Sessions, NEW c \in Conns,
           PutDone(c)
    PROVE  Types' /\ Sessions'
<1>t. ClientOK /\ BufferOK /\ UploadOK /\ DiskOK /\ CallsOK BY DEF Types
<1>1. ClientOK' BY <1>t DEF PutDone, ClientOK, Goto
<1>2. BufferOK' BY <1>t, OptimizeTypes, Made, Small DEF PutDone, ClientOK,
     Requests, Sizes, Targets
<1>3. UploadOK' BY <1>t DEF PutDone, UploadOK, client, buffer, upload, disk,
     calls, copy
<1>4. DiskOK' BY <1>t DEF PutDone, DiskOK, client, buffer, upload, disk, calls, copy
<1>5. CallsOK' BY <1>t DEF PutDone, CallsOK, client, buffer, upload, disk, calls,
     copy
<1>6. Sessions' BY <1>t DEF Sessions, Session, Fresh, Goto, At, Serving, PutDone,
     InBody, OptimizeResponseString, Text, upload, copy, ClientOK, BufferOK,
     UploadOK, CallsOK
<1> QED BY <1>1, <1>2, <1>3, <1>4, <1>5, <1>6 DEF Types

LEMMA OpenTypes ==
    ASSUME Types, Sessions, NEW c \in Conns, NEW f \in Files,
           Open(c, f) \/ OpenFails(c, f)
    PROVE  Types' /\ Sessions'
<1>t. ClientOK /\ BufferOK /\ UploadOK /\ DiskOK /\ CallsOK BY DEF Types
<1> USE DEF Opening, Open, OpenFails
<1>1. ClientOK' BY <1>t DEF ClientOK, client
<1>2. BufferOK' BY <1>t DEF BufferOK, buffer
<1>3. UploadOK' BY <1>t DEF UploadOK
<1>4. DiskOK'
  <2>1. Empty \in [1..Parts -> Pieces] BY Small DEF Empty, Hole, Pieces
  <2>2. CASE Open(c, f) BY <1>t, <2>1, <2>2 DEF DiskOK, Held
  <2>3. CASE OpenFails(c, f) BY <1>t, <2>3 DEF DiskOK
  <2> QED BY <2>2, <2>3
<1>5. CallsOK' BY <1>t DEF CallsOK, calls, copy
<1>6. Sessions' BY <1>t, ConnsAssumption DEF Sessions, Session, Fresh, At, Serving,
     InBody, client, buffer, copy, ClientOK, BufferOK, UploadOK, CallsOK
<1> QED BY <1>1, <1>2, <1>3, <1>4, <1>5, <1>6 DEF Types

LEMMA BadFieldTypes ==
    ASSUME Types, Sessions, NEW c \in Conns,
           BadField(c)
    PROVE  Types' /\ Sessions'
<1>t. ClientOK /\ BufferOK /\ UploadOK /\ DiskOK /\ CallsOK BY DEF Types
<1>1. ClientOK' BY <1>t DEF BadField, ClientOK, client, buffer, upload, disk,
     calls, copy
<1>2. BufferOK' BY <1>t DEF BadField, BufferOK, client, buffer, upload, disk,
     calls, copy
<1>3. UploadOK' BY <1>t DEF BadField, UploadOK
<1>4. DiskOK' BY <1>t DEF BadField, DiskOK, client, buffer, upload, disk, calls,
     copy
<1>5. CallsOK' BY <1>t DEF BadField, CallsOK, client, buffer, upload, disk, calls,
     copy
<1>6. Sessions' BY <1>t DEF Sessions, Session, Fresh, Goto, At, Serving, BadField,
     InBody, client, buffer, copy, ClientOK, BufferOK, UploadOK, CallsOK
<1> QED BY <1>1, <1>2, <1>3, <1>4, <1>5, <1>6 DEF Types

LEMMA ContentTypes ==
    ASSUME Types, Sessions, NEW c \in Conns, NEW last \in BOOLEAN,
           Content(c, last)
    PROVE  Types' /\ Sessions'
<1>t. ClientOK /\ BufferOK /\ UploadOK /\ DiskOK /\ CallsOK BY DEF Types
<1>1. ClientOK' BY <1>t DEF Content, ClientOK, client, buffer, upload, disk,
     calls, copy
<1>2. BufferOK' BY <1>t DEF Content, BufferOK, client, buffer, upload, disk,
     calls, copy
<1>3. UploadOK' BY <1>t, BoundsAssumption DEF Content, UploadOK
<1>4. DiskOK'
  <2>1. asked[c].n \in Numbers BY <1>t DEF ClientOK, Requests
  <2>2. sent' \subseteq Numbers /\ failed' \subseteq {"write", "extract", "remove"}
    BY <1>t, <2>1 DEF Content, DiskOK
  <2>3. temp' \in [Files -> [1..Parts -> Pieces]]
    <3>1. PICK p \in Pieces :
             temp' = IF fd[c] = "open"
                     THEN [temp EXCEPT ![name[c]][pos[c] + 1] = p] ELSE temp
      BY <2>1 DEF Content, Pieces
    <3>2. pos[c] + 1 \in 1..Parts /\ name[c] \in Files
      BY <1>t, BoundsAssumption DEF Content, UploadOK, Sessions, Session
    <3> QED BY <1>t, <3>1, <3>2 DEF DiskOK
  <2> QED BY <1>t, <2>2, <2>3 DEF Content, DiskOK
<1>5. CallsOK' BY <1>t DEF Content, CallsOK, client, buffer, upload, disk, calls,
     copy
<1>6. Sessions' BY <1>t DEF Sessions, Session, Fresh, Goto, At, Serving, Content,
     InBody, client, buffer, copy, ClientOK, BufferOK, UploadOK, CallsOK
<1> QED BY <1>1, <1>2, <1>3, <1>4, <1>5, <1>6 DEF Types

LEMMA PostRefusedTypes ==
    ASSUME Types, Sessions, NEW c \in Conns, PostRefused(c)
    PROVE  Types' /\ Sessions'
<1>1. UploadOK /\ DiskOK /\ CallsOK BY DEF Types
<1>2. InBody(c, "post") /\ AnswerPost(c, "short")
  BY DEF PostRefused, Done
<1>3. UNCHANGED <<fd, temp, code, failed, apps, later, resp, body>>
  BY DEF PostRefused
<1> QED BY <1>1, <1>2, <1>3, PostTypes DEF UploadOK, DiskOK, CallsOK

LEMMA PostNewTypes ==
    ASSUME Types, Sessions, NEW c \in Conns, NEW d \in Dirs, PostNew(c, d)
    PROVE  Types' /\ Sessions'
<1> DEFINE w == [id |-> asked[c].n, dir |-> d, by |-> asked[c].n]
<1>t. ClientOK /\ UploadOK /\ DiskOK /\ CallsOK BY DEF Types
<1>1. InBody(c, "post") BY DEF PostNew, Done
<1>2. PICK which \in Extents :
         /\ Unpack(c, d, which)
         /\ \/ Load(c, {a \in apps : a.dir = d}, {w})
            \/ AnswerPost(c, "short") /\ UNCHANGED <<apps, later, resp, body>>
  BY DEF PostNew
<1>3. {w} \in SUBSET Apps BY <1>t DEF Apps, ClientOK, Requests
<1> HIDE DEF w
<1>4. CASE Load(c, {a \in apps : a.dir = d}, {w})
  <2>1. /\ apps' \subseteq Apps /\ later' \subseteq Numbers \X Numbers
        /\ resp' \in [Numbers -> Texts] /\ body' \in [Numbers -> Texts]
        /\ \E size \in {"short", "long"} : AnswerPost(c, size)
    BY <1>t, <1>3, <1>4, LoadTypes DEF DiskOK
  <2> QED BY <1>t, <1>1, <1>2, <2>1, UnpackTypes, PostTypes
<1>5. CASE AnswerPost(c, "short") /\ UNCHANGED <<apps, later, resp, body>>
  <2>1. /\ apps' \subseteq Apps /\ later' \subseteq Numbers \X Numbers
        /\ resp' \in [Numbers -> Texts] /\ body' \in [Numbers -> Texts]
    BY <1>t, <1>5 DEF DiskOK, CallsOK
  <2> QED BY <1>t, <1>1, <1>2, <1>5, <2>1, UnpackTypes, PostTypes
<1> QED BY <1>2, <1>4, <1>5

\* An application loaded anew
LEMMA ReloadedTypes ==
    ASSUME Types, NEW c \in Conns, NEW a \in apps,
           Load(c, {a}, {[a EXCEPT !.by = asked[c].n]})
    PROVE  /\ apps' \subseteq Apps
           /\ resp' \in [Numbers -> Texts] /\ body' \in [Numbers -> Texts]
           /\ later' \subseteq Numbers \X Numbers
           /\ \E size \in {"short", "long"} : AnswerPost(c, size)
<1>t. ClientOK /\ DiskOK /\ CallsOK BY DEF Types
<1>1. a \in Apps /\ asked[c].n \in Numbers BY <1>t DEF DiskOK, ClientOK, Requests
<1>2. {[a EXCEPT !.by = asked[c].n]} \in SUBSET Apps BY <1>1 DEF Apps
<1> QED BY <1>t, <1>2, LoadTypes DEF DiskOK

LEMMA PostReloadTypes ==
    ASSUME Types, Sessions, NEW c \in Conns, PostReload(c)
    PROVE  Types' /\ Sessions'
<1>t. UploadOK /\ DiskOK BY DEF Types
<1>1. InBody(c, "post") BY DEF PostReload, Done
<1>2. PICK a \in With(asked[c].target), which \in Extents :
         /\ Unpack(c, a.dir, which)
         /\ Load(c, {a}, {[a EXCEPT !.by = asked[c].n]})
  BY DEF PostReload
<1>3. a \in apps /\ a.dir \in Dirs BY <1>t DEF With, DiskOK, Apps
<1>4. /\ temp' \in [Files -> [1..Parts -> Pieces]]
      /\ code' \in [Dirs -> Contents]
      /\ failed' \subseteq {"write", "extract", "remove"}
      /\ fd' \in [Conns -> {"closed", "open", "detached"}]
      /\ \A e \in Conns : fd'[e] = "closed" <=> fd[e] = "closed"
  BY <1>t, <1>2, <1>3, UnpackTypes
<1>5. /\ apps' \subseteq Apps
      /\ resp' \in [Numbers -> Texts] /\ body' \in [Numbers -> Texts]
      /\ later' \subseteq Numbers \X Numbers
      /\ \E size \in {"short", "long"} : AnswerPost(c, size)
  BY <1>2, <1>3, ReloadedTypes
<1> QED BY <1>1, <1>4, <1>5, PostTypes

LEMMA PostWithoutFileTypes ==
    ASSUME Types, Sessions, NEW c \in Conns, PostWithoutFile(c)
    PROVE  Types' /\ Sessions'
<1>t. UploadOK /\ DiskOK /\ CallsOK BY DEF Types
<1>1. InBody(c, "post") /\ UNCHANGED <<fd, temp, code, failed>>
  BY DEF PostWithoutFile, Done
<1>2. /\ apps' \subseteq Apps
      /\ resp' \in [Numbers -> Texts] /\ body' \in [Numbers -> Texts]
      /\ later' \subseteq Numbers \X Numbers
      /\ \E size \in {"short", "long"} : AnswerPost(c, size)
  <2>1. CASE \E a \in With(asked[c].target) :
                Load(c, {a}, {[a EXCEPT !.by = asked[c].n]})
    BY <2>1, ReloadedTypes DEF With
  <2>2. CASE AnswerPost(c, "short") /\ UNCHANGED <<apps, later, resp, body>>
    BY <1>t, <2>2 DEF DiskOK, CallsOK
  <2> QED BY <2>1, <2>2 DEF PostWithoutFile
<1> QED BY <1>t, <1>1, <1>2, PostTypes DEF UploadOK, DiskOK

LEMMA SendBodyTypes ==
    ASSUME Types, Sessions, NEW c \in Conns,
           SendBody(c)
    PROVE  Types' /\ Sessions'
<1>t. ClientOK /\ BufferOK /\ UploadOK /\ DiskOK /\ CallsOK BY DEF Types
<1>1. ClientOK' BY <1>t DEF SendBody, ClientOK, client, buffer, upload, disk,
     calls, copy
<1>2. BufferOK' BY <1>t DEF SendBody, BufferOK, client, buffer, upload, disk,
     calls, copy
<1>3. UploadOK' BY <1>t, BoundsAssumption DEF SendBody, UploadOK
<1>4. DiskOK' BY <1>t DEF SendBody, DiskOK, client, buffer, upload, disk, calls,
     copy
<1>5. CallsOK' BY <1>t DEF SendBody, CallsOK, client, buffer, upload, disk, calls,
     copy
<1>6. Sessions' BY <1>t DEF Sessions, Session, Fresh, Goto, At, Serving, SendBody,
     InBody, client, buffer, copy, ClientOK, BufferOK, UploadOK, CallsOK
<1> QED BY <1>1, <1>2, <1>3, <1>4, <1>5, <1>6 DEF Types

LEMMA SendDoneTypes ==
    ASSUME Types, Sessions, NEW c \in Conns,
           SendDone(c)
    PROVE  Types' /\ Sessions'
<1>t. ClientOK /\ BufferOK /\ UploadOK /\ DiskOK /\ CallsOK BY DEF Types
<1>1. ClientOK' BY <1>t DEF SendDone, ClientOK, Goto, GetResponse
<1>2. BufferOK' BY <1>t DEF SendDone, BufferOK, client, buffer, upload, disk,
     calls, copy
<1>3. UploadOK' BY <1>t DEF SendDone, UploadOK, client, buffer, upload, disk,
     calls, copy
<1>4. DiskOK' BY <1>t DEF SendDone, DiskOK, client, buffer, upload, disk, calls,
     copy
<1>5. CallsOK' BY <1>t, HandleTypes DEF SendDone, DiskOK, Apps, ClientOK, Requests
<1>6. Sessions' BY <1>t, ConnsAssumption DEF Sessions, Session, Fresh, Goto, At,
     Serving, SendDone, Apps, DiskOK, InBody, GetResponse, buffer, upload,
     ClientOK, BufferOK, UploadOK, CallsOK
<1> QED BY <1>1, <1>2, <1>3, <1>4, <1>5, <1>6 DEF Types

LEMMA SendDiesTypes ==
    ASSUME Types, Sessions, NEW c \in Conns,
           SendDies(c) \/ PostDies(c)
    PROVE  Types' /\ Sessions'
<1>t. ClientOK /\ BufferOK /\ UploadOK /\ DiskOK /\ CallsOK BY DEF Types
<1>1. ClientOK' BY <1>t DEF SendDies, PostDies, Done, ClientOK, client
<1>2. BufferOK' BY <1>t DEF SendDies, PostDies, Done, BufferOK, client, buffer,
     upload, disk, calls, copy
<1>3. UploadOK' BY <1>t DEF SendDies, PostDies, Done, UploadOK, client, buffer,
     upload, disk, calls, copy
<1>4. DiskOK' BY <1>t DEF SendDies, PostDies, Done, DiskOK, client, buffer,
     upload, disk, calls, copy
<1>5. CallsOK' BY <1>t DEF SendDies, PostDies, Done, CallsOK, client, buffer,
     upload, disk, calls, copy
<1>6. Sessions' BY <1>t DEF Sessions, Session, Fresh, Goto, At, Serving, SendDies,
     PostDies, Done, client, buffer, upload, copy, ClientOK, BufferOK, UploadOK,
     CallsOK
<1> QED BY <1>1, <1>2, <1>3, <1>4, <1>5, <1>6 DEF Types

LEMMA CopyDiesTypes ==
    ASSUME Types, Sessions, NEW c \in Conns,
           CopyDies(c)
    PROVE  Types' /\ Sessions'
<1>t. ClientOK /\ BufferOK /\ UploadOK /\ DiskOK /\ CallsOK BY DEF Types
<1>1. ClientOK' BY <1>t DEF CopyDies, ClientOK, client
<1>2. BufferOK' BY <1>t DEF CopyDies, BufferOK, client, buffer, upload, disk,
     calls, copy
<1>3. UploadOK' BY <1>t DEF CopyDies, UploadOK, client, buffer, upload, disk,
     calls, copy
<1>4. DiskOK' BY <1>t DEF CopyDies, DiskOK, client, buffer, upload, disk, calls,
     copy
<1>5. CallsOK' BY <1>t DEF CopyDies, CallsOK, client, buffer, upload, disk, calls,
     copy
<1>6. Sessions' BY <1>t DEF Sessions, Session, Fresh, Goto, At, Serving, CopyDies,
     client, buffer, upload, copy, ClientOK, BufferOK, UploadOK, CallsOK
<1> QED BY <1>1, <1>2, <1>3, <1>4, <1>5, <1>6 DEF Types

LEMMA DropTypes ==
    ASSUME Types, Sessions, NEW c \in Conns,
           Drop(c)
    PROVE  Types' /\ Sessions'
<1>t. ClientOK /\ BufferOK /\ UploadOK /\ DiskOK /\ CallsOK BY DEF Types
<1>1. ClientOK' BY <1>t, EndsTypes, Made DEF Drop
<1>2. BufferOK' BY <1>t, EndsTypes, Made DEF Drop
<1>3. UploadOK' BY <1>t, EndsTypes, Made DEF Drop
<1>4. DiskOK' BY <1>t DEF Drop, DiskOK, client, buffer, upload, disk, calls, copy
<1>5. CallsOK' BY <1>t DEF Drop, CallsOK, client, buffer, upload, disk, calls, copy
<1>6. Sessions' BY <1>t, ConnsAssumption DEF Sessions, Session, Fresh, Goto, At,
     Serving, Drop, Ends, NewSession, copy, ClientOK, BufferOK, UploadOK, CallsOK
<1> QED BY <1>1, <1>2, <1>3, <1>4, <1>5, <1>6 DEF Types

LEMMA EndsLaterTypes ==
    ASSUME Types, Sessions, NEW a \in Numbers, NEW n \in Numbers,
           EndsLater(a, n)
    PROVE  Types' /\ Sessions'
<1>t. ClientOK /\ BufferOK /\ UploadOK /\ DiskOK /\ CallsOK BY DEF Types
<1>1. ClientOK' BY <1>t DEF EndsLater, ClientOK, client, buffer, upload, disk,
     calls, copy
<1>2. BufferOK' BY <1>t DEF EndsLater, BufferOK, client, buffer, upload, disk,
     calls, copy
<1>3. UploadOK' BY <1>t DEF EndsLater, UploadOK, client, buffer, upload, disk,
     calls, copy
<1>4. DiskOK' BY <1>t DEF EndsLater, DiskOK, client, buffer, upload, disk, calls,
     copy
<1>5. CallsOK' BY <1>t, Made, Small DEF EndsLater, CallsOK, Targets, Sizes
<1>6. Sessions' BY <1>t DEF Sessions, Session, Fresh, Goto, At, Serving,
     EndsLater, client, buffer, upload, ClientOK, BufferOK, UploadOK, CallsOK
<1> QED BY <1>1, <1>2, <1>3, <1>4, <1>5, <1>6 DEF Types

LEMMA FaultsTypes ==
    ASSUME Types, Sessions,
           Faults
    PROVE  Types' /\ Sessions'
<1>t. ClientOK /\ BufferOK /\ UploadOK /\ DiskOK /\ CallsOK BY DEF Types
<1>1. ClientOK' BY <1>t DEF Faults, ClientOK, client
<1>2. BufferOK' BY <1>t DEF Faults, BufferOK, client, buffer, upload, disk, calls,
     copy
<1>3. UploadOK' BY <1>t DEF Faults, UploadOK, client, buffer, upload, disk, calls,
     copy
<1>4. DiskOK' BY <1>t DEF Faults, DiskOK, client, buffer, upload, disk, calls, copy
<1>5. CallsOK' BY <1>t DEF Faults, CallsOK, client, buffer, upload, disk, calls,
     copy
<1>6. Sessions' BY <1>t DEF Sessions, Session, Fresh, Goto, At, Serving, Faults,
     client, buffer, upload, copy, ClientOK, BufferOK, UploadOK, CallsOK
<1> QED BY <1>1, <1>2, <1>3, <1>4, <1>5, <1>6 DEF Types

LEMMA ReceivedTypes ==
    ASSUME Types, Sessions,
           Received
    PROVE  Types' /\ Sessions'
<1>t. ClientOK /\ BufferOK /\ UploadOK /\ DiskOK /\ CallsOK BY DEF Types
<1>1. ClientOK' BY <1>t, Made, Small DEF Received, ClientOK, client, Nothing,
     NoRequest, Requests, Kinds
<1>2. BufferOK' BY <1>t DEF Received, BufferOK, client, buffer, upload, disk,
     calls, copy
<1>3. UploadOK' BY <1>t DEF Received, UploadOK, client, buffer, upload, disk,
     calls, copy
<1>4. DiskOK' BY <1>t DEF Received, DiskOK, client, buffer, upload, disk, calls,
     copy
<1>5. CallsOK' BY <1>t DEF Received, CallsOK, client, buffer, upload, disk, calls,
     copy
<1>6. Sessions' BY <1>t DEF Sessions, Session, Fresh, Goto, At, Serving, Received,
     client, buffer, upload, copy, ClientOK, BufferOK, UploadOK, CallsOK
<1> QED BY <1>1, <1>2, <1>3, <1>4, <1>5, <1>6 DEF Types
LEMMA CopyTypes ==
    ASSUME Types, Sessions, NEW c \in Conns, Copy(c)
    PROVE  Types' /\ Sessions'
<1> USE DEF Types
<1>1. /\ reading = c /\ phase[c] = "copy" /\ app[c] \in Numbers
      /\ asked[c].kind \in {"call", "send"} /\ asked[c].n \in Numbers
  BY DEF Copy, Sessions, Session, ClientOK, Requests
<1>2. DiskOK' /\ CallsOK'
  BY DEF Copy, DiskOK, CallsOK, disk, calls
<1>3. PICK t \in Garbage(c) \cup {resp[app[c]]} :
         \/ /\ OptimizeResponseString(c, t) /\ Goto(c, "reply")
            /\ UNCHANGED <<asked, got, upload, app>>
         \/ /\ asked[c].kind = "call"
            /\ Ends(c, Text(asked[c].n, "answer", "short"))
         \/ /\ asked[c].kind = "send" /\ Goto(c, "stuck")
            /\ UNCHANGED <<asked, got, buffer, upload, app>>
  BY DEF Copy
<1>4. t \in Texts
  <2>1. Text(Null, "garbage", "short") \in Texts BY Made, Small DEF Sizes
  <2> QED BY <1>1, <2>1 DEF CallsOK, Garbage
<1>5. UNCHANGED <<up, count>> /\ reading' = NoConn /\ NoConn \notin Conns
  BY ConnsAssumption DEF Copy
<1> USE DEF Sessions, Session, Fresh, Goto
<1>6. CASE OptimizeResponseString(c, t) /\ Goto(c, "reply")
           /\ UNCHANGED <<asked, got, upload, app>>
  <2>1. BufferOK' BY <1>4, <1>6, OptimizeTypes
  <2>2. ClientOK' /\ UploadOK' BY <1>5, <1>6 DEF ClientOK, UploadOK, upload
  <2>3. Sessions'
    BY <1>1, <1>5, <1>6 DEF OptimizeResponseString, upload, ClientOK, BufferOK
  <2> QED BY <1>2, <2>1, <2>2, <2>3
<1>7. CASE Ends(c, Text(asked[c].n, "answer", "short"))
  <2>1. Text(asked[c].n, "answer", "short") \in Texts
    BY <1>1, Made, Small DEF Sizes
  <2>2. ClientOK' /\ BufferOK' /\ UploadOK' BY <1>5, <1>7, <2>1, EndsTypes
  <2>3. Sessions'
    BY <1>1, <1>5, <1>7 DEF Ends, NewSession, ClientOK, BufferOK, UploadOK
  <2> QED BY <1>2, <2>2, <2>3
<1>8. CASE asked[c].kind = "send" /\ Goto(c, "stuck")
           /\ UNCHANGED <<asked, got, buffer, upload, app>>
  <2>1. ClientOK' /\ BufferOK' /\ UploadOK'
    BY <1>5, <1>8 DEF ClientOK, BufferOK, UploadOK, buffer, upload
  <2>2. Sessions' BY <1>1, <1>5, <1>8 DEF buffer, upload, ClientOK
  <2> QED BY <1>2, <2>1, <2>2
<1> QED BY <1>3, <1>6, <1>7, <1>8

LEMMA WriteableTypes ==
    ASSUME Types, Sessions, NEW c \in Conns, Writeable(c)
    PROVE  Types' /\ Sessions'
<1> USE DEF Types, At, Serving
<1>1. DiskOK' /\ CallsOK' BY DEF Writeable, DiskOK, CallsOK, disk, calls, copy
<1>2. UNCHANGED <<up, count, reading>> /\ phase[c] = "reply" /\ reading # c
  BY ConnsAssumption DEF Writeable, copy
<1>3. Chosen(c) \in Texts /\ Cut(large[c]) \in Texts
  BY Made DEF Chosen, BufferOK
<1> USE DEF Sessions, Session, Fresh, Goto
<1>4. CASE len[c] = "none" /\ Goto(c, "stuck")
           /\ UNCHANGED <<asked, got, buffer, upload, app>>
  <2>1. ClientOK' /\ BufferOK' /\ UploadOK'
    BY <1>2, <1>4 DEF ClientOK, BufferOK, UploadOK, buffer, upload
  <2>2. asked[c].kind \in {"call", "send"} BY <1>2, <1>4
  <2>3. Sessions' BY <1>2, <1>4, <2>2 DEF buffer, upload, ClientOK
  <2> QED BY <1>1, <2>1, <2>3
<1>5. CASE idx' = [idx EXCEPT ![c] = 1]
           /\ UNCHANGED <<client, got, large, str, len, upload, app>>
  <2>1. ClientOK' /\ BufferOK' /\ UploadOK'
    BY <1>2, <1>5 DEF ClientOK, BufferOK, UploadOK, client, upload
  <2>2. Sessions' BY <1>2, <1>5 DEF client, upload, BufferOK
  <2> QED BY <1>1, <2>1, <2>2
<1>6. ASSUME NEW t \in Texts, Ends(c, t)
      PROVE  Types' /\ Sessions'
  <2>1. ClientOK' /\ BufferOK' /\ UploadOK' BY <1>2, <1>6, EndsTypes
  <2>2. Sessions'
    BY <1>2, <1>6 DEF Ends, NewSession, ClientOK, BufferOK, UploadOK
  <2> QED BY <1>1, <2>1, <2>2
<1> QED BY <1>3, <1>4, <1>5, <1>6 DEF Writeable

LEMMA TypesInit == Init => Types /\ Sessions
<1> SUFFICES ASSUME Init PROVE Types /\ Sessions
  OBVIOUS
<1>1. NoRequest \in Requests /\ Nothing \in [asked : Requests, text : Texts]
  BY Small, Made DEF NoRequest, Requests, Kinds, Nothing
<1>2. ClientOK BY <1>1, Small DEF Init, ClientOK
<1>3. BufferOK BY Made DEF Init, BufferOK, Sizes
<1>4. UploadOK BY Small, BoundsAssumption DEF Init, UploadOK
<1>5. DiskOK
  <2>1. apps \subseteq Apps
    <3>1. CASE apps = {} BY <3>1
    <3>2. ASSUME NEW d \in Dirs, apps = {[id |-> 0, dir |-> d, by |-> 0]}
          PROVE  apps \subseteq Apps
      BY <3>2, Small DEF Apps
    <3> QED BY <3>1, <3>2 DEF Init
  <2>2. temp \in [Files -> [1..Parts -> Pieces]]
    BY Small DEF Init, Empty, Hole, Pieces
  <2>3. [NoFiles EXCEPT !.top = 0, !.all = TRUE] \in Contents
    BY NoFilesTypes, Small DEF Contents
  <2>4. code \in [Dirs -> Contents] BY <2>3, NoFilesTypes DEF Init
  <2> QED BY <2>1, <2>2, <2>4, Small DEF Init, DiskOK
<1>6. CallsOK BY Made DEF Init, CallsOK
<1>7. Sessions BY ConnsAssumption DEF Init, Sessions, Session, Fresh
<1> QED BY <1>2, <1>3, <1>4, <1>5, <1>6, <1>7 DEF Types

LEMMA IdsAreTargets ==
    ASSUME DiskOK
    PROVE  Ids \subseteq Targets
BY Small DEF DiskOK, Ids, Apps

LEMMA TypesNext ==
    ASSUME Types, Sessions, [Next]_vars
    PROVE  Types' /\ Sessions'
<1>1. ASSUME NEW c \in Conns, Step(c)
      PROVE  Types' /\ Sessions'
  <2>1. Ids \cup {Null} \subseteq Targets BY IdsAreTargets, Small DEF Types
  <2>2. CASE Get(c) BY <2>2, GetTypes
  <2>3. ASSUME NEW i \in Ids \cup {Null}, Delete(c, i)
       PROVE  Types' /\ Sessions'
    BY <2>1, <2>3, DeleteTypes
  <2>4. CASE Announce(c, "put", Null) BY <2>1, <2>4, AnnounceTypes
  <2>5. ASSUME NEW i \in Ids \cup {Null}, Announce(c, "post", i)
       PROVE  Types' /\ Sessions'
    BY <2>1, <2>5, AnnounceTypes
  <2>6. ASSUME NEW i \in Ids \cup {Null}, NEW h \in Handlers, Call(c, i, h)
       PROVE  Types' /\ Sessions'
    BY <2>1, <2>6, CallTypes
  <2>7. ASSUME NEW i \in Ids \cup {Null}, NEW h \in Handlers, Send(c, i, h)
       PROVE  Types' /\ Sessions'
    BY <2>1, <2>7, SendTypes
  <2>8. CASE PutBody(c) BY <2>8, PutBodyTypes
  <2>9. CASE PutDone(c) BY <2>9, PutDoneTypes
  <2>10. ASSUME NEW f \in Files, Open(c, f) \/ OpenFails(c, f)
       PROVE  Types' /\ Sessions'
    BY <2>10, OpenTypes
  <2>11. CASE BadField(c) BY <2>11, BadFieldTypes
  <2>12. ASSUME NEW last \in BOOLEAN, Content(c, last)
       PROVE  Types' /\ Sessions'
    BY <2>1, <2>12, ContentTypes
  <2>13. CASE PostRefused(c) BY <2>13, PostRefusedTypes
  <2>14. ASSUME NEW d \in Dirs, PostNew(c, d)
       PROVE  Types' /\ Sessions'
    BY <2>1, <2>14, PostNewTypes
  <2>15. CASE PostReload(c) BY <2>15, PostReloadTypes
  <2>16. CASE SendBody(c) BY <2>16, SendBodyTypes
  <2>17. CASE SendDone(c) BY <2>17, SendDoneTypes
  <2>18. CASE SendDies(c) \/ PostDies(c) BY <2>18, SendDiesTypes
  <2>19. CASE CopyDies(c) BY <2>19, CopyDiesTypes
  <2>20. CASE Drop(c) BY <2>20, DropTypes
  <2>21. CASE Copy(c) BY <2>21, CopyTypes
  <2>22. CASE Writeable(c) BY <2>22, WriteableTypes
  <2>23. CASE CallUnknown(c) BY <2>23, CallUnknownTypes
  <2>24. CASE PostWithoutFile(c) BY <2>24, PostWithoutFileTypes
  <2>a. CASE \E i \in {Null} \cup Ids : Delete(c, i) \/ Announce(c, "post", i)
    BY <2>a, <2>3, <2>5
  <2>b. CASE \E i \in Ids, h \in Handlers : Call(c, i, h) \/ Send(c, i, h)
    BY <2>b, <2>6, <2>7
  <2>c. CASE \E f \in Files : Open(c, f) \/ OpenFails(c, f) BY <2>c, <2>10
  <2> QED BY <1>1, <2>a, <2>b, <2>c, <2>2, <2>4, <2>8, <2>9, <2>11, <2>12, <2>13,
     <2>14, <2>15, <2>16, <2>17, <2>18, <2>19, <2>20, <2>21, <2>22, <2>23, <2>24
     DEF Step
<1>2. ASSUME NEW a \in Numbers, NEW n \in Numbers, EndsLater(a, n)
      PROVE  Types' /\ Sessions'
  BY <1>2, EndsLaterTypes
<1>3. CASE Faults BY <1>3, FaultsTypes
<1>4. CASE Received BY <1>4, ReceivedTypes
<1>5. CASE UNCHANGED vars
  <2>1. ClientOK' /\ BufferOK' /\ UploadOK' /\ DiskOK' /\ CallsOK'
    BY <1>5 DEF Types, ClientOK, BufferOK, UploadOK, DiskOK, CallsOK, vars, buffer,
       upload, disk, calls, copy, client
  <2>2. Sessions'
    BY <1>5 DEF Sessions, Session, Fresh, vars, buffer, upload, copy, client
  <2> QED BY <2>1, <2>2 DEF Types
<1> QED BY <1>1, <1>2, <1>3, <1>4, <1>5 DEF Next

TypesInv == Types /\ Sessions

LEMMA TypesAlways == Spec => []TypesInv
<1>1. Init => TypesInv BY TypesInit DEF TypesInv
<1>2. TypesInv /\ [Next]_vars => TypesInv' BY TypesNext DEF TypesInv
<1> QED BY <1>1, <1>2, PTL DEF Spec

\* The types of all variables, for any constants
THEOREM TypeCorrect == Spec => []TypeOK
<1>1. TypesInv => TypeOK
  BY DEF TypesInv, Types, ClientOK, BufferOK, UploadOK, DiskOK, CallsOK, TypeOK
<1> QED BY <1>1, TypesAlways, PTL

\* A request to the server itself always has an answer of some length when its
\* session is to be written (http_request.cpp:19-25), whatever other connections
\* do between its headers, its body and its answer.
THEOREM NeverLeftAlways == Spec => []NeverLeft
<1>1. TypesInv => NeverLeft
  BY DEF TypesInv, Sessions, Session, NeverLeft
<1> QED BY <1>1, TypesAlways, PTL

-----------------------------------------------------------------------------
(* Answers: whose answer a session holds                                    *)

Sizes4 == {"none", "short", "long", "huge"}

\* The response being copied was made for the request, and so was the text
\* that is going to be written.
Own(c) ==
    /\ phase[c] = "copy" \/ (phase[c] = "body" /\ asked[c].kind = "send")
          => asked[c].handler \in Handlers
    /\ Prompt(asked[c]) =>
          /\ phase[c] = "copy" => resp[app[c]] \in Answers(asked[c].n, Sizes4)
          /\ phase[c] = "reply" =>
                Chosen(c).of = asked[c].n /\ Chosen(c).what = "answer"
Owns == \A c \in Conns : Own(c)

\* An end() can only come late when one was left to a timer.
History == (later # {} \/ freed) => deferred

AnswerInv == Owns /\ History /\ OwnAnswer

LEMMA NoneIsNoHandler == "none" \notin Handlers
BY HandlersAssumption

\* What a step leaves alone in the session of another connection
LEMMA OwnStays ==
    ASSUME NEW c \in Conns, Own(c), deferred => deferred',
           UNCHANGED <<phase[c], asked[c], large[c], str[c]>>,
           phase[c] = "copy" => UNCHANGED resp[app[c]]
    PROVE  Own(c)'
BY DEF Own, Prompt, Chosen

\* Texts that OptimizeResponseString and the answer to a POST put there
LEMMA OptimizeOwn ==
    ASSUME BufferOK, NEW c \in Conns, NEW n \in Targets, NEW t \in Texts,
           OptimizeResponseString(c, t), t.of = n, t.what = "answer"
    PROVE  Chosen(c)'.of = n /\ Chosen(c)'.what = "answer"
<1>1. t # Blank BY DEF Blank, Text
<1> QED BY <1>1 DEF BufferOK, OptimizeResponseString, Chosen

LEMMA AnswerPostOwn ==
    ASSUME BufferOK, NEW c \in Conns, NEW size \in {"short", "long"},
           AnswerPost(c, size)
    PROVE  Chosen(c)'.of = asked[c].n /\ Chosen(c)'.what = "answer"
BY DEF AnswerPost, BufferOK, Chosen, Text, Blank

LEMMA HandleOwn ==
    ASSUME Types, NEW c \in Conns, NEW a \in Numbers, NEW n \in Numbers,
           NEW h \in Handlers, GetResponse(c, a, n, h), h = "writes"
    PROVE  resp'[a] \in Answers(n, Sizes4)
BY DEF GetResponse, Handle, Types, CallsOK, Sizes4

LEMMA GetAnswers ==
    ASSUME TypesInv, AnswerInv, NEW c \in Conns, Get(c)
    PROVE  AnswerInv'
<1>ty. Types /\ Sessions BY DEF TypesInv
<1>t. ClientOK /\ BufferOK /\ UploadOK /\ DiskOK /\ CallsOK
  BY <1>ty DEF Types
<1>own. Own(c) /\ History /\ OwnAnswer /\ \A e \in Conns : Own(e)
  BY DEF AnswerInv, Owns
<1>s. count \in Numbers /\ count + 1 \in Numbers
  BY <1>t, Small DEF Get, Begins, At, Serving, Goto, ClientOK
<1>p. PICK t \in Answers(count + 1, {"short", "long", "huge"}) :
         OptimizeResponseString(c, t)
  BY DEF Get
<1>p1. count + 1 \in Targets /\ {"short", "long", "huge"} \in SUBSET Sizes
  BY <1>s, Small DEF Sizes
<1>p2. t \in Texts /\ t.of = count + 1 /\ t.what = "answer"
  <2>1. t \in Texts BY <1>p1, Made
  <2> QED BY <2>1 DEF Answers, Text
<1>p3. Chosen(c)'.of = count + 1 /\ Chosen(c)'.what = "answer"
  BY <1>t, <1>p, <1>p1, <1>p2, OptimizeOwn
<1>n. (\A e \in Conns : phase[e] # "copy") /\ got = Nothing
  BY <1>ty, ConnsAssumption DEF Get, Begins, InBody, At, Serving,
       Sessions, Session
<1>1. Own(c)'
  <2> QED BY <1>t, <1>p3 DEF Get, Begins, Goto, Own, ClientOK
<1>2. ASSUME NEW e \in Conns, e # c PROVE Own(e)'
  <2>a. UNCHANGED <<phase[e], asked[e], deferred>>
    BY <1>t, <1>2 DEF Get, Begins, Goto, ClientOK, calls
  <2>b. UNCHANGED <<large[e], str[e]>>
    BY <1>t, <1>p, <1>2 DEF OptimizeResponseString, BufferOK
  <2>1. UNCHANGED <<phase[e], asked[e], large[e], str[e]>>
        /\ (deferred => deferred')
    BY <2>a, <2>b
  <2> QED BY <1>own, <1>n, <1>2, <2>1, OwnStays
<1>3. History' BY <1>own, <1>t DEF History, Get, calls, copy
<1>4. OwnAnswer' BY <1>own, <1>n, <1>t DEF Get, OwnAnswer, Nothing, Get, Begins,
     Blank, Text, Prompt
<1> QED BY <1>1, <1>2, <1>3, <1>4 DEF AnswerInv, Owns

LEMMA DeleteAnswers ==
    ASSUME TypesInv, AnswerInv, NEW c \in Conns, NEW i \in Targets,
           Delete(c, i)
    PROVE  AnswerInv'
<1>ty. Types /\ Sessions BY DEF TypesInv
<1>t. ClientOK /\ BufferOK /\ UploadOK /\ DiskOK /\ CallsOK
  BY <1>ty DEF Types
<1>own. Own(c) /\ History /\ OwnAnswer /\ \A e \in Conns : Own(e)
  BY DEF AnswerInv, Owns
<1>s. count \in Numbers /\ count + 1 \in Numbers
  BY <1>t, Small DEF Delete, Begins, At, Serving, Goto, ClientOK
<1>n. (\A e \in Conns : phase[e] # "copy") /\ got = Nothing
  BY <1>ty, ConnsAssumption DEF Delete, Begins, InBody, At, Serving,
       Sessions, Session
<1>1. Own(c)'
  <2>2. Text(count + 1, "answer", "short") \in Texts /\ count + 1 \in Targets
    BY <1>s, Small, Made DEF Sizes
  <2>3. Chosen(c)'.of = count + 1 /\ Chosen(c)'.what = "answer"
    BY <1>t, <2>2, OptimizeOwn DEF Delete, Text
  <2> QED BY <1>t, <2>3 DEF Delete, Begins, Goto, Own, ClientOK
<1>2. ASSUME NEW e \in Conns, e # c PROVE Own(e)'
  <2>1. UNCHANGED <<phase[e], asked[e], large[e],
       str[e]>> /\ (deferred => deferred')
    BY <1>t, <1>2 DEF Delete, Begins, Goto, OptimizeResponseString, ClientOK,
         BufferOK
  <2> QED BY <1>own, <1>n, <1>2, <2>1, OwnStays
<1>3. History' BY <1>own, <1>t DEF History, Delete, copy, Remove
<1>4. OwnAnswer' BY <1>own, <1>n, <1>t DEF Delete, OwnAnswer, Nothing, Delete,
     Begins, Blank, Text, Prompt
<1> QED BY <1>1, <1>2, <1>3, <1>4 DEF AnswerInv, Owns

LEMMA AnnounceAnswers ==
    ASSUME TypesInv, AnswerInv, NEW c \in Conns, NEW i \in Targets,
         NEW k \in {"put", "post"},
           Announce(c, k, i)
    PROVE  AnswerInv'
<1>ty. Types /\ Sessions BY DEF TypesInv
<1>t. ClientOK /\ BufferOK /\ UploadOK /\ DiskOK /\ CallsOK
  BY <1>ty DEF Types
<1>own. Own(c) /\ History /\ OwnAnswer /\ \A e \in Conns : Own(e)
  BY DEF AnswerInv, Owns
<1>n. (\A e \in Conns : phase[e] # "copy") /\ got = Nothing
  BY <1>ty, ConnsAssumption DEF Announce, Begins, InBody, At, Serving,
       Sessions, Session
<1>1. Own(c)'
  BY <1>t DEF Announce, Begins, Goto, Own, ClientOK
<1>2. ASSUME NEW e \in Conns, e # c PROVE Own(e)'
  <2>1. UNCHANGED <<phase[e], asked[e], large[e],
       str[e]>> /\ (deferred => deferred')
    BY <1>t, <1>2 DEF Announce, Begins, Goto, buffer, calls, ClientOK, BufferOK
  <2> QED BY <1>own, <1>n, <1>2, <2>1, OwnStays
<1>3. History' BY <1>own, <1>t DEF History, Announce, calls, copy
<1>4. OwnAnswer' BY <1>own, <1>n, <1>t DEF Announce, OwnAnswer, Nothing, Begins,
     Blank, Text, Prompt
<1> QED BY <1>1, <1>2, <1>3, <1>4 DEF AnswerInv, Owns

LEMMA CallUnknownAnswers ==
    ASSUME TypesInv, AnswerInv, NEW c \in Conns, CallUnknown(c)
    PROVE  AnswerInv'
<1>ty. Types /\ Sessions BY DEF TypesInv
<1>t. ClientOK /\ BufferOK /\ UploadOK /\ DiskOK /\ CallsOK
  BY <1>ty DEF Types
<1>own. Own(c) /\ History /\ OwnAnswer /\ \A e \in Conns : Own(e)
  BY DEF AnswerInv, Owns
<1>n. (\A e \in Conns : phase[e] # "copy") /\ got = Nothing
  BY <1>ty, ConnsAssumption DEF CallUnknown, Begins, InBody, At,
       Serving, Sessions, Session
<1>1. Own(c)'
  BY <1>t, <1>own DEF CallUnknown, Own, Prompt, Chosen, client, buffer, calls, At
<1>2. ASSUME NEW e \in Conns, e # c PROVE Own(e)'
  <2>1. UNCHANGED <<phase[e], asked[e], large[e],
       str[e]>> /\ (deferred => deferred')
    BY <1>t, <1>2 DEF CallUnknown, Begins, Goto, client, buffer, calls, ClientOK,
         BufferOK
  <2> QED BY <1>own, <1>n, <1>2, <2>1, OwnStays
<1>3. History' BY <1>own, <1>t DEF History, CallUnknown, calls, copy
<1>4. OwnAnswer' BY <1>own, <1>n, <1>t DEF CallUnknown, OwnAnswer, Nothing, Text,
     Prompt, Blank, Text, Prompt
<1> QED BY <1>1, <1>2, <1>3, <1>4 DEF AnswerInv, Owns

LEMMA CallAnswers ==
    ASSUME TypesInv, AnswerInv, NEW c \in Conns, NEW i \in Targets,
         NEW h \in Handlers,
           Call(c, i, h)
    PROVE  AnswerInv'
<1>ty. Types /\ Sessions BY DEF TypesInv
<1>t. ClientOK /\ BufferOK /\ UploadOK /\ DiskOK /\ CallsOK
  BY <1>ty DEF Types
<1>own. Own(c) /\ History /\ OwnAnswer /\ \A e \in Conns : Own(e)
  BY DEF AnswerInv, Owns
<1>s. count \in Numbers /\ count + 1 \in Numbers
  BY <1>t, Small DEF Call, Begins, At, Serving, Goto, ClientOK
<1>n. (\A e \in Conns : phase[e] # "copy") /\ got = Nothing
  BY <1>ty, ConnsAssumption DEF Call, Begins, InBody, At, Serving,
       Sessions, Session
<1>1. Own(c)'
  <2>1. PICK a \in With(i) : /\ app' = [app EXCEPT ![c] = a.by]
                             /\ GetResponse(c, a.by, count + 1, h)
    BY DEF Call
  <2>2. a.by \in Numbers /\ count + 1 \in Numbers
    BY <1>t, <1>s, <2>1 DEF With, DiskOK, Apps
  <2>3. h = "writes" => resp'[a.by] \in Answers(count + 1, Sizes4)
    BY <1>ty, <2>1, <2>2, HandleOwn
  <2>4. asked'[c].n = count + 1 /\ asked'[c].handler = h /\ app'[c] = a.by
        /\ phase'[c] = "copy"
    BY <1>t, <2>1 DEF Call, Begins, GetResponse, Goto, ClientOK, UploadOK
  <2> QED BY <2>3, <2>4, NoneIsNoHandler DEF Own, Prompt
<1>2. ASSUME NEW e \in Conns, e # c PROVE Own(e)'
  <2>1. UNCHANGED <<phase[e], asked[e], large[e],
       str[e]>> /\ (deferred => deferred')
    BY <1>t, <1>2 DEF Call, Begins, Goto, buffer, GetResponse, Handle, calls,
         ClientOK, BufferOK
  <2> QED BY <1>own, <1>n, <1>2, <2>1, OwnStays
<1>3. History' BY <1>own, <1>t DEF History, Call, GetResponse, Handle, calls
<1>4. OwnAnswer' BY <1>own, <1>n, <1>t DEF Call, OwnAnswer, Nothing, Begins,
     Blank, Text, Prompt
<1> QED BY <1>1, <1>2, <1>3, <1>4 DEF AnswerInv, Owns

LEMMA SendAnswers ==
    ASSUME TypesInv, AnswerInv, NEW c \in Conns, NEW i \in Targets,
         NEW h \in Handlers,
           Send(c, i, h)
    PROVE  AnswerInv'
<1>ty. Types /\ Sessions BY DEF TypesInv
<1>t. ClientOK /\ BufferOK /\ UploadOK /\ DiskOK /\ CallsOK
  BY <1>ty DEF Types
<1>own. Own(c) /\ History /\ OwnAnswer /\ \A e \in Conns : Own(e)
  BY DEF AnswerInv, Owns
<1>n. (\A e \in Conns : phase[e] # "copy") /\ got = Nothing
  BY <1>ty, ConnsAssumption DEF Send, Begins, InBody, At, Serving,
       Sessions, Session
<1>1. Own(c)'
  BY <1>t DEF Send, Begins, Goto, Own, ClientOK
<1>2. ASSUME NEW e \in Conns, e # c PROVE Own(e)'
  <2>1. UNCHANGED <<phase[e], asked[e], large[e],
       str[e]>> /\ (deferred => deferred')
    BY <1>t, <1>2 DEF Send, Begins, Goto, buffer, calls, ClientOK, BufferOK
  <2> QED BY <1>own, <1>n, <1>2, <2>1, OwnStays
<1>3. History' BY <1>own, <1>t DEF History, Send, calls, copy
<1>4. OwnAnswer' BY <1>own, <1>n, <1>t DEF Send, OwnAnswer, Nothing, Begins,
     Blank, Text, Prompt
<1> QED BY <1>1, <1>2, <1>3, <1>4 DEF AnswerInv, Owns

LEMMA PutBodyAnswers ==
    ASSUME TypesInv, AnswerInv, NEW c \in Conns,
           PutBody(c)
    PROVE  AnswerInv'
<1>ty. Types /\ Sessions BY DEF TypesInv
<1>t. ClientOK /\ BufferOK /\ UploadOK /\ DiskOK /\ CallsOK
  BY <1>ty DEF Types
<1>own. Own(c) /\ History /\ OwnAnswer /\ \A e \in Conns : Own(e)
  BY DEF AnswerInv, Owns
<1>n. (\A e \in Conns : phase[e] # "copy") /\ got = Nothing
  BY <1>ty, ConnsAssumption DEF PutBody, Begins, InBody, At, Serving,
       Sessions, Session
<1>1. Own(c)'
  BY <1>t, <1>own DEF PutBody, InBody, At, Own, Prompt, client
<1>2. ASSUME NEW e \in Conns, e # c PROVE Own(e)'
  <2>1. UNCHANGED <<phase[e], asked[e], large[e],
       str[e]>> /\ (deferred => deferred')
    BY <1>t, <1>2 DEF PutBody, Begins, Goto, InBody, client, calls, ClientOK,
         BufferOK
  <2> QED BY <1>own, <1>n, <1>2, <2>1, OwnStays
<1>3. History' BY <1>own, <1>t DEF History, PutBody, calls, copy
<1>4. OwnAnswer' BY <1>own, <1>n, <1>t DEF PutBody, OwnAnswer, Nothing, client,
     Blank, Text, Prompt
<1> QED BY <1>1, <1>2, <1>3, <1>4 DEF AnswerInv, Owns

LEMMA PutDoneAnswers ==
    ASSUME TypesInv, AnswerInv, NEW c \in Conns,
           PutDone(c)
    PROVE  AnswerInv'
<1>ty. Types /\ Sessions BY DEF TypesInv
<1>t. ClientOK /\ BufferOK /\ UploadOK /\ DiskOK /\ CallsOK
  BY <1>ty DEF Types
<1>own. Own(c) /\ History /\ OwnAnswer /\ \A e \in Conns : Own(e)
  BY DEF AnswerInv, Owns
<1>n. (\A e \in Conns : phase[e] # "copy") /\ got = Nothing
  BY <1>ty, ConnsAssumption DEF PutDone, Begins, InBody, At, Serving,
       Sessions, Session
<1>1. Own(c)'
  <2>1. Text(asked[c].n, "answer", "short") \in Texts /\ asked[c].n \in Targets
    BY <1>t, Small, Made DEF Sizes, ClientOK, Requests
  <2>2. Chosen(c)'.of = asked[c].n /\ Chosen(c)'.what = "answer"
    BY <1>t, <2>1, OptimizeOwn DEF PutDone, Text
  <2> QED BY <1>t, <2>2 DEF PutDone, Goto, Own, ClientOK
<1>2. ASSUME NEW e \in Conns, e # c PROVE Own(e)'
  <2>1. UNCHANGED <<phase[e], asked[e], large[e],
       str[e]>> /\ (deferred => deferred')
    BY <1>t, <1>2 DEF PutDone, Begins, Goto, InBody, OptimizeResponseString,
         calls, ClientOK, BufferOK
  <2> QED BY <1>own, <1>n, <1>2, <2>1, OwnStays
<1>3. History' BY <1>own, <1>t DEF History, PutDone, calls, copy
<1>4. OwnAnswer' BY <1>own, <1>n, <1>t DEF PutDone, OwnAnswer, Nothing, Blank,
     Text, Prompt
<1> QED BY <1>1, <1>2, <1>3, <1>4 DEF AnswerInv, Owns

\* Steps that leave every session as it is
LEMMA QuietAnswers ==
    ASSUME TypesInv, AnswerInv, UNCHANGED <<client, large, str>>, History',
           deferred => deferred', OwnAnswer',
           deferred' \/ UNCHANGED <<resp, app>>
    PROVE  AnswerInv'
<1> SUFFICES ASSUME NEW e \in Conns PROVE Own(e)'
  BY DEF AnswerInv, Owns
<1> QED BY DEF AnswerInv, Owns, Own, Prompt, Chosen, client

LEMMA OpenAnswers ==
    ASSUME TypesInv, AnswerInv, NEW c \in Conns, NEW f \in Files,
           Open(c, f) \/ OpenFails(c, f)
    PROVE  AnswerInv'
<1>1. UNCHANGED <<client, large, str, deferred, later, freed, got, app, resp>>
  BY DEF Open, OpenFails, Opening, buffer, calls, copy
<1>2. History' /\ OwnAnswer'
  BY <1>1 DEF AnswerInv, History, OwnAnswer, Prompt
<1> QED BY <1>1, <1>2, QuietAnswers

LEMMA BadFieldAnswers ==
    ASSUME TypesInv, AnswerInv, NEW c \in Conns,
           BadField(c)
    PROVE  AnswerInv'
<1>ty. Types /\ Sessions BY DEF TypesInv
<1>t. ClientOK /\ BufferOK /\ UploadOK /\ DiskOK /\ CallsOK
  BY <1>ty DEF Types
<1>own. Own(c) /\ History /\ OwnAnswer /\ \A e \in Conns : Own(e)
  BY DEF AnswerInv, Owns
<1>n. (\A e \in Conns : phase[e] # "copy") /\ got = Nothing
  BY <1>ty, ConnsAssumption DEF BadField, Begins, InBody, At, Serving,
       Sessions, Session
<1>1. Own(c)'
  BY <1>t, <1>own DEF BadField, InBody, At, Own, Prompt, client, calls, buffer
<1>2. ASSUME NEW e \in Conns, e # c PROVE Own(e)'
  <2>1. UNCHANGED <<phase[e], asked[e], large[e],
       str[e]>> /\ (deferred => deferred')
    BY <1>t, <1>2 DEF BadField, Begins, Goto, InBody, client, buffer, calls,
         ClientOK, BufferOK
  <2> QED BY <1>own, <1>n, <1>2, <2>1, OwnStays
<1>3. History' BY <1>own, <1>t DEF History, BadField, calls, copy
<1>4. OwnAnswer' BY <1>own, <1>n, <1>t DEF BadField, OwnAnswer, Nothing, client,
     Blank, Text, Prompt
<1> QED BY <1>1, <1>2, <1>3, <1>4 DEF AnswerInv, Owns

LEMMA ContentAnswers ==
    ASSUME TypesInv, AnswerInv, NEW c \in Conns, NEW last \in BOOLEAN,
           Content(c, last)
    PROVE  AnswerInv'
<1>ty. Types /\ Sessions BY DEF TypesInv
<1>t. ClientOK /\ BufferOK /\ UploadOK /\ DiskOK /\ CallsOK
  BY <1>ty DEF Types
<1>own. Own(c) /\ History /\ OwnAnswer /\ \A e \in Conns : Own(e)
  BY DEF AnswerInv, Owns
<1>n. (\A e \in Conns : phase[e] # "copy") /\ got = Nothing
  BY <1>ty, ConnsAssumption DEF Content, Begins, InBody, At, Serving,
       Sessions, Session
<1>1. Own(c)'
  BY <1>t, <1>own DEF Content, InBody, At, Own, Prompt, client, calls, buffer
<1>2. ASSUME NEW e \in Conns, e # c PROVE Own(e)'
  <2>1. UNCHANGED <<phase[e], asked[e], large[e],
       str[e]>> /\ (deferred => deferred')
    BY <1>t, <1>2 DEF Content, Begins, Goto, InBody, client, buffer, calls,
         ClientOK, BufferOK
  <2> QED BY <1>own, <1>n, <1>2, <2>1, OwnStays
<1>3. History' BY <1>own, <1>t DEF History, Content, calls, copy
<1>4. OwnAnswer' BY <1>own, <1>n, <1>t DEF Content, OwnAnswer, Nothing, client,
     Blank, Text, Prompt
<1> QED BY <1>1, <1>2, <1>3, <1>4 DEF AnswerInv, Owns

LEMMA SendBodyAnswers ==
    ASSUME TypesInv, AnswerInv, NEW c \in Conns,
           SendBody(c)
    PROVE  AnswerInv'
<1>ty. Types /\ Sessions BY DEF TypesInv
<1>t. ClientOK /\ BufferOK /\ UploadOK /\ DiskOK /\ CallsOK
  BY <1>ty DEF Types
<1>own. Own(c) /\ History /\ OwnAnswer /\ \A e \in Conns : Own(e)
  BY DEF AnswerInv, Owns
<1>n. (\A e \in Conns : phase[e] # "copy") /\ got = Nothing
  BY <1>ty, ConnsAssumption DEF SendBody, Begins, InBody, At, Serving,
       Sessions, Session
<1>1. Own(c)'
  BY <1>t, <1>own DEF SendBody, InBody, At, Own, Prompt, client, calls, buffer
<1>2. ASSUME NEW e \in Conns, e # c PROVE Own(e)'
  <2>1. UNCHANGED <<phase[e], asked[e], large[e],
       str[e]>> /\ (deferred => deferred')
    BY <1>t, <1>2 DEF SendBody, Begins, Goto, InBody, client, buffer, calls,
         ClientOK, BufferOK
  <2> QED BY <1>own, <1>n, <1>2, <2>1, OwnStays
<1>3. History' BY <1>own, <1>t DEF History, SendBody, calls, copy
<1>4. OwnAnswer' BY <1>own, <1>n, <1>t DEF SendBody, OwnAnswer, Nothing, client,
     Blank, Text, Prompt
<1> QED BY <1>1, <1>2, <1>3, <1>4 DEF AnswerInv, Owns

\* The end of an upload, however it is answered
LEMMA PostAnswers ==
    ASSUME TypesInv, AnswerInv, NEW c \in Conns, NEW size \in {"short", "long"},
           InBody(c, "post"), AnswerPost(c, size), later' \subseteq later
    PROVE  AnswerInv'
<1>ty. Types /\ Sessions BY DEF TypesInv
<1>t. ClientOK /\ BufferOK BY <1>ty DEF Types
<1>own. Own(c) /\ History /\ OwnAnswer /\ \A e \in Conns : Own(e)
  BY DEF AnswerInv, Owns
<1>n. (\A e \in Conns : phase[e] # "copy") /\ got = Nothing
  BY <1>ty, ConnsAssumption DEF InBody, At, Serving, Sessions, Session
<1>1. Own(c)'
  <2>1. Chosen(c)'.of = asked[c].n /\ Chosen(c)'.what = "answer"
    BY <1>t, AnswerPostOwn
  <2> QED BY <1>t, <2>1 DEF AnswerPost, Goto, Own, ClientOK
<1>2. ASSUME NEW e \in Conns, e # c PROVE Own(e)'
  <2>1. UNCHANGED <<phase[e], asked[e], large[e],
       str[e]>> /\ (deferred => deferred')
    BY <1>t, <1>2 DEF Goto, AnswerPost, ClientOK, BufferOK
  <2> QED BY <1>own, <1>n, <1>2, <2>1, OwnStays
<1>3. History' BY <1>own DEF History, AnswerPost, copy
<1>4. OwnAnswer' BY <1>own, <1>n DEF OwnAnswer, Nothing, AnswerPost, Blank, Text,
     Prompt
<1> QED BY <1>1, <1>2, <1>3, <1>4 DEF AnswerInv, Owns

LEMMA LoadAnswers ==
    ASSUME TypesInv, AnswerInv, NEW c \in Conns, InBody(c, "post"), NEW gone,
           NEW new, Load(c, gone, new)
    PROVE  AnswerInv'
<1>1. later' \subseteq later BY DEF Load, Remove
<1>2. AnswerPost(c, "long") BY DEF Load
<1> QED BY <1>1, <1>2, PostAnswers

LEMMA PostRefusedAnswers ==
    ASSUME TypesInv, AnswerInv, NEW c \in Conns, PostRefused(c)
    PROVE  AnswerInv'
BY PostAnswers DEF PostRefused, Done

LEMMA PostNewAnswers ==
    ASSUME TypesInv, AnswerInv, NEW c \in Conns, NEW d \in Dirs, PostNew(c, d)
    PROVE  AnswerInv'
<1>1. InBody(c, "post") BY DEF PostNew, Done
<1>2. CASE \E gone, new : Load(c, gone, new) BY <1>1, <1>2, LoadAnswers
<1>3. CASE AnswerPost(c, "short") /\ UNCHANGED later BY <1>1, <1>3, PostAnswers
<1> QED BY <1>2, <1>3 DEF PostNew

LEMMA PostReloadAnswers ==
    ASSUME TypesInv, AnswerInv, NEW c \in Conns, PostReload(c)
    PROVE  AnswerInv'
<1>1. InBody(c, "post") /\ \E gone, new : Load(c, gone, new)
  BY DEF PostReload, Done
<1> QED BY <1>1, LoadAnswers

LEMMA PostWithoutFileAnswers ==
    ASSUME TypesInv, AnswerInv, NEW c \in Conns, PostWithoutFile(c)
    PROVE  AnswerInv'
<1>1. InBody(c, "post") BY DEF PostWithoutFile, Done
<1>2. CASE \E gone, new : Load(c, gone, new) BY <1>1, <1>2, LoadAnswers
<1>3. CASE AnswerPost(c, "short") /\ UNCHANGED later BY <1>1, <1>3, PostAnswers
<1> QED BY <1>2, <1>3 DEF PostWithoutFile

LEMMA SendDoneAnswers ==
    ASSUME TypesInv, AnswerInv, NEW c \in Conns,
           SendDone(c)
    PROVE  AnswerInv'
<1>ty. Types /\ Sessions BY DEF TypesInv
<1>t. ClientOK /\ BufferOK /\ UploadOK /\ DiskOK /\ CallsOK
  BY <1>ty DEF Types
<1>own. Own(c) /\ History /\ OwnAnswer /\ \A e \in Conns : Own(e)
  BY DEF AnswerInv, Owns
<1>n. (\A e \in Conns : phase[e] # "copy") /\ got = Nothing
  BY <1>ty, ConnsAssumption DEF SendDone, Begins, InBody, At, Serving,
       Sessions, Session
<1>1. Own(c)'
  <2>1. app[c] \in Numbers /\ asked[c].n \in Numbers
       /\ asked[c].handler \in Handlers
    BY <1>t, <1>own DEF SendDone, DiskOK, Apps, ClientOK, Requests, Own, InBody, At
  <2>2. asked[c].handler = "writes" =>
           resp'[app[c]] \in Answers(asked[c].n, Sizes4)
    BY <1>ty, <2>1, HandleOwn DEF SendDone
  <2>3. phase'[c] = "copy" BY <1>t DEF SendDone, GetResponse, Goto, ClientOK
  <2> QED BY <2>1, <2>2, <2>3, NoneIsNoHandler DEF Own, Prompt, SendDone
<1>2. ASSUME NEW e \in Conns, e # c PROVE Own(e)'
  <2>1. UNCHANGED <<phase[e], asked[e], large[e],
       str[e]>> /\ (deferred => deferred')
    BY <1>t, <1>2 DEF SendDone, Begins, Goto, InBody, GetResponse, Handle, calls,
         buffer, ClientOK, BufferOK
  <2> QED BY <1>own, <1>n, <1>2, <2>1, OwnStays
<1>3. History' BY <1>own, <1>t DEF History, SendDone, GetResponse, Handle, calls
<1>4. OwnAnswer' BY <1>own, <1>n, <1>t DEF SendDone, OwnAnswer, Nothing, Blank,
     Text, Prompt
<1> QED BY <1>1, <1>2, <1>3, <1>4 DEF AnswerInv, Owns

LEMMA SendDiesAnswers ==
    ASSUME TypesInv, AnswerInv, NEW c \in Conns,
           SendDies(c) \/ PostDies(c)
    PROVE  AnswerInv'
<1>ty. Types /\ Sessions BY DEF TypesInv
<1>t. ClientOK /\ BufferOK /\ UploadOK /\ DiskOK /\ CallsOK
  BY <1>ty DEF Types
<1>own. Own(c) /\ History /\ OwnAnswer /\ \A e \in Conns : Own(e)
  BY DEF AnswerInv, Owns
<1>n. (\A e \in Conns : phase[e] # "copy") /\ got = Nothing
  BY <1>ty, ConnsAssumption DEF SendDies, PostDies, Done, Begins, InBody, At, Serving,
       Sessions, Session
<1>1. Own(c)'
  BY <1>own, OwnStays DEF SendDies, PostDies, Done, client, buffer, calls
<1>2. ASSUME NEW e \in Conns, e # c PROVE Own(e)'
  <2>1. UNCHANGED <<phase[e], asked[e], large[e],
       str[e]>> /\ (deferred => deferred')
    BY <1>t, <1>2 DEF SendDies, PostDies, Done, Begins, Goto, client, buffer,
      calls, ClientOK, BufferOK
  <2> QED BY <1>own, <1>n, <1>2, <2>1, OwnStays
<1>3. History' BY <1>own, <1>t DEF History, SendDies, PostDies, calls, copy
<1>4. OwnAnswer' BY <1>own, <1>n, <1>t DEF SendDies, PostDies, Done, OwnAnswer,
     Nothing, client, calls, Blank, Text, Prompt
<1> QED BY <1>1, <1>2, <1>3, <1>4 DEF AnswerInv, Owns

LEMMA CopyDiesAnswers ==
    ASSUME TypesInv, AnswerInv, NEW c \in Conns,
           CopyDies(c)
    PROVE  AnswerInv'
<1>ty. Types /\ Sessions BY DEF TypesInv
<1>t. ClientOK /\ BufferOK /\ UploadOK /\ DiskOK /\ CallsOK
  BY <1>ty DEF Types
<1>own. Own(c) /\ History /\ OwnAnswer /\ \A e \in Conns : Own(e)
  BY DEF AnswerInv, Owns
<1>1. Own(c)'
  BY <1>own, OwnStays DEF CopyDies, client, buffer, calls
<1>2. ASSUME NEW e \in Conns, e # c PROVE Own(e)'
  <2>1. UNCHANGED <<phase[e], asked[e], large[e],
       str[e]>> /\ (deferred => deferred')
    BY <1>t, <1>2 DEF CopyDies, Begins, Goto, client, buffer, calls, ClientOK,
         BufferOK
  <2> QED BY <1>own, <1>2, <2>1, OwnStays DEF CopyDies, calls
<1>3. History' BY <1>own, <1>t DEF History, CopyDies, calls, copy
<1>4. OwnAnswer' BY <1>own, <1>t DEF CopyDies, OwnAnswer, Nothing, client, calls,
     Blank, Text, Prompt
<1> QED BY <1>1, <1>2, <1>3, <1>4 DEF AnswerInv, Owns

LEMMA DropAnswers ==
    ASSUME TypesInv, AnswerInv, NEW c \in Conns,
           Drop(c)
    PROVE  AnswerInv'
<1>ty. Types /\ Sessions BY DEF TypesInv
<1>t. ClientOK /\ BufferOK /\ UploadOK /\ DiskOK /\ CallsOK
  BY <1>ty DEF Types
<1>own. Own(c) /\ History /\ OwnAnswer /\ \A e \in Conns : Own(e)
  BY DEF AnswerInv, Owns
<1>n. (\A e \in Conns : phase[e] # "copy") /\ got = Nothing
  BY <1>ty, ConnsAssumption DEF Drop, Begins, InBody, At, Serving,
       Sessions, Session
<1>1. Own(c)'
  BY <1>t DEF Drop, Ends, Goto, Own, ClientOK
<1>2. ASSUME NEW e \in Conns, e # c PROVE Own(e)'
  <2>1. UNCHANGED <<phase[e], asked[e], large[e],
       str[e]>> /\ (deferred => deferred')
    BY <1>t, <1>2 DEF Drop, Begins, Goto, Ends, NewSession, calls, ClientOK,
         BufferOK
  <2> QED BY <1>own, <1>n, <1>2, <2>1, OwnStays
<1>3. History' BY <1>own, <1>t DEF History, Drop, calls, copy
<1>4. OwnAnswer' BY <1>own, <1>n, <1>t DEF Drop, OwnAnswer, Nothing, Ends, Blank,
     Text, Prompt
<1> QED BY <1>1, <1>2, <1>3, <1>4 DEF AnswerInv, Owns
LEMMA CopyAnswers ==
    ASSUME TypesInv, AnswerInv, NEW c \in Conns, Copy(c)
    PROVE  AnswerInv'
<1>ty. Types /\ Sessions BY DEF TypesInv
<1>t. ClientOK /\ BufferOK /\ UploadOK /\ DiskOK /\ CallsOK
  BY <1>ty DEF Types
<1>own. Own(c) /\ History /\ OwnAnswer /\ \A e \in Conns : Own(e)
  BY DEF AnswerInv, Owns
<1>1. /\ reading = c /\ phase[c] = "copy" /\ app[c] \in Numbers
      /\ asked[c].n \in Numbers
      /\ UNCHANGED <<deferred, later, resp>> /\ freed' = FALSE
  BY <1>ty, <1>t DEF Copy, Sessions, Session, ClientOK, Requests, calls
<1>2. PICK t \in IF freed THEN Garbage(c) ELSE {resp[app[c]]} :
         \/ /\ OptimizeResponseString(c, t) /\ Goto(c, "reply")
            /\ UNCHANGED <<asked, got, upload, app>>
         \/ Ends(c, Text(asked[c].n, "answer", "short"))
         \/ /\ Goto(c, "stuck")
            /\ UNCHANGED <<asked, got, buffer, upload, app>>
  BY DEF Copy
<1>3. History' BY <1>own, <1>1 DEF History
<1>4. OwnAnswer'
  BY <1>own, <1>1, <1>2 DEF OwnAnswer, Prompt, Ends, Text
<1>5. ASSUME NEW e \in Conns, e # c PROVE Own(e)'
  <2>1. UNCHANGED <<phase[e], asked[e], large[e], str[e]>>
    BY <1>t, <1>2, <1>5 DEF Goto, Ends, NewSession, OptimizeResponseString, buffer,
       ClientOK, BufferOK
  <2>2. phase[e] # "copy" BY <1>ty, <1>1, <1>5 DEF Sessions, Session
  <2> QED BY <1>own, <1>1, <1>5, <2>1, <2>2, OwnStays
<1>6. Own(c)'
  <2>1. CASE OptimizeResponseString(c, t) /\ Goto(c, "reply")
             /\ UNCHANGED <<asked, got, upload, app>>
    <3>1. phase'[c] = "reply" /\ asked' = asked
      BY <1>t, <2>1 DEF Goto, ClientOK
    <3>2. ASSUME Prompt(asked[c])
          PROVE  Chosen(c)'.of = asked[c].n /\ Chosen(c)'.what = "answer"
      <4>1. t \in Answers(asked[c].n, Sizes4)
        BY <1>own, <1>1, <1>2, <3>2 DEF Own, Prompt, History
      <4>2. asked[c].n \in Targets /\ Sizes4 \in SUBSET Sizes
        BY <1>1, Small DEF Sizes4, Sizes
      <4>3. t \in Texts BY <4>1, <4>2, Made
      <4>4. t.of = asked[c].n /\ t.what = "answer" BY <4>1 DEF Answers, Text
      <4> QED BY <1>t, <2>1, <4>2, <4>3, <4>4, OptimizeOwn
    <3> QED BY <1>1, <3>1, <3>2 DEF Own, Prompt
  <2>2. CASE Ends(c, Text(asked[c].n, "answer", "short"))
    BY <1>t, <2>2 DEF Ends, Goto, Own, ClientOK
  <2>3. CASE Goto(c, "stuck") /\ UNCHANGED <<asked, got, buffer, upload, app>>
    BY <1>t, <2>3 DEF Goto, Own, ClientOK
  <2> QED BY <1>2, <2>1, <2>2, <2>3
<1> QED BY <1>3, <1>4, <1>5, <1>6 DEF AnswerInv, Owns

LEMMA WriteableAnswers ==
    ASSUME TypesInv, AnswerInv, NEW c \in Conns, Writeable(c)
    PROVE  AnswerInv'
<1>ty. Types /\ Sessions BY DEF TypesInv
<1>t. ClientOK /\ BufferOK /\ UploadOK /\ DiskOK /\ CallsOK
  BY <1>ty DEF Types
<1>own. Own(c) /\ History /\ OwnAnswer /\ \A e \in Conns : Own(e)
  BY DEF AnswerInv, Owns
<1>1. /\ phase[c] = "reply" /\ got = Nothing
      /\ UNCHANGED <<deferred, later, freed, resp>>
  BY DEF Writeable, At, Serving, calls, copy
<1>2. \/ /\ Goto(c, "stuck") /\ UNCHANGED <<asked, got, buffer, upload, app>>
      \/ /\ UNCHANGED <<client, got, large, str, len, upload, app>>
      \/ /\ large[c].size = "huge" /\ Ends(c, Cut(large[c]))
      \/ Ends(c, Chosen(c))
  BY DEF Writeable
<1>3. History' BY <1>own, <1>1 DEF History
<1>4. Prompt(asked[c]) =>
         Chosen(c).of = asked[c].n /\ Chosen(c).what = "answer"
  BY <1>own, <1>1 DEF Own
<1>5. OwnAnswer'
  <2>1. CASE UNCHANGED got BY <1>1, <2>1 DEF OwnAnswer
  <2>2. CASE large[c].size = "huge" /\ Ends(c, Cut(large[c]))
    <3>1. large[c] # Blank BY <2>2 DEF Blank, Text
    <3>2. Cut(large[c]).of = large[c].of /\ Cut(large[c]).what = "part"
          /\ Cut(large[c]).size = "huge"
      BY <1>t, <2>2 DEF Cut, BufferOK, Texts
    <3> QED BY <1>1, <1>4, <2>2, <3>1, <3>2
        DEF OwnAnswer, Ends, Prompt, Chosen
  <2>3. CASE Ends(c, Chosen(c))
    BY <1>1, <1>4, <2>3 DEF OwnAnswer, Ends, Prompt
  <2> QED BY <1>2, <2>1, <2>2, <2>3
<1>6. ASSUME NEW e \in Conns, e # c PROVE Own(e)'
  <2>1. UNCHANGED <<phase[e], asked[e], large[e], str[e]>>
    BY <1>t, <1>2, <1>6 DEF Goto, Ends, NewSession, buffer, client, ClientOK,
         BufferOK
  <2>2. phase[e] # "copy"
    BY <1>ty, ConnsAssumption DEF Writeable, At, Serving, Sessions, Session
  <2> QED BY <1>own, <1>1, <1>6, <2>1, <2>2, OwnStays
<1>7. Own(c)'
  <2>1. CASE UNCHANGED <<client, got, large, str, len, upload, app>>
    BY <1>own, <1>1, <2>1, OwnStays DEF client
  <2>2. CASE phase' = [phase EXCEPT ![c] = "stuck"]
    BY <1>t, <2>2 DEF Own, ClientOK
  <2>3. CASE phase' = [phase EXCEPT ![c] = "idle"]
    BY <1>t, <2>3 DEF Own, ClientOK
  <2> QED BY <1>2, <2>1, <2>2, <2>3 DEF Ends, Goto
<1> QED BY <1>3, <1>5, <1>6, <1>7 DEF AnswerInv, Owns

LEMMA AnswersInit == Init => AnswerInv
BY DEF Init, AnswerInv, Owns, Own, History, OwnAnswer

LEMMA AnswersNext ==
    ASSUME TypesInv, AnswerInv, [Next]_vars
    PROVE  AnswerInv'
<1>t. History /\ OwnAnswer /\ DiskOK
  BY DEF AnswerInv, TypesInv, Types
<1>1. ASSUME NEW c \in Conns, Step(c)
      PROVE  AnswerInv'
  <2>1. Ids \cup {Null} \subseteq Targets BY <1>t, IdsAreTargets, Small
  <2>2. CASE Get(c) BY <2>2, GetAnswers
  <2>3. ASSUME NEW i \in Ids \cup {Null}, Delete(c, i)
       PROVE  AnswerInv'
    BY <2>1, <2>3, DeleteAnswers
  <2>4. CASE Announce(c, "put", Null) BY <2>1, <2>4, AnnounceAnswers
  <2>5. ASSUME NEW i \in Ids \cup {Null}, Announce(c, "post", i)
       PROVE  AnswerInv'
    BY <2>1, <2>5, AnnounceAnswers
  <2>6. ASSUME NEW i \in Ids \cup {Null}, NEW h \in Handlers, Call(c, i, h)
       PROVE  AnswerInv'
    BY <2>1, <2>6, CallAnswers
  <2>7. ASSUME NEW i \in Ids \cup {Null}, NEW h \in Handlers, Send(c, i, h)
       PROVE  AnswerInv'
    BY <2>1, <2>7, SendAnswers
  <2>8. CASE PutBody(c) BY <2>8, PutBodyAnswers
  <2>9. CASE PutDone(c) BY <2>9, PutDoneAnswers
  <2>10. ASSUME NEW f \in Files, Open(c, f) \/ OpenFails(c, f)
       PROVE  AnswerInv'
    BY <2>10, OpenAnswers
  <2>11. CASE BadField(c) BY <2>11, BadFieldAnswers
  <2>12. ASSUME NEW last \in BOOLEAN, Content(c, last)
       PROVE  AnswerInv'
    BY <2>1, <2>12, ContentAnswers
  <2>13. CASE PostRefused(c) BY <2>13, PostRefusedAnswers
  <2>14. ASSUME NEW d \in Dirs, PostNew(c, d)
       PROVE  AnswerInv'
    BY <2>1, <2>14, PostNewAnswers
  <2>15. CASE PostReload(c) BY <2>15, PostReloadAnswers
  <2>16. CASE SendBody(c) BY <2>16, SendBodyAnswers
  <2>17. CASE SendDone(c) BY <2>17, SendDoneAnswers
  <2>18. CASE SendDies(c) \/ PostDies(c) BY <2>18, SendDiesAnswers
  <2>19. CASE CopyDies(c) BY <2>19, CopyDiesAnswers
  <2>20. CASE Drop(c) BY <2>20, DropAnswers
  <2>21. CASE Copy(c) BY <2>21, CopyAnswers
  <2>22. CASE Writeable(c) BY <2>22, WriteableAnswers
  <2>23. CASE CallUnknown(c) BY <2>23, CallUnknownAnswers
  <2>24. CASE PostWithoutFile(c) BY <2>24, PostWithoutFileAnswers
  <2>a. CASE \E i \in {Null} \cup Ids : Delete(c, i) \/ Announce(c, "post", i)
    BY <2>a, <2>3, <2>5
  <2>b. CASE \E i \in Ids, h \in Handlers : Call(c, i, h) \/ Send(c, i, h)
    BY <2>b, <2>6, <2>7
  <2>c. CASE \E f \in Files : Open(c, f) \/ OpenFails(c, f) BY <2>c, <2>10
  <2> QED BY <1>1, <2>a, <2>b, <2>c, <2>2, <2>4, <2>8, <2>9, <2>11, <2>12, <2>13,
     <2>14, <2>15, <2>16, <2>17, <2>18, <2>19, <2>20, <2>21, <2>22, <2>23, <2>24
     DEF Step
<1>2. ASSUME NEW a \in Numbers, NEW n \in Numbers, EndsLater(a, n)
      PROVE  AnswerInv'
  <2>1. deferred /\ deferred' BY <1>t, <1>2 DEF EndsLater, History
  <2>2. History' /\ OwnAnswer'
    BY <1>t, <1>2, <2>1 DEF EndsLater, History, OwnAnswer, Prompt
  <2> QED BY <1>2, <2>1, <2>2, QuietAnswers DEF EndsLater, buffer
<1>3. CASE Faults
  <2>1. History' /\ OwnAnswer'
    BY <1>t, <1>3 DEF Faults, History, OwnAnswer, Prompt, calls, copy
  <2> QED BY <1>3, <2>1, QuietAnswers DEF Faults, buffer, calls
<1>4. CASE Received
  <2>1. History' /\ OwnAnswer'
    BY <1>t, <1>4 DEF Received, History, OwnAnswer, calls, copy
  <2> QED BY <1>4, <2>1, QuietAnswers DEF Received, buffer, calls
<1>5. CASE UNCHANGED vars
  <2>1. History' /\ OwnAnswer'
    BY <1>t, <1>5 DEF vars, History, OwnAnswer, Prompt, calls, copy
  <2> QED BY <1>5, <2>1, QuietAnswers DEF vars, buffer, calls
<1> QED BY <1>1, <1>2, <1>3, <1>4, <1>5 DEF Next

\* However the requests of any number of clients interleave, a client gets the
\* answer that was made for its own request (http_request.cpp:18-62,
\* app_request.cpp:124-160), unless the application has left an end() to a timer
\* or its handler does not answer.
THEOREM OwnAnswerAlways == Spec => []OwnAnswer
<1>1. TypesInv /\ AnswerInv /\ [Next]_vars => AnswerInv' BY AnswersNext
<1>2. AnswerInv => OwnAnswer BY DEF AnswerInv
<1> QED BY <1>1, <1>2, AnswersInit, TypesAlways, PTL DEF Spec

-----------------------------------------------------------------------------
(* Uploads: which pieces are in which file, and which archive became what   *)

\* Requests are numbered as they come; pieces, applications and the files of
\* directories bear the number of the request they came with.
Numbered ==
    /\ \A c \in Conns : asked[c].n <= count
    /\ \A c, e \in Conns : c # e /\ asked[c].n # 0 => asked[c].n # asked[e].n
    /\ \A f \in Files, i \in 1..Parts : /\ temp[f][i][1] <= count
                                        /\ temp[f][i][2] = "last" =>
                                              temp[f][i][1] # 0
    /\ \A a \in apps : a.by <= count
    /\ \A d \in Dirs : code[d].top <= count
    /\ \A n \in sent : n <= count

\* A request whose body is arriving has made no application yet, only the file it
\* has opened begins with a piece of it, and when that has come to its end it is
\* closed. No application that there is came out of a file that is still in the
\* folder, unless one could not be removed.
Unused ==
    /\ \A c \in Conns, a \in apps : phase[c] = "body" => a.by # asked[c].n
    /\ \A c \in Conns, f \in Files :
          phase[c] = "body" /\ Writer(temp[f]) = asked[c].n => f = name[c]
    /\ \A c \in Conns : phase[c] = "body" /\ asked[c].n \in sent =>
          fd[c] = "closed" /\ name[c] # "none" /\ pos[c] # 0
    /\ "remove" \notin failed => \A f \in Files, a \in apps :
          Writer(temp[f]) # 0 => a.by # Writer(temp[f])

\* A directory belongs to one application.
Apart == \A a, b \in apps : a.dir = b.dir => a = b

\* What the i-th piece of the file of c may be
Last(n)  == <<n, "last">>
Other(n) == <<n, "more">>
Torn(n)  == <<n, "torn">>
Kept(c, i) ==
    IF i > pos[c] THEN {Hole}
    ELSE {IF i = pos[c] /\ fd[c] = "closed" THEN Last(asked[c].n)
                                            ELSE Other(asked[c].n)}
         \cup (IF "write" \in failed THEN {Torn(asked[c].n)} ELSE {})

\* Connection c has opened a file, and its form has no error so far.
Sending(c) == phase[c] = "body" /\ name[c] # "none" /\ ~err[c]

\* Without clashes a file has the pieces of the one request that has opened it,
\* and nothing of that has got into a directory yet.
Separate ==
    /\ \A c, e \in Conns : c # e /\ Sending(c) /\ Sending(e) => name[c] # name[e]
    /\ \A c \in Conns : phase[c] = "body" => fd[c] # "detached"
    /\ \A c \in Conns : Sending(c) =>
          \A i \in 1..Parts : temp[name[c]][i] \in Kept(c, i)
    /\ \A c \in Conns, d \in Dirs : phase[c] = "body" => code[d].top # asked[c].n

\* The files under an application are all of its upload's.
Complete(a) == code[a.dir].top \in sent =>
                  /\ code[a.dir].all
                  /\ a.by \in sent => code[a.dir].top = a.by
NoFailure == "write" \notin failed /\ "extract" \notin failed
Intact == NoFailure => \A a \in apps : Complete(a)

UploadInv == /\ Numbered /\ Unused /\ Apart
             /\ ~clash => Separate /\ Intact

\* What a step may do to a connection that has no part in an upload
Stays(c)  == /\ UNCHANGED <<phase[c], asked[c], name[c], fd[c]>>
             /\ name[c] # "none" => UNCHANGED pos[c]
             /\ err[c] => err'[c]
Leaves(c) == /\ phase'[c] # "body"
             /\ asked'[c].n \in {0, asked[c].n}
Enters(c) == /\ asked'[c].n = count + 1 /\ count' = count + 1
             /\ name'[c] = "none" /\ fd'[c] # "detached"

LEMMA Integral ==
    ASSUME TypesInv
    PROVE  /\ count \in Int /\ 0 <= count
           /\ \A e \in Conns : asked[e].n \in Int /\ asked[e].n # Null
           /\ \A a \in apps : a.by \in Int
           /\ \A f \in Files, i \in 1..Parts : temp[f][i][1] \in Int
           /\ \A d \in Dirs : code[d].top \in Int
           /\ \A n \in sent : n \in Int
<1>t. ClientOK /\ DiskOK BY DEF TypesInv, Types
<1>1. count \in Int /\ 0 <= count BY <1>t, Small DEF ClientOK, Numbers
<1>2. \A e \in Conns : asked[e].n \in Int /\ asked[e].n # Null
  <2>1. \A e \in Conns : asked[e].n \in Numbers BY <1>t DEF ClientOK, Requests
  <2> QED BY <2>1, Small
<1>3. \A a \in apps : a.by \in Int BY <1>t, Small DEF DiskOK, Apps
<1>4. ASSUME NEW f \in Files, NEW i \in 1..Parts
      PROVE  temp[f][i][1] \in Int
  <2>1. temp[f][i] \in Pieces BY <1>t DEF DiskOK
  <2> QED BY <2>1, Small DEF Pieces
<1>5. ASSUME NEW d \in Dirs
      PROVE  code[d].top \in Int
  <2>1. code[d] \in Contents BY <1>t DEF DiskOK
  <2>2. code[d].top \in Targets BY <2>1 DEF Contents
  <2> QED BY <2>2, Small
<1>6. \A n \in sent : n \in Int BY <1>t, Small DEF DiskOK
<1> QED BY <1>1, <1>2, <1>3, <1>4, <1>5, <1>6

\* Such steps do not touch what uploads rely on.
LEMMA QuietUploads ==
    ASSUME TypesInv, UploadInv, NEW c \in Conns,
           Stays(c) \/ Leaves(c) \/ Enters(c),
           \A e \in Conns \ {c} : Stays(e),
           UNCHANGED <<temp, clash, sent, failed>>, count' \in {count, count + 1},
           apps' \subseteq apps,
           \A d \in Dirs : code'[d].top \in {code[d].top, Null},
           \A a \in apps' : code'[a.dir] = code[a.dir]
    PROVE  UploadInv'
<1> USE DEF UploadInv
<1>t. /\ count \in Int /\ 0 <= count
      /\ \A e \in Conns : asked[e].n \in Int /\ asked[e].n # Null
      /\ \A a \in apps : a.by \in Int
      /\ \A f \in Files, i \in 1..Parts : temp[f][i][1] \in Int
      /\ \A d \in Dirs : code[d].top \in Int
      /\ \A n \in sent : n \in Int
  BY Integral
<1>f. "none" \notin Files /\ 1 \in 1..Parts BY ConnsAssumption, Small
<1>1. Numbered'
  <2>1. \A e \in Conns : asked'[e].n <= count'
    <3>1. \A e \in Conns : Stays(e) => asked'[e].n <= count'
      BY <1>t DEF Numbered, Stays
    <3>2. Leaves(c) => asked'[c].n <= count' BY <1>t DEF Numbered, Leaves
    <3>3. Enters(c) => asked'[c].n <= count' BY <1>t DEF Enters
    <3> QED BY <3>1, <3>2, <3>3
  <2>2. \A e, g \in Conns : e # g /\ asked'[e].n # 0 => asked'[e].n # asked'[g].n
    <3> SUFFICES ASSUME NEW e \in Conns, NEW g \in Conns, e # g, asked'[e].n # 0
                 PROVE  asked'[e].n # asked'[g].n
      OBVIOUS
    <3>1. CASE Enters(c) BY <1>t, <3>1 DEF Numbered, Stays, Enters
    <3>2. CASE Stays(c) \/ Leaves(c) BY <1>t, <3>2 DEF Numbered, Stays, Leaves
    <3> QED BY <3>1, <3>2
  <2>3. \A f \in Files, i \in 1..Parts :
           temp'[f][i][1] <= count' /\ (temp'[f][i][2] = "last" =>
                                           temp'[f][i][1] # 0)
    BY <1>t DEF Numbered
  <2>4. \A a \in apps' : a.by <= count' BY <1>t DEF Numbered
  <2>5. \A d \in Dirs : code'[d].top <= count' BY <1>t DEF Numbered, Null
  <2>6. \A n \in sent' : n <= count' BY <1>t DEF Numbered
  <2> QED BY <2>1, <2>2, <2>3, <2>4, <2>5, <2>6 DEF Numbered
<1>2. Unused'
  <2>1. \A e \in Conns, a \in apps' : phase'[e] = "body" => a.by # asked'[e].n
    BY <1>t DEF Unused, Numbered, Stays, Leaves, Enters
  <2>2. \A e \in Conns, f \in Files :
           phase'[e] = "body" /\ Writer(temp'[f]) = asked'[e].n => f = name'[e]
    BY <1>t, <1>f DEF Unused, Numbered, Stays, Leaves, Enters, Writer
  <2>3. "remove" \notin failed' => \A f \in Files, a \in apps' :
           Writer(temp'[f]) # 0 => a.by # Writer(temp'[f])
    BY DEF Unused, Writer
  <2>4. ASSUME NEW e \in Conns, phase'[e] = "body", asked'[e].n \in sent'
        PROVE  fd'[e] = "closed" /\ name'[e] # "none" /\ pos'[e] # 0
    <3>1. Stays(e) BY <1>t, <2>4 DEF Numbered, Leaves, Enters
    <3> QED BY <2>4, <3>1 DEF Unused, Stays
  <2> QED BY <2>1, <2>2, <2>3, <2>4 DEF Unused, Writer
<1>3. Apart' BY DEF Apart
<1>4. ASSUME ~clash PROVE Separate' /\ Intact'
  <2>1. Intact' BY <1>4 DEF Intact, Complete, NoFailure
  <2>2. \A e \in Conns : phase'[e] = "body" => fd'[e] # "detached"
    BY <1>4 DEF Separate, Stays, Leaves, Enters
  <2>3. \A e \in Conns :
           Sending(e)' => Sending(e) /\ UNCHANGED <<name[e], pos[e], fd[e], asked[e]>>
    BY DEF Sending, Stays, Leaves, Enters
  <2>4. \A e, g \in Conns : e # g /\ Sending(e)' /\ Sending(g)' =>
           name'[e] # name'[g]
    BY <1>4, <2>3 DEF Separate
  <2>5. ASSUME NEW e \in Conns, Sending(e)', NEW i \in 1..Parts
        PROVE  temp'[name'[e]][i] \in Kept(e, i)'
    <3>1. Kept(e, i)' = Kept(e, i) BY <2>3, <2>5 DEF Kept
    <3>2. temp[name[e]][i] \in Kept(e, i) BY <1>4, <2>3, <2>5 DEF Separate
    <3> QED BY <2>3, <2>5, <3>1, <3>2
  <2>6. \A e \in Conns, d \in Dirs : phase'[e] = "body" => code'[d].top # asked'[e].n
    BY <1>t, <1>4 DEF Separate, Numbered, Stays, Leaves, Enters, Null
  <2> QED BY <2>1, <2>2, <2>4, <2>5, <2>6 DEF Separate, Sending
<1> QED BY <1>1, <1>2, <1>3, <1>4

LEMMA GetUploads ==
    ASSUME TypesInv, UploadInv, NEW c \in Conns, Get(c)
    PROVE  UploadInv'
<1>t. ClientOK /\ UploadOK /\ Session(c)
  BY DEF TypesInv, Types, Sessions
<1>1. Enters(c)
  BY <1>t, Small DEF Get, Stays, Leaves, Enters, Session, Fresh, Begins, upload,
       disk, At, Serving, Goto, ClientOK, UploadOK
<1>2. \A e \in Conns \ {c} : Stays(e)
  BY <1>t DEF Get, Stays, Begins, upload, disk, At, Serving, Goto, ClientOK,
       UploadOK
<1>3. /\ UNCHANGED <<temp, clash, sent, failed, apps, code>>
      /\ count' \in {count, count + 1}
  BY DEF Get, Begins, upload, disk, At, Serving
<1> QED BY <1>1, <1>2, <1>3, QuietUploads

LEMMA AnnounceUploads ==
    ASSUME TypesInv, UploadInv, NEW c \in Conns, NEW i \in Targets,
         NEW k \in {"put", "post"},
           Announce(c, k, i)
    PROVE  UploadInv'
<1>t. ClientOK /\ UploadOK /\ Session(c)
  BY DEF TypesInv, Types, Sessions
<1>1. Enters(c)
  BY <1>t, Small DEF Announce, Stays, Leaves, Enters, Session, Fresh, Begins,
       upload, disk, At, Serving, Goto, ClientOK, UploadOK
<1>2. \A e \in Conns \ {c} : Stays(e)
  BY <1>t DEF Announce, Stays, Begins, upload, disk, At, Serving, Goto, ClientOK,
       UploadOK
<1>3. /\ UNCHANGED <<temp, clash, sent, failed, apps, code>>
      /\ count' \in {count, count + 1}
  BY DEF Announce, Begins, upload, disk, At, Serving
<1> QED BY <1>1, <1>2, <1>3, QuietUploads

LEMMA CallUploads ==
    ASSUME TypesInv, UploadInv, NEW c \in Conns, NEW i \in Targets,
         NEW h \in Handlers,
           Call(c, i, h)
    PROVE  UploadInv'
<1>t. ClientOK /\ UploadOK /\ Session(c)
  BY DEF TypesInv, Types, Sessions
<1>1. Enters(c)
  BY <1>t, Small DEF Call, Stays, Leaves, Enters, Session, Fresh, Begins, upload,
       disk, GetResponse, At, Serving, Goto, ClientOK, UploadOK
<1>2. \A e \in Conns \ {c} : Stays(e)
  BY <1>t DEF Call, Stays, Begins, upload, disk, GetResponse, At, Serving, Goto,
       ClientOK, UploadOK
<1>3. /\ UNCHANGED <<temp, clash, sent, failed, apps, code>>
      /\ count' \in {count, count + 1}
  BY DEF Call, Begins, upload, disk, GetResponse, At, Serving
<1> QED BY <1>1, <1>2, <1>3, QuietUploads

LEMMA SendUploads ==
    ASSUME TypesInv, UploadInv, NEW c \in Conns, NEW i \in Targets,
         NEW h \in Handlers,
           Send(c, i, h)
    PROVE  UploadInv'
<1>t. ClientOK /\ UploadOK /\ Session(c)
  BY DEF TypesInv, Types, Sessions
<1>1. Enters(c)
  BY <1>t, Small DEF Send, Stays, Leaves, Enters, Session, Fresh, Begins, upload,
       disk, At, Serving, Goto, ClientOK, UploadOK
<1>2. \A e \in Conns \ {c} : Stays(e)
  BY <1>t DEF Send, Stays, Begins, upload, disk, At, Serving, Goto, ClientOK,
       UploadOK
<1>3. /\ UNCHANGED <<temp, clash, sent, failed, apps, code>>
      /\ count' \in {count, count + 1}
  BY DEF Send, Begins, upload, disk, At, Serving
<1> QED BY <1>1, <1>2, <1>3, QuietUploads

LEMMA CallUnknownUploads ==
    ASSUME TypesInv, UploadInv, NEW c \in Conns, CallUnknown(c)
    PROVE  UploadInv'
<1>t. ClientOK /\ UploadOK /\ Session(c)
  BY DEF TypesInv, Types, Sessions
<1>1. Stays(c)
  BY <1>t, Small DEF CallUnknown, Stays, Leaves, Enters, Session, Fresh, client,
       upload, disk, Goto, ClientOK, UploadOK
<1>2. \A e \in Conns \ {c} : Stays(e)
  BY <1>t DEF CallUnknown, Stays, client, upload, disk, Goto, ClientOK, UploadOK
<1>3. /\ UNCHANGED <<temp, clash, sent, failed, apps, code>>
      /\ count' \in {count, count + 1}
  BY DEF CallUnknown, client, upload, disk
<1> QED BY <1>1, <1>2, <1>3, QuietUploads

LEMMA PutBodyUploads ==
    ASSUME TypesInv, UploadInv, NEW c \in Conns,
           PutBody(c)
    PROVE  UploadInv'
<1>t. ClientOK /\ UploadOK /\ Session(c)
  BY DEF TypesInv, Types, Sessions
<1>1. Stays(c)
  BY <1>t, Small DEF PutBody, Stays, Leaves, Enters, Session, Fresh, client, disk,
       InBody, At, Goto, ClientOK, UploadOK
<1>2. \A e \in Conns \ {c} : Stays(e)
  BY <1>t DEF PutBody, Stays, client, disk, InBody, At, Goto, ClientOK, UploadOK
<1>3. /\ UNCHANGED <<temp, clash, sent, failed, apps, code>>
      /\ count' \in {count, count + 1}
  BY DEF PutBody, client, disk, InBody, At
<1> QED BY <1>1, <1>2, <1>3, QuietUploads

LEMMA PutDoneUploads ==
    ASSUME TypesInv, UploadInv, NEW c \in Conns,
           PutDone(c)
    PROVE  UploadInv'
<1>t. ClientOK /\ UploadOK /\ Session(c)
  BY DEF TypesInv, Types, Sessions
<1>1. Leaves(c)
  BY <1>t, Small DEF PutDone, Stays, Leaves, Enters, Session, Fresh, disk, upload,
       InBody, Goto, ClientOK, UploadOK
<1>2. \A e \in Conns \ {c} : Stays(e)
  BY <1>t DEF PutDone, Stays, disk, upload, InBody, Goto, ClientOK, UploadOK
<1>3. /\ UNCHANGED <<temp, clash, sent, failed, apps, code>>
      /\ count' \in {count, count + 1}
  BY DEF PutDone, disk, upload, InBody
<1> QED BY <1>1, <1>2, <1>3, QuietUploads

LEMMA BadFieldUploads ==
    ASSUME TypesInv, UploadInv, NEW c \in Conns,
           BadField(c)
    PROVE  UploadInv'
<1>t. ClientOK /\ UploadOK /\ Session(c)
  BY DEF TypesInv, Types, Sessions
<1>1. Stays(c)
  BY <1>t, Small DEF BadField, Stays, Leaves, Enters, Session, Fresh, client,
       disk, Goto, ClientOK, UploadOK
<1>2. \A e \in Conns \ {c} : Stays(e)
  BY <1>t DEF BadField, Stays, client, disk, Goto, ClientOK, UploadOK
<1>3. /\ UNCHANGED <<temp, clash, sent, failed, apps, code>>
      /\ count' \in {count, count + 1}
  BY DEF BadField, client, disk
<1> QED BY <1>1, <1>2, <1>3, QuietUploads

LEMMA PostRefusedUploads ==
    ASSUME TypesInv, UploadInv, NEW c \in Conns,
           PostRefused(c)
    PROVE  UploadInv'
<1>t. ClientOK /\ UploadOK /\ Session(c)
  BY DEF TypesInv, Types, Sessions
<1>1. Leaves(c)
  BY <1>t, Small DEF PostRefused, Stays, Leaves, Enters, Session, Fresh,
       AnswerPost, Done, InBody, At, Goto, ClientOK, UploadOK
<1>2. \A e \in Conns \ {c} : Stays(e)
  BY <1>t DEF PostRefused, Stays, AnswerPost, Done, InBody, At, Goto,
       ClientOK, UploadOK
<1>3. /\ UNCHANGED <<temp, clash, sent, failed, apps, code>>
      /\ count' \in {count, count + 1}
  BY DEF PostRefused, AnswerPost, Done, InBody, At
<1> QED BY <1>1, <1>2, <1>3, QuietUploads

LEMMA SendBodyUploads ==
    ASSUME TypesInv, UploadInv, NEW c \in Conns,
           SendBody(c)
    PROVE  UploadInv'
<1>t. ClientOK /\ UploadOK /\ Session(c)
  BY DEF TypesInv, Types, Sessions
<1>1. Stays(c)
  BY <1>t, Small DEF SendBody, Stays, Leaves, Enters, Session, Fresh, client,
       disk, InBody, At, Goto, ClientOK, UploadOK
<1>2. \A e \in Conns \ {c} : Stays(e)
  BY <1>t DEF SendBody, Stays, client, disk, InBody, At, Goto, ClientOK, UploadOK
<1>3. /\ UNCHANGED <<temp, clash, sent, failed, apps, code>>
      /\ count' \in {count, count + 1}
  BY DEF SendBody, client, disk, InBody, At
<1> QED BY <1>1, <1>2, <1>3, QuietUploads

LEMMA SendDoneUploads ==
    ASSUME TypesInv, UploadInv, NEW c \in Conns,
           SendDone(c)
    PROVE  UploadInv'
<1>t. ClientOK /\ UploadOK /\ Session(c)
  BY DEF TypesInv, Types, Sessions
<1>1. Leaves(c)
  BY <1>t, Small DEF SendDone, Stays, Leaves, Enters, Session, Fresh, disk,
       upload, GetResponse, InBody, Goto, ClientOK, UploadOK
<1>2. \A e \in Conns \ {c} : Stays(e)
  BY <1>t DEF SendDone, Stays, disk, upload, GetResponse, InBody, Goto, ClientOK,
       UploadOK
<1>3. /\ UNCHANGED <<temp, clash, sent, failed, apps, code>>
      /\ count' \in {count, count + 1}
  BY DEF SendDone, disk, upload, GetResponse, InBody
<1> QED BY <1>1, <1>2, <1>3, QuietUploads

LEMMA SendDiesUploads ==
    ASSUME TypesInv, UploadInv, NEW c \in Conns,
           SendDies(c) \/ PostDies(c)
    PROVE  UploadInv'
<1>t. ClientOK /\ UploadOK /\ Session(c)
  BY DEF TypesInv, Types, Sessions
<1>1. Stays(c)
  BY <1>t, Small DEF SendDies, PostDies, Done, Stays, Leaves, Enters, Session,
       Fresh, client, upload, disk, Goto, ClientOK, UploadOK
<1>2. \A e \in Conns \ {c} : Stays(e)
  BY <1>t DEF SendDies, PostDies, Done, Stays, client, upload, disk, Goto,
       ClientOK, UploadOK
<1>3. /\ UNCHANGED <<temp, clash, sent, failed, apps, code>>
      /\ count' \in {count, count + 1}
  BY DEF SendDies, PostDies, Done, client, upload, disk
<1> QED BY <1>1, <1>2, <1>3, QuietUploads

LEMMA CopyDiesUploads ==
    ASSUME TypesInv, UploadInv, NEW c \in Conns,
           CopyDies(c)
    PROVE  UploadInv'
<1>t. ClientOK /\ UploadOK /\ Session(c)
  BY DEF TypesInv, Types, Sessions
<1>1. Stays(c)
  BY <1>t, Small DEF CopyDies, Stays, Leaves, Enters, Session, Fresh, client,
       upload, disk, Goto, ClientOK, UploadOK
<1>2. \A e \in Conns \ {c} : Stays(e)
  BY <1>t DEF CopyDies, Stays, client, upload, disk, Goto, ClientOK, UploadOK
<1>3. /\ UNCHANGED <<temp, clash, sent, failed, apps, code>>
      /\ count' \in {count, count + 1}
  BY DEF CopyDies, client, upload, disk
<1> QED BY <1>1, <1>2, <1>3, QuietUploads

LEMMA DropUploads ==
    ASSUME TypesInv, UploadInv, NEW c \in Conns,
           Drop(c)
    PROVE  UploadInv'
<1>t. ClientOK /\ UploadOK /\ Session(c)
  BY DEF TypesInv, Types, Sessions
<1>1. Leaves(c)
  BY <1>t, Small DEF Drop, Stays, Leaves, Enters, Session, Fresh, Ends,
       NewSession, disk, NoRequest, Goto, ClientOK, UploadOK
<1>2. \A e \in Conns \ {c} : Stays(e)
  BY <1>t DEF Drop, Stays, Ends, NewSession, disk, NoRequest, Goto, ClientOK,
       UploadOK
<1>3. /\ UNCHANGED <<temp, clash, sent, failed, apps, code>>
      /\ count' \in {count, count + 1}
  BY DEF Drop, Ends, NewSession, disk, NoRequest
<1> QED BY <1>1, <1>2, <1>3, QuietUploads

LEMMA CopyUploads ==
    ASSUME TypesInv, UploadInv, NEW c \in Conns,
           Copy(c)
    PROVE  UploadInv'
<1>t. ClientOK /\ UploadOK /\ Session(c)
  BY DEF TypesInv, Types, Sessions
<1>a. phase[c] = "copy" BY <1>t DEF Copy, Session
<1>1. Leaves(c)
  BY <1>t, <1>a, Small DEF Copy, Stays, Leaves, Enters, Session, Fresh, Ends,
       NewSession, disk, NoRequest, upload, Goto, ClientOK, UploadOK
<1>2. \A e \in Conns \ {c} : Stays(e)
  BY <1>t DEF Copy, Stays, Ends, NewSession, disk, NoRequest, upload, Goto,
       ClientOK, UploadOK
<1>3. /\ UNCHANGED <<temp, clash, sent, failed, apps, code>>
      /\ count' \in {count, count + 1}
  BY DEF Copy, Ends, NewSession, disk, NoRequest, upload
<1> QED BY <1>1, <1>2, <1>3, QuietUploads

LEMMA WriteableUploads ==
    ASSUME TypesInv, UploadInv, NEW c \in Conns,
           Writeable(c)
    PROVE  UploadInv'
<1>t. ClientOK /\ UploadOK /\ Session(c)
  BY DEF TypesInv, Types, Sessions
<1>1. Stays(c) \/ Leaves(c)
  BY <1>t, Small DEF Writeable, Stays, Leaves, Enters, Session, Fresh, Ends,
       NewSession, disk, NoRequest, upload, client, At, Serving, Goto, ClientOK,
       UploadOK
<1>2. \A e \in Conns \ {c} : Stays(e)
  BY <1>t DEF Writeable, Stays, Ends, NewSession, disk, NoRequest, upload, client,
       At, Serving, Goto, ClientOK, UploadOK
<1>3. /\ UNCHANGED <<temp, clash, sent, failed, apps, code>>
      /\ count' \in {count, count + 1}
  BY DEF Writeable, Ends, NewSession, disk, NoRequest, upload, client, At, Serving
<1> QED BY <1>1, <1>2, <1>3, QuietUploads
LEMMA DeleteUploads ==
    ASSUME TypesInv, UploadInv, NEW c \in Conns, NEW i \in Targets, Delete(c, i)
    PROVE  UploadInv'
<1> DEFINE gone == IF i = Null THEN apps ELSE With(i)
<1>t. ClientOK /\ UploadOK /\ DiskOK /\ Session(c)
  BY DEF TypesInv, Types, Sessions
<1>1. Enters(c)
  BY <1>t DEF Delete, Begins, Enters, At, Session, Fresh, upload, ClientOK
<1>2. \A e \in Conns \ {c} : Stays(e)
  BY <1>t DEF Delete, Begins, Stays, upload, Goto, ClientOK
<1>3. /\ gone \subseteq apps /\ apps' = apps \ gone
      /\ code' = [d \in Dirs |-> IF \E a \in gone : a.dir = d THEN NoFiles
                                                              ELSE code[d]]
      /\ UNCHANGED <<temp, clash, sent, failed>> /\ count' = count + 1
  BY DEF Delete, Remove, With, Begins
<1>4. ASSUME NEW a \in apps'
      PROVE  code'[a.dir] = code[a.dir]
  <2>1. a \in apps /\ a \notin gone /\ a.dir \in Dirs
    BY <1>t, <1>3 DEF DiskOK, Apps
  <2>2. \A b \in gone : b.dir # a.dir BY <1>3, <2>1 DEF UploadInv, Apart
  <2> HIDE DEF gone
  <2> QED BY <1>3, <2>1, <2>2
<1>5. \A d \in Dirs : code'[d].top \in {code[d].top, Null}
  <2>1. NoFiles.top = Null BY DEF NoFiles
  <2> HIDE DEF gone
  <2> QED BY <1>3, <2>1
<1> QED BY <1>1, <1>2, <1>3, <1>4, <1>5, QuietUploads

LEMMA OpenUploads ==
    ASSUME TypesInv, UploadInv, NEW c \in Conns, NEW f \in Files,
           Open(c, f) \/ OpenFails(c, f)
    PROVE  UploadInv'
<1>t. UploadOK /\ DiskOK BY DEF TypesInv, Types
<1>1. /\ name[c] = "none" /\ pos[c] = 0 /\ phase[c] = "body"
      /\ name' = [name EXCEPT ![c] = f]
      /\ UNCHANGED <<count, phase, asked, pos, code, apps, sent, failed>>
  BY DEF Open, OpenFails, Opening, InBody, At, client
<1>2. \/ /\ temp' = [temp EXCEPT ![f] = Empty] /\ fd' = [fd EXCEPT ![c] = "open"]
         /\ clash' = (clash \/ Held(c, f)) /\ UNCHANGED err
      \/ /\ err' = [err EXCEPT ![c] = TRUE]
         /\ UNCHANGED <<temp, fd, clash>>
  BY DEF Open, OpenFails
<1>3. /\ \A g \in Files : temp'[g] = temp[g] \/ (g = f /\ temp'[g] = Empty)
      /\ \A i \in 1..Parts : Empty[i] = Hole
      /\ 1 \in 1..Parts /\ "none" \notin Files
      /\ Hole[1] = 0 /\ Hole[2] # "last" /\ Writer(Empty) = 0
  BY <1>t, <1>2, ConnsAssumption, Small DEF DiskOK, Empty, Hole, Writer
<1>4. \A g \in Files : \/ Writer(temp'[g]) = Writer(temp[g])
                       \/ Writer(temp'[g]) = 0
  BY <1>3 DEF Writer
<1>n. asked[c].n # 0 /\ \A e \in Conns : phase[e] = "body" => asked[e].n # 0
  BY <1>1 DEF TypesInv, Sessions, Session
<1>s. asked[c].n \notin sent BY <1>1 DEF UploadInv, Unused
<1>e. \A e \in Conns \ {c} : UNCHANGED <<name[e], fd[e], err[e]>>
  BY <1>t, <1>1, <1>2 DEF UploadOK
<1>c. name'[c] = f BY <1>t, <1>1 DEF UploadOK
<1> USE DEF UploadInv
<1>5. Numbered'
  <2>1. \A g \in Files, i \in 1..Parts :
           temp'[g][i][1] <= count /\ (temp'[g][i][2] = "last" =>
                                          temp'[g][i][1] # 0)
    BY <1>3, Integral DEF Numbered
  <2> QED BY <1>1, <2>1 DEF Numbered
<1>6. Unused'
  <2>1. \A e \in Conns, g \in Files :
           phase[e] = "body" /\ Writer(temp'[g]) = asked[e].n => g = name'[e]
    <3> SUFFICES ASSUME NEW e \in Conns, NEW g \in Files, phase[e] = "body",
                        Writer(temp'[g]) = asked[e].n
                 PROVE  g = name'[e]
      OBVIOUS
    <3>1. Writer(temp[g]) = asked[e].n BY <1>4, <1>n
    <3>2. g = name[e] BY <3>1 DEF Unused
    <3> QED BY <1>1, <1>3, <1>e, <3>2
  <2>2. "remove" \notin failed => \A g \in Files, a \in apps :
           Writer(temp'[g]) # 0 => a.by # Writer(temp'[g])
    BY <1>4 DEF Unused
  <2>3. \A e \in Conns : phase[e] = "body" /\ asked[e].n \in sent =>
           fd'[e] = "closed" /\ name'[e] # "none" /\ pos[e] # 0
    BY <1>e, <1>s DEF Unused
  <2> QED BY <1>1, <2>1, <2>2, <2>3 DEF Unused, Writer
<1>7. Apart' BY <1>1 DEF Apart
<1>8. ASSUME ~clash' PROVE Separate' /\ Intact'
  <2>1. ~clash BY <1>2, <1>8
  <2>2. Intact' BY <1>1, <2>1 DEF Intact, Complete, NoFailure
  <2>3. \A e \in Conns : phase[e] = "body" => fd'[e] # "detached"
    BY <1>t, <1>1, <1>2, <2>1 DEF Separate, UploadOK
  <2>4. \A e \in Conns \ {c} : Sending(e)' => Sending(e) /\ name'[e] = name[e]
    BY <1>1, <1>e DEF Sending
  <2>5. CASE UNCHANGED <<temp, fd, clash>> /\ err' = [err EXCEPT ![c] = TRUE]
    <3>1. ~Sending(c)' BY <1>t, <2>5 DEF Sending, UploadOK
    <3>2. \A e, g \in Conns : e # g /\ Sending(e)' /\ Sending(g)' =>
             name'[e] # name'[g]
      BY <2>1, <2>4, <3>1 DEF Separate
    <3>3. ASSUME NEW e \in Conns, Sending(e)', NEW i \in 1..Parts
          PROVE  temp'[name'[e]][i] \in Kept(e, i)'
      <4>1. e # c BY <3>1, <3>3
      <4>2. Kept(e, i)' = Kept(e, i) BY <1>1, <2>5 DEF Kept
      <4>3. temp[name[e]][i] \in Kept(e, i) BY <2>1, <2>4, <3>3, <4>1 DEF Separate
      <4> QED BY <2>4, <2>5, <3>3, <4>1, <4>2, <4>3
    <3> QED BY <1>1, <2>1, <2>2, <2>3, <3>2, <3>3 DEF Separate
  <2>6. CASE /\ temp' = [temp EXCEPT ![f] = Empty]
             /\ clash' = (clash \/ Held(c, f))
    <3>1. \A e \in Conns \ {c} : Sending(e) => name[e] # f
      BY <1>8, <2>6 DEF Held, Sending
    <3>2. \A e, g \in Conns : e # g /\ Sending(e)' /\ Sending(g)' =>
             name'[e] # name'[g]
      BY <1>c, <2>1, <2>4, <3>1 DEF Separate
    <3>3. ASSUME NEW e \in Conns, Sending(e)', NEW i \in 1..Parts
          PROVE  temp'[name'[e]][i] \in Kept(e, i)'
      <4>1. CASE e = c
        <5>1. i > pos'[c] BY <1>1
        <5>2. temp'[f][i] = Hole BY <1>t, <1>3, <2>6 DEF DiskOK
        <5> QED BY <1>c, <4>1, <5>1, <5>2 DEF Kept
      <4>2. CASE e # c
        <5>1. Sending(e) /\ name'[e] = name[e] /\ name[e] # f
          BY <2>4, <3>1, <3>3, <4>2
        <5>2. name[e] \in Files BY <1>t, <5>1 DEF Sending, UploadOK
        <5>3. temp'[name[e]] = temp[name[e]] BY <1>3, <5>1, <5>2
        <5>4. Kept(e, i)' = Kept(e, i) BY <1>1, <1>e, <4>2 DEF Kept
        <5>5. temp[name[e]][i] \in Kept(e, i) BY <2>1, <5>1 DEF Separate
        <5> QED BY <5>1, <5>3, <5>4, <5>5
      <4> QED BY <4>1, <4>2
    <3> QED BY <1>1, <2>1, <2>2, <2>3, <3>2, <3>3 DEF Separate
  <2> QED BY <1>2, <2>2, <2>5, <2>6
<1> QED BY <1>5, <1>6, <1>7, <1>8

LEMMA ContentUploads ==
    ASSUME TypesInv, UploadInv, NEW c \in Conns, NEW last \in BOOLEAN,
           Content(c, last)
    PROVE  UploadInv'
<1>t. UploadOK /\ DiskOK /\ Session(c) BY DEF TypesInv, Types, Sessions
<1> DEFINE k == pos[c] + 1
           n == asked[c].n
<1>0. PICK part \in {IF last THEN "last" ELSE "more", "torn"} :
         /\ temp' = IF fd[c] = "open" THEN [temp EXCEPT ![name[c]][k] = <<n, part>>]
                    ELSE temp
         /\ failed' = failed \cup (IF part = "torn" THEN {"write"} ELSE {})
  BY DEF Content
<1> DEFINE p == <<n, part>>
<1>1. /\ phase[c] = "body" /\ fd[c] # "closed" /\ pos' = [pos EXCEPT ![c] = k]
      /\ fd' = IF last THEN [fd EXCEPT ![c] = "closed"] ELSE fd
      /\ sent' = sent \cup (IF last THEN {n} ELSE {})
      /\ UNCHANGED <<count, phase, asked, name, err, code, clash, apps>>
      /\ n # 0 /\ name[c] # "none"
  BY <1>t DEF Content, InBody, At, client, Session
<1>2. k \in 1..Parts /\ pos[c] \in Nat /\ name[c] \in Files /\ 1 \in 1..Parts
  BY <1>t, <1>1, BoundsAssumption, Small DEF Content, UploadOK
<1>p. p[1] = n OBVIOUS
<1>s. n \notin sent BY <1>1 DEF UploadInv, Unused
<1>q. p \in {IF last THEN Last(n) ELSE Other(n)} \cup
               (IF "write" \in failed' THEN {Torn(n)} ELSE {})
  BY <1>0 DEF Last, Other, Torn
<1>f. failed \subseteq failed' /\ ("remove" \in failed' => "remove" \in failed)
      /\ (NoFailure' => NoFailure)
  BY <1>0 DEF NoFailure
<1>r. temp' = IF fd[c] = "open" THEN [temp EXCEPT ![name[c]][k] = p] ELSE temp
  BY <1>0
<1> HIDE DEF p, k
<1>3. /\ \A f \in Files, i \in 1..Parts :
            \/ temp'[f][i] = temp[f][i]
            \/ f = name[c] /\ i = k /\ temp'[f][i] = p
      /\ fd[c] = "open" => temp'[name[c]][k] = p
  BY <1>t, <1>r, <1>2 DEF DiskOK
<1>4. \A f \in Files : \/ Writer(temp'[f]) = Writer(temp[f])
                       \/ f = name[c] /\ Writer(temp'[f]) = n
  BY <1>2, <1>3, <1>p DEF Writer
<1>5. pos'[c] = k /\ k = pos[c] + 1 /\ k # 0
  BY <1>t, <1>1, <1>2 DEF UploadOK, k
<1>6. (last => fd'[c] = "closed") /\ (~last => fd'[c] = fd[c])
  BY <1>t, <1>1 DEF UploadOK
<1>e. \A e \in Conns \ {c} : UNCHANGED <<pos[e], fd[e]>>
  BY <1>t, <1>1 DEF UploadOK
<1> USE DEF UploadInv
<1>7. Numbered'
  <2>1. \A f \in Files, i \in 1..Parts :
           temp'[f][i][1] <= count /\ (temp'[f][i][2] = "last" =>
                                          temp'[f][i][1] # 0)
    BY <1>1, <1>3, <1>p DEF Numbered
  <2>2. \A m \in sent' : m <= count BY <1>1 DEF Numbered
  <2> QED BY <1>1, <2>1, <2>2 DEF Numbered
<1>8. Unused'
  <2>1. \A e \in Conns, f \in Files :
           phase[e] = "body" /\ Writer(temp'[f]) = asked[e].n => f = name[e]
    BY <1>1, <1>4 DEF Unused, Numbered
  <2>2. "remove" \notin failed' => \A f \in Files, a \in apps :
           Writer(temp'[f]) # 0 => a.by # Writer(temp'[f])
    BY <1>1, <1>4, <1>f DEF Unused
  <2>3. ASSUME NEW e \in Conns, phase[e] = "body", asked[e].n \in sent'
        PROVE  fd'[e] = "closed" /\ name[e] # "none" /\ pos'[e] # 0
    <3>1. CASE e = c BY <1>1, <1>5, <1>6, <1>s, <2>3, <3>1
    <3>2. CASE e # c
      <4>1. asked[e].n \in sent BY <1>1, <2>3, <3>2 DEF Numbered
      <4> QED BY <1>e, <2>3, <3>2, <4>1 DEF Unused
    <3> QED BY <3>1, <3>2
  <2> QED BY <1>1, <2>1, <2>2, <2>3 DEF Unused, Writer
<1>9. Apart' BY <1>1 DEF Apart
<1>10. ASSUME ~clash PROVE Separate' /\ Intact'
  <2>1. Intact'
    <3> SUFFICES ASSUME NoFailure', NEW a \in apps PROVE Complete(a)'
      BY <1>1 DEF Intact
    <3>1. Complete(a) BY <1>10, <1>f DEF Intact
    <3>2. code[a.dir].top # n
      <4>1. a.dir \in Dirs BY <1>t DEF DiskOK, Apps
      <4> QED BY <1>1, <1>10, <4>1 DEF Separate
    <3>3. a.by # n BY <1>1 DEF Unused
    <3> QED BY <1>1, <3>1, <3>2, <3>3 DEF Complete
  <2>2. \A e \in Conns : phase[e] = "body" => fd'[e] # "detached"
    BY <1>e, <1>1, <1>6, <1>10 DEF Separate
  <2>3. fd[c] = "open" BY <1>t, <1>1, <1>10 DEF Separate, UploadOK
  <2>4. ASSUME NEW e \in Conns, Sending(e), NEW i \in 1..Parts
        PROVE  temp'[name[e]][i] \in Kept(e, i)'
    <3>1. temp[name[e]][i] \in Kept(e, i) BY <1>10, <2>4 DEF Separate
    <3>2. CASE e = c
      <4>1. CASE i = k
        <5>1. temp'[name[c]][i] = p BY <1>2, <1>3, <2>3, <4>1
        <5>2. CASE last
          BY <1>1, <1>2, <1>5, <1>6, <1>q, <3>2, <4>1, <5>1, <5>2 DEF Kept
        <5>3. CASE ~last
          BY <1>1, <1>2, <1>5, <1>6, <1>q, <2>3, <3>2, <4>1, <5>1, <5>3 DEF Kept
        <5> QED BY <5>2, <5>3
      <4>2. CASE i < k
        <5>1. temp'[name[c]][i] = temp[name[c]][i] BY <1>2, <1>3, <4>2
        <5>2. temp[name[c]][i] \in {Other(n)} \cup
                 (IF "write" \in failed THEN {Torn(n)} ELSE {})
          BY <1>2, <1>5, <2>3, <3>1, <3>2, <4>2 DEF Kept
        <5>3. Kept(c, i)' = {Other(n)} \cup
                 (IF "write" \in failed' THEN {Torn(n)} ELSE {})
          BY <1>1, <1>2, <1>5, <4>2 DEF Kept
        <5> QED BY <1>f, <3>2, <5>1, <5>2, <5>3
      <4>3. CASE i > k
        <5>1. temp'[name[c]][i] = temp[name[c]][i] BY <1>2, <1>3, <4>3
        <5>2. temp[name[c]][i] = Hole
          BY <1>2, <1>5, <3>1, <3>2, <4>3 DEF Kept
        <5>3. Kept(c, i)' = {Hole} BY <1>2, <1>5, <4>3 DEF Kept
        <5> QED BY <3>2, <5>1, <5>2, <5>3
      <4> QED BY <1>2, <4>1, <4>2, <4>3
    <3>3. CASE e # c
      <4>1. name[e] # name[c]
        <5>1. Sending(c) BY <1>t, <1>1 DEF Sending, Session, Content, InBody
        <5> QED BY <1>10, <2>4, <3>3, <5>1 DEF Separate
      <4>2. name[e] \in Files BY <1>t, <2>4 DEF Sending, UploadOK
      <4>3. temp'[name[e]][i] = temp[name[e]][i] BY <1>3, <4>1, <4>2
      <4>4. Kept(e, i) \subseteq Kept(e, i)' BY <1>1, <1>e, <1>f, <3>3 DEF Kept
      <4> QED BY <3>1, <4>3, <4>4
    <3> QED BY <3>2, <3>3
  <2>5. \A e \in Conns : Sending(e)' <=> Sending(e) BY <1>1 DEF Sending
  <2> QED BY <1>1, <1>10, <2>1, <2>2, <2>4, <2>5 DEF Separate
<1> QED BY <1>1, <1>7, <1>8, <1>9, <1>10

\* Without clashes the pieces of an archive are those of the form it came with.
LEMMA ArchivePieces ==
    ASSUME TypesInv, UploadInv, ~clash, NEW c \in Conns, Sending(c)
    PROVE  LET t == temp[name[c]] IN
              Writers(t) \subseteq {asked[c].n} /\ Writer(t) \in {0, asked[c].n}
<1> DEFINE t == temp[name[c]]
<1>1. \A i \in 1..Parts : t[i] \in Kept(c, i) BY DEF UploadInv, Separate
<1> HIDE DEF t
<1>2. ASSUME NEW i \in 1..Parts
      PROVE  t[i][1] \in {0, asked[c].n}
  <2>1. t[i] \in {Hole, Last(asked[c].n), Other(asked[c].n), Torn(asked[c].n)}
    BY <1>1 DEF Kept
  <2> QED BY <2>1 DEF Hole, Last, Other, Torn
<1>3. Writers(t) \subseteq {asked[c].n} BY <1>2 DEF Writers
<1>4. Writer(t) \in {0, asked[c].n} BY <1>2, Small DEF Writer
<1> QED BY <1>3, <1>4 DEF t

\* When it has come to its end, and was written, it is whole.
LEMMA WholeArchive ==
    ASSUME TypesInv, UploadInv, ~clash, "write" \notin failed,
           NEW c \in Conns, Sending(c), asked[c].n \in sent
    PROVE  Whole(temp[name[c]])
<1> DEFINE t == temp[name[c]]
<1>1. pos[c] \in 1..Parts /\ fd[c] = "closed"
  BY BoundsAssumption DEF UploadInv, Unused, Sending, TypesInv, Types, UploadOK
<1>2. \A i \in 1..Parts : t[i] = IF i > pos[c] THEN Hole
                                 ELSE IF i = pos[c] THEN Last(asked[c].n)
                                                    ELSE Other(asked[c].n)
  <2>1. \A i \in 1..Parts : t[i] \in Kept(c, i)
    BY DEF UploadInv, Separate
  <2> HIDE DEF t
  <2> QED BY <1>1, <2>1 DEF Kept
<1> HIDE DEF t
<1>3. t[pos[c]] = Last(asked[c].n) BY <1>1, <1>2
<1>4. \A i \in 1..pos[c]-1 : t[i] = Other(asked[c].n)
  BY <1>1, <1>2, BoundsAssumption
<1>5. \A i \in pos[c]+1..Parts : t[i] = Hole
  BY <1>1, <1>2, BoundsAssumption
<1>6. t[pos[c]][1] = asked[c].n /\ t[pos[c]][2] = "last" BY <1>3 DEF Last
<1>7. \A i \in 1..pos[c]-1 : t[i] = <<t[pos[c]][1], "more">>
  BY <1>4, <1>6 DEF Other
<1>8. Whole(t) BY <1>1, <1>5, <1>6, <1>7 DEF Whole
<1> QED BY <1>8 DEF t

LEMMA WholeHasWriter ==
    ASSUME TypesInv, UploadInv, NEW f \in Files, Whole(temp[f])
    PROVE  Writer(temp[f]) # 0
<1>1. PICK k \in 1..Parts :
         /\ temp[f][k][2] = "last"
         /\ \A i \in 1..k-1 : temp[f][i] = <<temp[f][k][1], "more">>
  BY DEF Whole
<1>2. temp[f][k][1] # 0 BY <1>1 DEF UploadInv, Numbered
<1>3. CASE k = 1 BY <1>2, <1>3 DEF Writer
<1>4. CASE k # 1
  <2>1. 1 \in 1..k-1 BY <1>4, BoundsAssumption
  <2>2. temp[f][1] = <<temp[f][k][1], "more">> BY <1>1, <2>1
  <2>3. Writer(temp[f]) = temp[f][k][1] BY <2>2 DEF Writer
  <2> QED BY <1>2, <2>3
<1> QED BY <1>3, <1>4

\* Unpacking puts one upload over what is in a directory.
LEMMA OverlayCode ==
    ASSUME TypesInv, NEW t, NEW d \in Dirs, NEW which, Overlay(t, d, which)
    PROVE  /\ \A e \in Dirs \ {d} : code'[e] = code[e]
           /\ \/ which = "none" /\ code' = code
              \/ /\ which # "none" /\ Writer(t) # 0
                 /\ code'[d].top = Writer(t) /\ code'[d].all = (which = "all")
                 /\ Uploads(code'[d]) \subseteq
                       Uploads(code[d]) \cup Writers(t) \cup {Writer(t)}
<1> DEFINE rest == (Uploads(code[d]) \cup Writers(t)) \ {Writer(t)}
<1>t. code \in [Dirs -> Contents] BY DEF TypesInv, Types, DiskOK
<1>1. CASE which = "none" BY <1>1 DEF Overlay
<1>2. CASE which # "none"
  <2>1. /\ Writer(t) # 0
        /\ code' = [code EXCEPT ![d] = [top |-> Writer(t), all |-> which = "all",
                                        rest |-> rest]]
    BY <1>2 DEF Overlay
  <2> HIDE DEF rest
  <2>2. /\ \A e \in Dirs \ {d} : code'[e] = code[e]
        /\ code'[d] = [top |-> Writer(t), all |-> which = "all", rest |-> rest]
    BY <1>t, <2>1
  <2>3. code'[d].top = Writer(t) /\ code'[d].all = (which = "all")
        /\ code'[d].rest = rest
    BY <2>2
  <2>4. rest \subseteq Uploads(code[d]) \cup Writers(t) BY DEF rest
  <2>5. Uploads(code'[d]) \subseteq {Writer(t)} \cup rest
    BY <2>3 DEF Uploads
  <2> QED BY <1>2, <2>1, <2>2, <2>3, <2>4, <2>5
<1> QED BY <1>1, <1>2

\* What the end of an upload does to the directory it is unpacked in
LEMMA UnpackCode ==
    ASSUME TypesInv, UploadInv, NEW c \in Conns, Done(c), NEW d \in Dirs,
           NEW which, Unpack(c, d, which)
    PROVE  /\ \A e \in Dirs \ {d} : code'[e] = code[e]
           /\ code'[d].top <= count
           /\ ~clash =>
                 /\ code'[d].top \in {code[d].top, asked[c].n}
                 /\ Uploads(code'[d]) \subseteq Uploads(code[d]) \cup {asked[c].n}
                 /\ NoFailure' =>
                       \/ /\ which = "none" /\ code'[d] = code[d]
                          /\ asked[c].n \notin sent
                       \/ /\ code'[d].top = asked[c].n
                          /\ asked[c].n \in sent => code'[d].all
<1> DEFINE t == temp[name[c]]
           n == asked[c].n
<1>1. /\ name[c] \in Files /\ Sending(c) /\ Overlay(t, d, which)
      /\ Whole(t) /\ which # "all" => "extract" \in failed'
      /\ NoFailure' => "write" \notin failed
  BY DEF Unpack, Done, InBody, At, Sending, TypesInv, Types, UploadOK, NoFailure
<1>2. Writer(t) <= count BY Small, <1>1 DEF Writer, UploadInv, Numbered
<1>3. code[d].top <= count BY DEF UploadInv, Numbered
<1>4. /\ \A e \in Dirs \ {d} : code'[e] = code[e]
      /\ \/ which = "none" /\ code' = code
         \/ /\ which # "none" /\ Writer(t) # 0
            /\ code'[d].top = Writer(t) /\ code'[d].all = (which = "all")
            /\ Uploads(code'[d]) \subseteq
                  Uploads(code[d]) \cup Writers(t) \cup {Writer(t)}
  BY <1>1, OverlayCode
<1>5. ~clash => Writers(t) \subseteq {n} /\ Writer(t) \in {0, n}
  BY <1>1, ArchivePieces
<1>6. ~clash /\ NoFailure' /\ n \in sent => Whole(t) BY <1>1, WholeArchive
<1>7. NoFailure' /\ Whole(t) => which = "all" BY <1>1 DEF NoFailure
<1> HIDE DEF t, n
<1>8. code'[d].top <= count BY <1>2, <1>3, <1>4
<1>9. ASSUME ~clash
      PROVE  /\ code'[d].top \in {code[d].top, n}
             /\ Uploads(code'[d]) \subseteq Uploads(code[d]) \cup {n}
             /\ NoFailure' => \/ which = "none" /\ code'[d] = code[d] /\ n \notin sent
                              \/ code'[d].top = n /\ (n \in sent => code'[d].all)
  <2>1. CASE which = "none" /\ code' = code BY <1>6, <1>7, <1>9, <2>1
  <2>2. CASE /\ which # "none" /\ Writer(t) # 0
             /\ code'[d].top = Writer(t) /\ code'[d].all = (which = "all")
             /\ Uploads(code'[d]) \subseteq
                   Uploads(code[d]) \cup Writers(t) \cup {Writer(t)}
    BY <1>5, <1>6, <1>7, <1>9, <2>2
  <2> QED BY <1>4, <2>1, <2>2
<1> QED BY <1>4, <1>8, <1>9 DEF n

\* The end of an upload, whatever becomes of its archive and its application
LEMMA PostUploads ==
    ASSUME TypesInv, UploadInv, NEW c \in Conns, Done(c),
           NEW size, AnswerPost(c, size),
           NEW d \in Dirs, \A e \in Dirs \ {d} : code'[e] = code[e],
           code'[d].top <= count,
           ~clash => code'[d].top \in {code[d].top, asked[c].n},
           \/ name[c] # "none" /\ RemoveArchive(name[c])
           \/ /\ UNCHANGED <<temp, fd>>
              /\ name[c] = "none" \/ "remove" \in failed',
           failed \subseteq failed',
           NEW added, \A a \in added : a.by = asked[c].n,
           apps' \subseteq apps \cup added, Apart', ~clash => Intact'
    PROVE  UploadInv'
<1> DEFINE n == asked[c].n
<1>t. ClientOK /\ UploadOK /\ DiskOK /\ Sessions BY DEF TypesInv, Types
<1>1. /\ phase[c] = "body" /\ phase' = [phase EXCEPT ![c] = "reply"] /\ ~err[c]
      /\ UNCHANGED <<count, asked, name, err, pos, clash, sent>>
      /\ n # 0 /\ (Sending(c) <=> name[c] \in Files)
  BY <1>t, ConnsAssumption DEF Done, InBody, At, AnswerPost, Goto, Sessions,
     Session, UploadOK, Sending
<1>c. \A e \in Conns : phase'[e] = "body" => phase[e] = "body" /\ e # c
  BY <1>t, <1>1 DEF ClientOK
<1>2. /\ \A i \in 1..Parts : Empty[i] = Hole
      /\ 1 \in 1..Parts /\ "none" \notin Files
      /\ Hole[1] = 0 /\ Hole[2] # "last" /\ Writer(Empty) = 0
  BY ConnsAssumption, Small DEF Empty, Hole, Writer
<1>3. \/ /\ UNCHANGED <<temp, fd>>
         /\ name[c] = "none" \/ "remove" \in failed'
      \/ /\ name[c] \in Files /\ temp' = [temp EXCEPT ![name[c]] = Empty]
         /\ fd' = [e \in Conns |->
                      IF name[e] = name[c] /\ fd[e] = "open" THEN "detached"
                                                             ELSE fd[e]]
  BY <1>t DEF RemoveArchive, UploadOK
<1>4. \A g \in Files : temp'[g] = temp[g] \/ (g = name[c] /\ temp'[g] = Empty)
  BY <1>t, <1>3 DEF DiskOK
<1>5. \A g \in Files : \/ Writer(temp'[g]) = Writer(temp[g])
                       \/ Writer(temp'[g]) = 0
  BY <1>2, <1>4 DEF Writer
<1>6. \A e \in Conns : phase[e] = "body" => asked[e].n # 0
  BY <1>t DEF Sessions, Session
<1>7. \A e \in Conns : fd[e] = "closed" => fd'[e] = "closed"
  BY <1>t, <1>3 DEF UploadOK
<1> USE DEF UploadInv
<1>8. Numbered'
  <2>1. \A g \in Files, i \in 1..Parts :
           temp'[g][i][1] <= count /\ (temp'[g][i][2] = "last" =>
                                          temp'[g][i][1] # 0)
    BY <1>2, <1>4, Integral DEF Numbered
  <2>2. \A a \in apps' : a.by <= count BY DEF Numbered
  <2>3. \A e \in Dirs : code'[e].top <= count BY DEF Numbered
  <2> QED BY <1>1, <2>1, <2>2, <2>3 DEF Numbered
<1>9. Unused'
  <2>1. \A e \in Conns, a \in apps' : phase'[e] = "body" => a.by # asked[e].n
    BY <1>1, <1>c DEF Unused, Numbered
  <2>2. \A e \in Conns, g \in Files :
           phase'[e] = "body" /\ Writer(temp'[g]) = asked[e].n => g = name[e]
    BY <1>5, <1>6, <1>c DEF Unused
  <2>3. \A e \in Conns : phase'[e] = "body" /\ asked[e].n \in sent =>
           fd'[e] = "closed" /\ name[e] # "none" /\ pos[e] # 0
    BY <1>7, <1>c DEF Unused
  <2>4. ASSUME "remove" \notin failed', NEW g \in Files, NEW a \in apps',
               Writer(temp'[g]) # 0
        PROVE  a.by # Writer(temp'[g])
    <3>1. Writer(temp'[g]) = Writer(temp[g]) BY <1>5, <2>4
    <3>2. CASE a \in apps BY <2>4, <3>1, <3>2 DEF Unused
    <3>3. CASE a.by = n
      <4>1. Writer(temp[g]) = n => g = name[c] BY <1>1 DEF Unused
      <4>2. name[c] = g => temp'[g] = Empty BY <1>2, <1>3, <1>t, <2>4 DEF DiskOK
      <4> QED BY <1>2, <2>4, <3>1, <3>3, <4>1, <4>2 DEF Writer
    <3> QED BY <3>2, <3>3
  <2> QED BY <1>1, <2>1, <2>2, <2>3, <2>4 DEF Unused, Writer
<1>10. ASSUME ~clash PROVE Separate'
  <2>1. \A e \in Conns : Sending(e)' => Sending(e) /\ e # c /\ name[e] # name[c]
    BY <1>1, <1>c, <1>10 DEF Sending, Separate
  <2>2. ASSUME NEW e \in Conns, phase'[e] = "body"
        PROVE  fd'[e] = fd[e]
    <3>1. fd[e] = "open" => Sending(e) /\ e # c
      BY <1>t, <1>c, <2>2 DEF Sessions, Session, Sending
    <3>2. name[c] \in Files /\ fd[e] = "open" => name[e] # name[c]
      BY <1>1, <1>10, <3>1 DEF Separate
    <3> QED BY <1>3, <3>2
  <2>3. \A e \in Conns : phase'[e] = "body" => fd'[e] # "detached"
    BY <1>10, <1>c, <2>2 DEF Separate
  <2>4. \A e, g \in Conns : e # g /\ Sending(e)' /\ Sending(g)' =>
           name[e] # name[g]
    BY <1>10, <2>1 DEF Separate
  <2>5. ASSUME NEW e \in Conns, Sending(e)', NEW i \in 1..Parts
        PROVE  temp'[name[e]][i] \in Kept(e, i)'
    <3>1. name[e] \in Files BY <1>t, <2>1, <2>5 DEF Sending, UploadOK
    <3>2. temp'[name[e]] = temp[name[e]] BY <1>4, <2>1, <2>5, <3>1
    <3>3. temp[name[e]][i] \in Kept(e, i) BY <1>10, <2>1, <2>5 DEF Separate
    <3>4. fd'[e] = fd[e] BY <2>2, <2>5 DEF Sending
    <3>5. Kept(e, i) \subseteq Kept(e, i)' BY <1>1, <3>4 DEF Kept
    <3> QED BY <3>2, <3>3, <3>5
  <2>6. \A e \in Conns, g \in Dirs : phase'[e] = "body" => code'[g].top # asked[e].n
    BY <1>1, <1>6, <1>10, <1>c DEF Separate, Numbered
  <2> QED BY <1>1, <2>3, <2>4, <2>5, <2>6 DEF Separate
<1> QED BY <1>1, <1>8, <1>9, <1>10

\* The applications there are after new JSApplication, or without it
LEMMA LoadApps ==
    ASSUME NEW c \in Conns, NEW gone, NEW new, Load(c, gone, new)
    PROVE  /\ apps' = (apps \ gone) \cup new
           /\ \E size : AnswerPost(c, size)
BY DEF Load, Remove

\* The archive goes, unless it cannot be removed.
LEMMA UnpackFile ==
    ASSUME NEW c \in Conns, NEW d, NEW which, Unpack(c, d, which)
    PROVE  /\ \/ name[c] # "none" /\ RemoveArchive(name[c])
              \/ UNCHANGED <<temp, fd>> /\ "remove" \in failed'
           /\ failed \subseteq failed'
BY DEF Unpack

\* An upload that came to its end is unpacked to its end when nothing fails.
LEMMA UnpackAll ==
    ASSUME TypesInv, UploadInv, ~clash, NEW c \in Conns, Done(c), NEW d, NEW which,
           Unpack(c, d, which), NoFailure', asked[c].n \in sent
    PROVE  which = "all"
<1>1. Sending(c) BY DEF Unpack, Done, InBody, At, Sending
<1>2. "write" \notin failed BY DEF Unpack, NoFailure
<1>3. Whole(temp[name[c]]) BY <1>1, <1>2, WholeArchive
<1> QED BY <1>3 DEF Unpack, NoFailure

LEMMA PostNewUploads ==
    ASSUME TypesInv, UploadInv, NEW c \in Conns, NEW d \in Dirs, PostNew(c, d)
    PROVE  UploadInv'
<1> DEFINE n == asked[c].n
           w == [id |-> n, dir |-> d, by |-> n]
<1>1. Done(c) BY DEF PostNew
<1>2. PICK which \in Extents :
         /\ Unpack(c, d, which)
         /\ \/ Load(c, {a \in apps : a.dir = d}, {w}) /\ which # "none"
            \/ /\ which # "all" \/ {a \in apps : a.dir = d} = {}
               /\ AnswerPost(c, "short") /\ apps' = apps
  BY DEF PostNew
<1>3. /\ \E size : AnswerPost(c, size)
      /\ \/ apps' = {a \in apps : a.dir # d} \cup {w} /\ which # "none"
         \/ apps' = apps /\ (which # "all" \/ \A a \in apps : a.dir # d)
  <2>1. CASE Load(c, {a \in apps : a.dir = d}, {w}) /\ which # "none"
    BY <2>1, LoadApps
  <2>2. CASE /\ which # "all" \/ {a \in apps : a.dir = d} = {}
             /\ AnswerPost(c, "short") /\ apps' = apps
    BY <2>2
  <2> QED BY <1>2, <2>1, <2>2
<1>4. w.by = n /\ w.dir = d OBVIOUS
<1>u. /\ \A e \in Dirs \ {d} : code'[e] = code[e]
      /\ code'[d].top <= count
      /\ ~clash =>
            /\ code'[d].top \in {code[d].top, n}
            /\ NoFailure' => \/ which = "none" /\ code'[d] = code[d] /\ n \notin sent
                             \/ code'[d].top = n /\ (n \in sent => code'[d].all)
  BY <1>1, <1>2, UnpackCode
<1>f. /\ \/ name[c] # "none" /\ RemoveArchive(name[c])
         \/ UNCHANGED <<temp, fd>> /\ "remove" \in failed'
      /\ failed \subseteq failed'
  BY <1>2, UnpackFile
<1>s. sent' = sent BY <1>3 DEF AnswerPost
<1> HIDE DEF w, n
<1>5. Apart' BY <1>3, <1>4 DEF UploadInv, Apart
<1>6. ASSUME ~clash, NoFailure', NEW a \in apps'
      PROVE  Complete(a)'
  <2>1. NoFailure BY <1>6, <1>f DEF NoFailure
  <2>2. \A b \in apps : Complete(b) /\ b.dir \in Dirs
    BY <1>6, <2>1 DEF UploadInv, Intact, TypesInv, Types, DiskOK, Apps
  <2>3. CASE a = w /\ which # "none"
    BY <1>4, <1>6, <1>s, <1>u, <2>2, <2>3 DEF Complete
  <2>4. CASE a \in apps /\ a.dir # d
    <3>1. code'[a.dir] = code[a.dir] BY <1>u, <2>2, <2>4
    <3> QED BY <1>s, <2>2, <2>4, <3>1 DEF Complete
  <2>5. CASE a \in apps /\ a.dir = d /\ which # "all"
    <3>1. n \notin sent \/ which = "all" BY UnpackAll, <1>1, <1>2, <1>6 DEF n
    <3> QED BY <1>6, <1>s, <1>u, <2>2, <2>5, <3>1 DEF Complete
  <2> QED BY <1>3, <2>3, <2>4, <2>5
<1>7. ~clash => Intact' BY <1>6 DEF Intact
<1>8. PICK added : (\A a \in added : a.by = n) /\ apps' \subseteq apps \cup added
  <2>1. (\A a \in {w} : a.by = n) /\ apps' \subseteq apps \cup {w} BY <1>3, <1>4
  <2> QED BY <2>1
<1>9. PICK size : AnswerPost(c, size) BY <1>3
<1> USE DEF n
<1>10. ~clash => code'[d].top \in {code[d].top, n} BY <1>u
<1>11. \/ name[c] # "none" /\ RemoveArchive(name[c])
       \/ UNCHANGED <<temp, fd>> /\ (name[c] = "none" \/ "remove" \in failed')
  BY <1>f
<1> QED BY <1>1, <1>5, <1>7, <1>8, <1>9, <1>10, <1>11, <1>u, <1>f, PostUploads

LEMMA PostReloadUploads ==
    ASSUME TypesInv, UploadInv, NEW c \in Conns, PostReload(c)
    PROVE  UploadInv'
<1> DEFINE n == asked[c].n
<1>1. Done(c) BY DEF PostReload
<1>2. PICK o \in With(asked[c].target), which \in Extents :
         /\ Unpack(c, o.dir, which)
         /\ Load(c, {o}, {[o EXCEPT !.by = n]})
  BY DEF PostReload
<1> DEFINE d == o.dir
           w == [o EXCEPT !.by = n]
<1>3. o \in apps /\ o \in Apps /\ d \in Dirs
  BY DEF With, TypesInv, Types, DiskOK, Apps
<1>4. w.by = n /\ w.dir = d BY <1>3 DEF Apps
<1>a. apps' = (apps \ {o}) \cup {w} BY <1>2, LoadApps
<1>9. PICK size : AnswerPost(c, size) BY <1>2, LoadApps
<1>v. Unpack(c, d, which) BY <1>2
<1> HIDE DEF w, d
<1>u. /\ \A e \in Dirs \ {d} : code'[e] = code[e]
      /\ code'[d].top <= count
      /\ ~clash =>
            /\ code'[d].top \in {code[d].top, n}
            /\ NoFailure' => \/ which = "none" /\ code'[d] = code[d] /\ n \notin sent
                             \/ code'[d].top = n /\ (n \in sent => code'[d].all)
  BY <1>1, <1>3, <1>v, UnpackCode
<1>f. /\ \/ name[c] # "none" /\ RemoveArchive(name[c])
         \/ UNCHANGED <<temp, fd>> /\ "remove" \in failed'
      /\ failed \subseteq failed'
  BY <1>v, UnpackFile
<1>s. sent' = sent BY <1>9 DEF AnswerPost
<1> HIDE DEF n
<1>5. Apart'
  <2>1. \A b \in apps : b.dir = d => b = o BY <1>3 DEF UploadInv, Apart, d
  <2> QED BY <1>3, <1>4, <1>a, <2>1 DEF UploadInv, Apart
<1>6. ASSUME ~clash, NoFailure', NEW a \in apps'
      PROVE  Complete(a)'
  <2>1. NoFailure BY <1>6, <1>f DEF NoFailure
  <2>2. \A b \in apps : Complete(b) /\ b.dir \in Dirs
    BY <1>6, <2>1 DEF UploadInv, Intact, TypesInv, Types, DiskOK, Apps
  <2>3. CASE a = w
    <3>1. code[d].top \in sent => code[d].all
      BY <1>3, <2>2 DEF Complete, d
    <3> QED BY <1>4, <1>6, <1>s, <1>u, <2>3, <3>1 DEF Complete
  <2>4. CASE a \in apps /\ a # o
    <3>1. a.dir # d BY <1>3, <2>4 DEF UploadInv, Apart, d
    <3>2. code'[a.dir] = code[a.dir] BY <1>u, <2>2, <2>4, <3>1
    <3> QED BY <1>s, <2>2, <2>4, <3>2 DEF Complete
  <2> QED BY <1>a, <1>6, <2>3, <2>4
<1>7. ~clash => Intact' BY <1>6 DEF Intact
<1>8. PICK added : (\A a \in added : a.by = n) /\ apps' \subseteq apps \cup added
  <2>1. (\A a \in {w} : a.by = n) /\ apps' \subseteq apps \cup {w} BY <1>a, <1>4
  <2> QED BY <2>1
<1> USE DEF n
<1>10. ~clash => code'[d].top \in {code[d].top, n} BY <1>u
<1>11. \/ name[c] # "none" /\ RemoveArchive(name[c])
       \/ UNCHANGED <<temp, fd>> /\ (name[c] = "none" \/ "remove" \in failed')
  BY <1>f
<1> QED BY <1>1, <1>3, <1>5, <1>7, <1>8, <1>9, <1>10, <1>11, <1>u, <1>f, PostUploads

LEMMA PostWithoutFileUploads ==
    ASSUME TypesInv, UploadInv, NEW c \in Conns, PostWithoutFile(c)
    PROVE  UploadInv'
<1> DEFINE n == asked[c].n
<1>1. Done(c) /\ name[c] = "none" /\ UNCHANGED <<fd, temp, code, failed>>
  BY DEF PostWithoutFile
<1>2. \/ /\ asked[c].target = Null /\ AnswerPost(c, "short") /\ apps' = apps
      \/ \E o \in apps : Load(c, {o}, {[o EXCEPT !.by = n]})
  BY DEF PostWithoutFile, With
<1>n. n \notin sent
  BY <1>1 DEF Done, InBody, At, UploadInv, Unused
<1>3. CASE asked[c].target = Null /\ AnswerPost(c, "short") /\ apps' = apps
  <2>1. Stays(c) \/ Leaves(c)
    BY <1>1, <1>3 DEF AnswerPost, Leaves, Goto, TypesInv, Types, ClientOK
  <2>2. \A e \in Conns \ {c} : Stays(e)
    BY <1>1, <1>3 DEF AnswerPost, Stays, Goto, TypesInv, Types, ClientOK
  <2>3. UNCHANGED <<clash, sent, count>> BY <1>3 DEF AnswerPost
  <2> QED BY <1>1, <1>3, <2>1, <2>2, <2>3, QuietUploads
<1>4. CASE \E o \in apps : Load(c, {o}, {[o EXCEPT !.by = n]})
  <2>1. PICK o \in apps : Load(c, {o}, {[o EXCEPT !.by = n]}) BY <1>4
  <2> DEFINE d == o.dir
             w == [o EXCEPT !.by = n]
  <2>2. o \in Apps /\ d \in Dirs BY DEF TypesInv, Types, DiskOK, Apps
  <2>3. w.by = n /\ w.dir = d BY <2>2 DEF Apps
  <2>4. apps' = (apps \ {o}) \cup {w} BY <2>1, LoadApps
  <2>5. PICK size : AnswerPost(c, size) BY <2>1, LoadApps
  <2>6. sent' = sent BY <2>5 DEF AnswerPost
  <2> HIDE DEF w, d, n
  <2>7. \A b \in apps : b.dir = d => b = o BY DEF UploadInv, Apart, d
  <2>8. Apart' BY <2>3, <2>4, <2>7 DEF UploadInv, Apart, d
  <2>9. ASSUME ~clash, NoFailure', NEW a \in apps'
        PROVE  Complete(a)'
    <3>1. NoFailure BY <1>1, <2>9 DEF NoFailure
    <3>2. \A b \in apps : Complete(b)
      BY <2>9, <3>1 DEF UploadInv, Intact
    <3>3. CASE a = w
      <4>1. code[d].top \in sent => code[d].all BY <3>2 DEF Complete, d
      <4> QED BY <1>1, <1>n, <2>3, <2>6, <3>3, <4>1 DEF Complete
    <3>4. CASE a \in apps BY <1>1, <2>6, <3>2, <3>4 DEF Complete
    <3> QED BY <2>4, <2>9, <3>3, <3>4
  <2>10. ~clash => Intact' BY <2>9 DEF Intact
  <2>11. PICK added :
            (\A a \in added : a.by = n) /\ apps' \subseteq apps \cup added
    <3>1. (\A a \in {w} : a.by = n) /\ apps' \subseteq apps \cup {w}
      BY <2>3, <2>4
    <3> QED BY <3>1
  <2> USE DEF n
  <2>12. /\ \A e \in Dirs \ {d} : code'[e] = code[e]
         /\ code'[d].top \in {code[d].top, n} /\ code'[d].top <= count
         /\ failed \subseteq failed'
    BY <1>1, <2>2 DEF UploadInv, Numbered
  <2> QED BY <1>1, <2>2, <2>5, <2>8, <2>10, <2>11, <2>12, PostUploads
<1> QED BY <1>2, <1>3, <1>4

LEMMA UploadsInit == Init => UploadInv
<1> SUFFICES ASSUME Init PROVE UploadInv
  OBVIOUS
<1>1. 1 \in 1..Parts BY Small
<1>2. \A a \in apps : a.by = 0 /\ a.dir \in Dirs BY DEF Init
<1>3. \A d \in Dirs : /\ code[d].top \in {0, Null}
                      /\ (\E a \in apps : a.dir = d) => code[d].top = 0 /\ code[d].all
  <2> SUFFICES ASSUME NEW d \in Dirs
               PROVE  /\ code[d].top \in {0, Null}
                      /\ (\E a \in apps : a.dir = d) =>
                            code[d].top = 0 /\ code[d].all
    OBVIOUS
  <2>1. code[d] = IF \E a \in apps : a.dir = d
                  THEN [NoFiles EXCEPT !.top = 0, !.all = TRUE] ELSE NoFiles
    BY DEF Init
  <2> QED BY <2>1 DEF NoFiles
<1>4. /\ temp = [f \in Files |-> Empty] /\ count = 0 /\ sent = {0}
      /\ asked = [c \in Conns |-> NoRequest] /\ phase = [c \in Conns |-> "idle"]
      /\ fd = [c \in Conns |-> "closed"] /\ failed = {}
  BY DEF Init
<1>5. Numbered BY <1>2, <1>3, <1>4 DEF Numbered, Empty, Hole, NoRequest, Null
<1>6. Unused BY <1>1, <1>2, <1>4 DEF Unused, Empty, Hole, Writer
<1>7. Apart BY DEF Init, Apart
<1>8. Separate BY <1>4 DEF Separate, Sending
<1>9. Intact BY <1>2, <1>3, <1>4 DEF Intact, Complete
<1> QED BY <1>5, <1>6, <1>7, <1>8, <1>9 DEF UploadInv

\* Steps that leave requests, files and applications as they are
LEMMA IdleUploads ==
    ASSUME UploadInv,
           UNCHANGED <<count, client, name, fd, pos, err, disk, apps>>
    PROVE  UploadInv'
<1> UNCHANGED <<count, phase, asked, name, fd, pos, err, apps, temp, code, clash,
                sent, failed>>
  BY DEF client, disk
<1>1. Numbered' = Numbered BY DEF Numbered
<1>2. Unused' = Unused BY DEF Unused, Writer
<1>3. Apart' = Apart BY DEF Apart
<1>4. Separate' = Separate
  <2>1. \A c \in Conns : Sending(c)' = Sending(c) BY DEF Sending
  <2>2. \A c \in Conns, i \in 1..Parts : Kept(c, i)' = Kept(c, i) BY DEF Kept
  <2> QED BY <2>1, <2>2 DEF Separate
<1>5. Intact' = Intact BY DEF Intact, NoFailure, Complete
<1> QED BY <1>1, <1>2, <1>3, <1>4, <1>5 DEF UploadInv

LEMMA UploadsNext ==
    ASSUME TypesInv, UploadInv, [Next]_vars
    PROVE  UploadInv'
<1>t. DiskOK BY DEF TypesInv, Types
<1>1. ASSUME NEW c \in Conns, Step(c)
      PROVE  UploadInv'
  <2>1. Ids \cup {Null} \subseteq Targets BY <1>t, IdsAreTargets, Small
  <2>2. CASE Get(c) BY <2>2, GetUploads
  <2>3. ASSUME NEW i \in Ids \cup {Null}, Delete(c, i)
       PROVE  UploadInv'
    BY <2>1, <2>3, DeleteUploads
  <2>4. CASE Announce(c, "put", Null) BY <2>1, <2>4, AnnounceUploads
  <2>5. ASSUME NEW i \in Ids \cup {Null}, Announce(c, "post", i)
       PROVE  UploadInv'
    BY <2>1, <2>5, AnnounceUploads
  <2>6. ASSUME NEW i \in Ids \cup {Null}, NEW h \in Handlers, Call(c, i, h)
       PROVE  UploadInv'
    BY <2>1, <2>6, CallUploads
  <2>7. ASSUME NEW i \in Ids \cup {Null}, NEW h \in Handlers, Send(c, i, h)
       PROVE  UploadInv'
    BY <2>1, <2>7, SendUploads
  <2>8. CASE PutBody(c) BY <2>8, PutBodyUploads
  <2>9. CASE PutDone(c) BY <2>9, PutDoneUploads
  <2>10. ASSUME NEW f \in Files, Open(c, f) \/ OpenFails(c, f)
       PROVE  UploadInv'
    BY <2>10, OpenUploads
  <2>11. CASE BadField(c) BY <2>11, BadFieldUploads
  <2>12. ASSUME NEW last \in BOOLEAN, Content(c, last)
       PROVE  UploadInv'
    BY <2>1, <2>12, ContentUploads
  <2>13. CASE PostRefused(c) BY <2>13, PostRefusedUploads
  <2>14. ASSUME NEW d \in Dirs, PostNew(c, d)
       PROVE  UploadInv'
    BY <2>1, <2>14, PostNewUploads
  <2>15. CASE PostReload(c) BY <2>15, PostReloadUploads
  <2>16. CASE SendBody(c) BY <2>16, SendBodyUploads
  <2>17. CASE SendDone(c) BY <2>17, SendDoneUploads
  <2>18. CASE SendDies(c) \/ PostDies(c) BY <2>18, SendDiesUploads
  <2>19. CASE CopyDies(c) BY <2>19, CopyDiesUploads
  <2>20. CASE Drop(c) BY <2>20, DropUploads
  <2>21. CASE Copy(c) BY <2>21, CopyUploads
  <2>22. CASE Writeable(c) BY <2>22, WriteableUploads
  <2>23. CASE CallUnknown(c) BY <2>23, CallUnknownUploads
  <2>24. CASE PostWithoutFile(c) BY <2>24, PostWithoutFileUploads
  <2>a. CASE \E i \in {Null} \cup Ids : Delete(c, i) \/ Announce(c, "post", i)
    BY <2>a, <2>3, <2>5
  <2>b. CASE \E i \in Ids, h \in Handlers : Call(c, i, h) \/ Send(c, i, h)
    BY <2>b, <2>6, <2>7
  <2>c. CASE \E f \in Files : Open(c, f) \/ OpenFails(c, f) BY <2>c, <2>10
  <2> QED BY <1>1, <2>a, <2>b, <2>c, <2>2, <2>4, <2>8, <2>9, <2>11, <2>12, <2>13,
     <2>14, <2>15, <2>16, <2>17, <2>18, <2>19, <2>20, <2>21, <2>22, <2>23, <2>24
     DEF Step
<1>2. ASSUME NEW a \in Numbers, NEW n \in Numbers, EndsLater(a, n)
      PROVE  UploadInv'
  BY <1>2, IdleUploads DEF EndsLater, upload
<1>3. CASE Faults BY <1>3, IdleUploads DEF Faults, upload
<1>4. CASE Received BY <1>4, IdleUploads DEF Received, upload
<1>5. CASE UNCHANGED vars BY <1>5, IdleUploads DEF vars, upload
<1> QED BY <1>1, <1>2, <1>3, <1>4, <1>5 DEF Next

LEMMA UploadsAlways == Spec => []UploadInv
<1>1. TypesInv /\ UploadInv /\ [Next]_vars => UploadInv' BY UploadsNext
<1> QED BY <1>1, UploadsInit, TypesAlways, PTL DEF Spec

\* For any number of clients and pieces, and whatever was dropped, refused or cut
\* short before, the upload that was unpacked last under an application is there
\* with all its files, and is the one the application was made from, unless two
\* clients sent files of one name at a time or the disk failed
\* (post_request.cpp:143-180, 187-262).
THEOREM UploadIntactAlways == Spec => []UploadIntact
<1>1. TypesInv /\ UploadInv => UploadIntact
  BY DEF UploadInv, Intact, NoFailure, Complete, UploadIntact
<1> QED BY <1>1, TypesAlways, UploadsAlways, PTL

\* An archive from which an application was made is gone from the folder, also
\* when other clients have sent files of its name meanwhile, unless a file could
\* not be removed.
THEOREM ArchiveUsedOnceAlways == Spec => []ArchiveUsedOnce
<1>1. TypesInv /\ UploadInv => ArchiveUsedOnce
  <2> SUFFICES ASSUME TypesInv, UploadInv, "remove" \notin failed, NEW f \in Files,
                      Whole(temp[f]), NEW a \in apps
               PROVE  a.by # Writer(temp[f])
    BY DEF ArchiveUsedOnce
  <2>1. Writer(temp[f]) # 0 BY WholeHasWriter
  <2> QED BY <2>1 DEF UploadInv, Unused
<1> QED BY <1>1, TypesAlways, UploadsAlways, PTL

\* What a step does to the directories: none gets a file, or a form has ended and
\* one directory gets files of the upload that came with it.
Unpacks == \E c \in Conns, d \in Dirs :
              /\ InBody(c, "post") /\ phase'[c] = "reply" /\ clash' = clash
              /\ \A e \in Dirs \ {d} : code'[e] = code[e]
              /\ ~clash => Uploads(code'[d]) \subseteq
                              Uploads(code[d]) \cup {asked[c].n}

LEMMA UnpackUnpacks ==
    ASSUME TypesInv, UploadInv, NEW c \in Conns, Done(c), NEW d \in Dirs,
           NEW which, Unpack(c, d, which), NEW size, AnswerPost(c, size)
    PROVE  Unpacks
<1>1. /\ \A e \in Dirs \ {d} : code'[e] = code[e]
      /\ ~clash => Uploads(code'[d]) \subseteq Uploads(code[d]) \cup {asked[c].n}
  BY UnpackCode
<1>2. InBody(c, "post") /\ phase'[c] = "reply" /\ clash' = clash
  BY DEF Done, AnswerPost, Goto, TypesInv, Types, ClientOK
<1> QED BY <1>1, <1>2 DEF Unpacks

LEMMA StepUnpacks ==
    ASSUME TypesInv, UploadInv, NEW c \in Conns, Step(c)
    PROVE  \/ UNCHANGED code
           \/ \A d \in Dirs : code'[d] \in {code[d], NoFiles}
           \/ Unpacks
<1>1. CASE Get(c) \/ Announce(c, "put", Null) \/ CallUnknown(c)
  BY <1>1 DEF Get, Announce, CallUnknown, disk
<1>2. CASE \E i \in {Null} \cup Ids : Delete(c, i) \/ Announce(c, "post", i)
  BY <1>2 DEF Delete, Announce, disk
<1>3. CASE \E i \in Ids, h \in Handlers : Call(c, i, h) \/ Send(c, i, h)
  BY <1>3 DEF Call, Send, disk
<1>4. CASE \/ Copy(c) \/ CopyDies(c) \/ PutBody(c) \/ PutDone(c) \/ BadField(c)
           \/ PostRefused(c) \/ PostWithoutFile(c) \/ SendBody(c) \/ SendDone(c)
           \/ SendDies(c) \/ PostDies(c) \/ Writeable(c) \/ Drop(c)
  BY <1>4 DEF Copy, CopyDies, PutBody, PutDone, BadField, PostRefused,
     PostWithoutFile, SendBody, SendDone, SendDies, PostDies, Writeable,
     Drop, disk
<1>5. CASE \E f \in Files : Open(c, f) \/ OpenFails(c, f)
  BY <1>5 DEF Open, OpenFails, Opening
<1>6. CASE \E last \in BOOLEAN : Content(c, last) BY <1>6 DEF Content
<1>7. CASE \E d \in Dirs : PostNew(c, d)
  <2>1. PICK d \in Dirs, which \in Extents :
           /\ Done(c) /\ Unpack(c, d, which)
           /\ \/ \E gone, new : Load(c, gone, new)
              \/ AnswerPost(c, "short")
    BY <1>7 DEF PostNew
  <2>2. PICK size : AnswerPost(c, size) BY <2>1, LoadApps
  <2> QED BY <2>1, <2>2, UnpackUnpacks
<1>8. CASE PostReload(c)
  <2>1. PICK a \in apps, which \in Extents :
           /\ Done(c) /\ Unpack(c, a.dir, which)
           /\ \E gone, new : Load(c, gone, new)
    BY <1>8 DEF PostReload, With
  <2>2. PICK size : AnswerPost(c, size) BY <2>1, LoadApps
  <2>3. a.dir \in Dirs BY DEF TypesInv, Types, DiskOK, Apps
  <2> QED BY <2>1, <2>2, <2>3, UnpackUnpacks
<1> QED BY <1>1, <1>2, <1>3, <1>4, <1>5, <1>6, <1>7, <1>8 DEF Step

\* For any number of clients and pieces, and whatever fails on the disk, only the
\* end of an upload's own request puts files of that upload into a directory,
\* unless two clients sent files of one name at a time
\* (post_request.cpp:135-180, 187-219; file_ops.cpp:91-176).
THEOREM OwnFilesAlways == Spec => OwnFiles
<1>1. TypesInv /\ UploadInv /\ [Next]_vars =>
         [~clash' => \A d \in Dirs : \A n \in Uploads(code'[d]) \ Uploads(code[d]) :
             \E c \in Conns : /\ InBody(c, "post") /\ phase'[c] = "reply"
                             /\ asked[c].n = n]_vars
  <2> SUFFICES ASSUME TypesInv, UploadInv, Next, ~clash', NEW d \in Dirs,
                      NEW n \in Uploads(code'[d]) \ Uploads(code[d])
               PROVE  \E c \in Conns : /\ InBody(c, "post") /\ phase'[c] = "reply"
                                       /\ asked[c].n = n
    OBVIOUS
  <2>1. \/ UNCHANGED code
        \/ \A e \in Dirs : code'[e] \in {code[e], NoFiles}
        \/ Unpacks
    <3>1. CASE \E c \in Conns : Step(c) BY <3>1, StepUnpacks
    <3>2. CASE \E a, m \in Numbers : EndsLater(a, m) BY <3>2 DEF EndsLater, disk
    <3>3. CASE Faults \/ Received BY <3>3 DEF Faults, Received, disk
    <3> QED BY <3>1, <3>2, <3>3 DEF Next
  <2>2. CASE UNCHANGED code BY <2>2 DEF Uploads
  <2>3. CASE \A e \in Dirs : code'[e] \in {code[e], NoFiles}
    <3>1. Uploads(NoFiles) = {} BY DEF Uploads, NoFiles
    <3> QED BY <2>3, <3>1
  <2>4. CASE Unpacks
    <3>1. PICK c \in Conns, e \in Dirs :
             /\ InBody(c, "post") /\ phase'[c] = "reply" /\ clash' = clash
             /\ \A g \in Dirs \ {e} : code'[g] = code[g]
             /\ ~clash => Uploads(code'[e]) \subseteq
                             Uploads(code[e]) \cup {asked[c].n}
      BY <2>4 DEF Unpacks
    <3>2. d = e
      <4>1. d # e => Uploads(code'[d]) = Uploads(code[d]) BY <3>1
      <4> QED BY <4>1
    <3> QED BY <3>1, <3>2
  <2> QED BY <2>1, <2>2, <2>3, <2>4
<1> QED BY <1>1, TypesAlways, UploadsAlways, PTL DEF Spec, OwnFiles

=============================================================================
