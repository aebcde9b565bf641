---------------------------- MODULE AppRegistry ----------------------------
(***************************************************************************)
(* The applications of one device: the directories they are deployed to,   *)
(* the registry applications_, and the ids that REST clients and the RR    *)
(* manager know them by. Applications are constructed and deleted by one   *)
(* thread at a time, main() at start and the HTTP thread later, so a step  *)
(* is one request, or one directory loaded at start.                       *)
(*                                                                         *)
(* Relative paths are taken to lead to the program's own directory.        *)
(***************************************************************************)
EXTENDS Integers

CONSTANTS
    Names,      \* folder names in archives, and names in package.json
    Packages,   \* what an archive may contain
    NoId,       \* for a package.json without an id
    Plain,      \* for a directory without an id in its name
    Heaps,      \* bound: applications at the same time, named by their heap
    MaxId,      \* bound: the highest id in use
    Restarts    \* whether the server may stop and start again

Ids  == 0..MaxId
Dirs == Names \X (Ids \cup {Plain})       \* applications/name[-id]

\* "threw": package.json is no JSON; "refused": liquidiot.json is not read;
\* "nan": the id in package.json is a string that is no number.
Forms == {"good", "threw", "refused", "nan"}

ASSUME BoundsAssumption == MaxId \in Nat /\ Restarts \in BOOLEAN
ASSUME MarksAssumption == NoId \notin Int /\ Plain \notin Int
ASSUME PackagesAssumption ==
    Packages \subseteq [name : Names, id : Ids \cup {NoId}, form : Forms]

VARIABLES
    up,      \* "loading", "serving" or "dead"
    disk,    \* the directories, with the package in each
    todo,    \* those loadApplications() has yet to visit
    reg,     \* applications_
    nextId   \* next_id_
vars == <<up, disk, todo, reg, nextId>>

Entry == [id : Ids \cup {NoId}, dir : Dirs, freed : BOOLEAN]

\* An entry whose JSApplication was freed when its constructor threw.
Live  == {k \in DOMAIN reg : ~reg[k].freed}
Freed == DOMAIN reg \ Live
LiveIds == {reg[k].id : k \in Live}

Without(f, k) == [x \in DOMAIN f \ {k} |-> f[x]]
With(f, k, v) == [x \in DOMAIN f \cup {k} |-> IF x = k THEN v ELSE f[x]]

Init == /\ up = "serving" /\ todo = {} /\ nextId = 0
        /\ disk = [d \in {} |-> Plain] /\ reg = [k \in {} |-> Plain]

-----------------------------------------------------------------------------
(* JSApplication's constructor, for package p in a directory; id is given   *)
(* in a POST to /app/{id}, and NoId otherwise                               *)

\* Mutant: no id is set when none is given.
AppIdGiven(p, id) == IF p.id # NoId THEN p.id ELSE id

\* Mutant: the id of the URL is not looked at.
AppIdFresh(p, id) == IF p.id # NoId THEN p.id ELSE nextId

\* the id of package.json, or that of the URL, or the next free one
AppId(p, id) == IF p.id # NoId THEN p.id ELSE IF id # NoId THEN id ELSE nextId

\* Mutant: the id is handed out, and no new one generated.
KeepNextId(others, p, id) == nextId' = nextId

\* getNextId(true), when the id was the next free one: the search goes over the
\* ids in the registry, in which a freed entry may read as anything.
AdvanceNextId(others, p, id) ==
    IF p.id # NoId \/ id # NoId THEN nextId' = nextId
    ELSE LET used == {others[k].id : k \in {j \in DOMAIN others :
                                                ~others[j].freed}}
             free == {n \in Ids : n > nextId /\ n \notin used}
         IN  \E n \in free :
                /\ (\E k \in DOMAIN others : others[k].freed)
                      \/ \A m \in free : n <= m
                /\ nextId' = n

\* It succeeds; the application ends up in directory d.
Starts(others, p, id, d) ==
    /\ p.form = "good"
    /\ \E k \in Heaps \ DOMAIN others :
          reg' = With(others, k, [id |-> AppId(p, id), dir |-> d,
                                  freed |-> FALSE])
    /\ AdvanceNextId(others, p, id)

\* init() returns false, and shutdownApplication() takes the new application
\* out of the registry again; or read_package_json() throws through init().
Fails(others, p, id, d) ==
    \/ /\ p.form = "refused"
       /\ reg' = others
       /\ AdvanceNextId(others, p, id)
    \/ /\ p.form = "threw"
       /\ \E k \in Heaps \ DOMAIN others :
             reg' = With(others, k, [id |-> id, dir |-> d, freed |-> TRUE])
       /\ UNCHANGED nextId

\* stoi() throws what nobody catches
Kills(p) == p.form = "nan"

Dies == up' = "dead" /\ UNCHANGED <<todo, reg, nextId>>

-----------------------------------------------------------------------------
(* Start-up and restart                                                    *)

LoadApplication ==
    /\ up = "loading"
    /\ \E d \in todo :
          /\ todo' = todo \ {d}
          /\ Starts(reg, disk[d], NoId, d) \/ Fails(reg, disk[d], NoId, d)
    /\ UNCHANGED <<up, disk>>

LoadDies ==
    /\ up = "loading"
    /\ \E d \in todo : Kills(disk[d])
    /\ Dies /\ UNCHANGED disk

Serve == up = "loading" /\ todo = {} /\ up' = "serving"
         /\ UNCHANGED <<disk, todo, reg, nextId>>

\* The process ended, by SIGINT or by a fault, and is started again.
Restart ==
    /\ Restarts /\ up \in {"serving", "dead"}
    /\ up' = "loading" /\ todo' = DOMAIN disk
    /\ reg' = [k \in {} |-> Plain] /\ nextId' = 0
    /\ UNCHANGED disk

-----------------------------------------------------------------------------
(* Requests                                                                *)

\* The directory is renamed to the application's name, or to name-id when the
\* name is taken by another directory.
Home(files, d, name, id) ==
    IF <<name, Plain>> \in DOMAIN files \ {d} THEN <<name, id>>
    ELSE <<name, Plain>>

\* Mutant: the application keeps the path it was constructed with.
MovedOnly(others, files, d, p, id) ==
    LET home == Home(files, d, p.name, AppId(p, id))
    IN  /\ home \notin DOMAIN files \ {d}
        /\ Starts(others, p, id, d)
        /\ disk' = With(Without(files, d), home, p)

\* The application starts, and its directory is moved.
Moved(others, files, d, p, id) ==
    LET home == Home(files, d, p.name, AppId(p, id))
    IN  /\ home \notin DOMAIN files \ {d}
        /\ Starts(others, p, id, home)
        /\ disk' = With(Without(files, d), home, p)

\* fs::rename() onto a directory that is not empty throws through the handler.
MoveDies(files, d, p, id) ==
    /\ p.form = "good"
    /\ Home(files, d, p.name, AppId(p, id)) \in DOMAIN files \ {d}
    /\ disk' = files
    /\ Dies

\* A POST that creates an application: a failure is answered with an error.
Deploy(files, d, p) ==
    \/ Moved(reg, files, d, p, NoId) /\ UNCHANGED <<up, todo>>
    \/ Fails(reg, p, NoId, d) /\ disk' = files /\ UNCHANGED <<up, todo>>
    \/ MoveDies(files, d, p, NoId)
    \/ Kills(p) /\ disk' = files /\ Dies

\* A POST that reloads one, k: it is shut down and a new one constructed. On
\* failure the old object is deleted with its js_instance_ not joined, which
\* ends the process.
Reload(k, files, p, id) ==
    LET d == reg[k].dir
        others == Without(reg, k)
    IN  \/ Moved(others, files, d, p, id) /\ UNCHANGED <<up, todo>>
        \/ MoveDies(files, d, p, id)
        \/ p.form # "good" /\ disk' = files /\ Dies

\* POST /app: the archive is extracted to its own folder, which may be that of
\* an application already running; that one is reloaded, under a new id.
PostApp(name, p) ==
    LET d == <<name, Plain>>
        files == With(disk, d, p)
        owners == {k \in Live : reg[k].dir = d}
    IN  /\ up = "serving"
        /\ \/ owners = {} /\ Deploy(files, d, p)
           \/ \E k \in owners : Reload(k, files, p, NoId)

\* POST /app/{id}: extracted over the application's directory
PostAppId(id, p) ==
    /\ up = "serving"
    /\ \E k \in Live :
          /\ reg[k].id = id
          /\ Reload(k, With(disk, reg[k].dir, p), p, id)

\* DELETE /app/{id}: the first application with that id, in heap order
Delete(id) ==
    /\ up = "serving"
    /\ \E k \in Live :
          /\ reg[k].id = id
          /\ disk' = Without(disk, reg[k].dir)
          /\ reg' = Without(reg, k)
    /\ UNCHANGED <<up, todo, nextId>>

\* DELETE /app: every application in the registry
DeleteAll ==
    /\ up = "serving" /\ Freed = {}
    /\ disk' = [d \in DOMAIN disk \ {reg[k].dir : k \in Live} |-> disk[d]]
    /\ reg' = [k \in {} |-> Plain]
    /\ UNCHANGED <<up, todo, nextId>>

\* any request looks through the registry, and may fault on a freed entry
Fault == up = "serving" /\ Freed # {} /\ Dies /\ UNCHANGED disk

Next ==
    \/ LoadApplication \/ LoadDies \/ Serve \/ Restart
    \/ \E name \in Names, p \in Packages : PostApp(name, p)
    \/ \E id \in Ids, p \in Packages : PostAppId(id, p)
    \/ \E id \in Ids : Delete(id)
    \/ DeleteAll \/ Fault

Spec == Init /\ [][Next]_vars
-----------------------------------------------------------------------------
\* The type of every variable; an application that runs has an id.
TypeOK ==
    /\ up \in {"loading", "serving", "dead"}
    /\ DOMAIN disk \subseteq Dirs /\ disk \in [DOMAIN disk -> Packages]
    /\ todo \subseteq DOMAIN disk
    /\ DOMAIN reg \subseteq Heaps /\ reg \in [DOMAIN reg -> Entry]
    /\ LiveIds \subseteq Ids
    /\ nextId \in Ids

\* Two applications never have the same id, whatever is deployed, reloaded,
\* deleted or fails to start, and in whatever order directories are loaded, as
\* long as no package defines one (application.cpp:793-812, 1417-1426).
UniqueIds == \A j, k \in Live : reg[j].id = reg[k].id => j = k

\* Every application has a directory of its own which holds what it was started
\* from, so that a restart finds it (post_request.cpp:235-282).
DirsApart ==
    /\ \A k \in Live : /\ reg[k].dir \in DOMAIN disk
                       /\ up # "dead" => disk[reg[k].dir].form = "good"
    /\ \A j, k \in Live : reg[j].dir = reg[k].dir => j = k

\* A POST to /app/{id} leaves an application with that id, or the server stops
\* (post_request.cpp:253): the new one does not take a fresh id.
ReloadKeepsId ==
    [][\A id \in Ids :
         (\E p \in Packages : PostAppId(id, p) /\ p.id = NoId)
            => up' = "dead" \/ id \in LiveIds']_vars

\* The applications that are alive, with their ids, are what AppNames promises:
\* each step of the registry, with failing constructors, reloads and restarts,
\* is a step of AppNames or leaves the ids alone (application.cpp:666-735,
\* 793-812).
Naming == INSTANCE AppNames WITH names <- [k \in Live |-> reg[k].id]
ImplementsAppNames == Naming!Spec
=============================================================================
