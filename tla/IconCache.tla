------------------------------ MODULE IconCache ------------------------------
(***************************************************************************)
(* StatusIconManager::load_or_reload, status/icon.rs, for one icon file:   *)
(* status pings run it concurrently while somebody edits the file.  The    *)
(* contents of the file are numbered in the order they are written; 0      *)
(* stands for a file that is not there.  A file that is no PNG, too short  *)
(* or gone is an icon that cannot be loaded.                               *)
(***************************************************************************)
EXTENDS Naturals, FiniteSets

CONSTANTS
    Pings,       \* tasks that answer status pings
    MaxWrites,   \* bound: edits of the file
    Broken       \* contents from_bytes rejects

ASSUME IconAssumption ==
    MaxWrites \in Nat /\ 0 \notin Broken

VARIABLES
    content,  \* of the file
    mtime,    \* modification time of the file
    writes,   \* edits so far
    cache,    \* the cached icon: its content, last_modified and whether it was torn
    pc,       \* where each ping's task is
    bytes,    \* what it has read
    stat,     \* the modification time it has seen
    torn,     \* tasks that an edit has come between their read and their metadata call
    served    \* the icon of the last answer

vars == <<content, mtime, writes, cache, pc, bytes, stat, torn, served>>

Empty == [content |-> 0, mtime |-> 0, torn |-> FALSE]
NoIcon == 0

\* preload_all has read the file, if there is one.
Init ==
    /\ content \in {0, 1} /\ mtime = content /\ writes = 0
    /\ cache = [content |-> content, mtime |-> mtime, torn |-> FALSE]
    /\ pc = [p \in Pings |-> "idle"]
    /\ bytes = [p \in Pings |-> 0]
    /\ stat = [p \in Pings |-> 0]
    /\ torn = {}
    /\ served = [p \in Pings |-> NoIcon]

Set(f, p, v) == [f EXCEPT ![p] = v]

-----------------------------------------------------------------------------
(* The editor.                                                              *)

Touch ==
    /\ writes < MaxWrites
    /\ writes' = writes + 1
    /\ torn' = torn \cup {p \in Pings : pc[p] = "stat"}

\* Every edit has a modification time of its own.
Edit ==
    /\ Touch
    /\ content' = writes + 2 /\ mtime' = writes + 2
    /\ UNCHANGED <<cache, pc, bytes, stat, served>>

Delete ==
    /\ Touch /\ content # 0
    /\ content' = 0 /\ mtime' = 0
    /\ UNCHANGED <<cache, pc, bytes, stat, served>>

-----------------------------------------------------------------------------
(* load_or_reload, one step for each access to the file or to the cache.    *)

Answer(p, icon) ==
    /\ served' = Set(served, p, icon)
    /\ pc' = Set(pc, p, "idle")

\* Mutant: a cached icon is served without a look at the file.
LookupTrusting(p) ==
    /\ pc[p] = "idle"
    /\ \/ cache # Empty /\ Answer(p, cache.content)
       \/ cache = Empty /\ pc' = Set(pc, p, "read") /\ UNCHANGED served
    /\ UNCHANGED <<content, mtime, writes, cache, bytes, stat, torn>>

\* The cached icon is served if the file is unchanged, or if it is gone.  The read lock
\* is held over the metadata call, so that the comparison is with what is cached now.
Lookup(p) ==
    /\ pc[p] = "idle"
    /\ \/ cache # Empty /\ (content = 0 \/ cache.mtime = mtime) /\ Answer(p, cache.content)
       \/ ~(cache # Empty /\ (content = 0 \/ cache.mtime = mtime))
            /\ pc' = Set(pc, p, "read") /\ UNCHANGED served
    /\ UNCHANGED <<content, mtime, writes, cache, bytes, stat, torn>>

\* fs::read and from_bytes' checks; an icon that cannot be loaded is no icon.
Read(p) ==
    /\ pc[p] = "read"
    /\ \/ /\ content \notin Broken \cup {0}
          /\ bytes' = Set(bytes, p, content)
          /\ pc' = Set(pc, p, "stat")
          /\ UNCHANGED served
       \/ /\ content \in Broken \cup {0}
          /\ Answer(p, NoIcon)
          /\ UNCHANGED bytes
    /\ torn' = torn \ {p}
    /\ UNCHANGED <<content, mtime, writes, cache, stat>>

\* fs::metadata; a file that has gone leaves last_modified empty.
Stat(p) ==
    /\ pc[p] = "stat"
    /\ stat' = Set(stat, p, mtime)
    /\ pc' = Set(pc, p, "insert")
    /\ UNCHANGED <<content, mtime, writes, cache, bytes, torn, served>>

\* Mutant: the modification time is taken again when the icon is inserted.
InsertRestamped(p) ==
    /\ pc[p] = "insert"
    /\ cache' = [content |-> bytes[p], mtime |-> mtime, torn |-> p \in torn]
    /\ Answer(p, bytes[p])
    /\ UNCHANGED <<content, mtime, writes, bytes, stat, torn>>

Insert(p) ==
    /\ pc[p] = "insert"
    /\ cache' = [content |-> bytes[p], mtime |-> stat[p], torn |-> p \in torn]
    /\ Answer(p, bytes[p])
    /\ UNCHANGED <<content, mtime, writes, bytes, stat, torn>>

-----------------------------------------------------------------------------
Ping(p) == Lookup(p) \/ Read(p) \/ Stat(p) \/ Insert(p)
Next == Edit \/ Delete \/ \E p \in Pings : Ping(p)
Spec == Init /\ [][Next]_vars

-----------------------------------------------------------------------------
(* Properties.                                                              *)

Good == content \notin Broken \cup {0}

\* A cached icon that carries the file's modification time is the file's content, also
\* when two pings reload at once and the older one is inserted last, unless the file was
\* replaced between the read and the metadata call of the ping that cached it.
CacheMatchesFile ==
    cache # Empty /\ content # 0 /\ cache.mtime = mtime /\ ~cache.torn => cache.content = content

\* Hot reload: when a good icon stays on disk, every ping comes to serve it; nothing but
\* such a torn read can leave an old icon behind.
HotReload ==
    <>[](writes = MaxWrites /\ ~cache.torn) => \A p \in Pings : <>[](Good => served[p] = content)
=============================================================================
