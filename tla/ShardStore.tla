----------------------------- MODULE ShardStore -----------------------------
(***************************************************************************)
(* The files of ONE shard of a ShardStore (storage/src/shard_store.rs):    *)
(* shard_<i>.bin and shard_<i>.meta.json.  Different shards use different  *)
(* paths and never meet, so one pair of files is all the state there is.   *)
(*                                                                         *)
(* Every method takes &self and nothing locks, so any number of threads    *)
(* (Proc) may be inside store_shard, retrieve_shard and delete_shard at    *)
(* once.  A step is one system call: std::fs::write is an open that        *)
(* truncates followed by write(2) calls, std::fs::read an open followed by *)
(* read(2) calls, and a file removed while it is open lives on as an       *)
(* unnamed inode.  A thread may leave an operation after any step: an I/O  *)
(* error returned with `?', or the process being killed.                   *)
(*                                                                         *)
(* Data is a sequence of blocks, one write(2) each.  BLAKE3 is taken to be *)
(* free of collisions, so the hash in the metadata IS the data hashed.     *)
(***************************************************************************)
EXTENDS Naturals, Sequences

CONSTANTS
    Proc,       \* threads that use the store
    Block,      \* block contents
    Data,       \* what callers store: sequences of blocks
    Inode,      \* bound: inode numbers the file system may use
    Hole,       \* a block never written (a write past a truncation)
    Junk        \* left-over bytes after a shorter JSON document

ASSUME DataAssumption == Data \subseteq Seq(Block)
ASSUME SentinelAssumption == Hole \notin Block /\ Junk \notin Data

NoInode == "none"
ASSUME InodeAssumption == NoInode \notin Inode

VARIABLES
    dirent,     \* the directory: file name -> inode or NoInode
    content,    \* file name -> inode -> sequence of blocks
    pc,         \* where each thread is
    data,       \* store_shard: the argument
    buf,        \* blocks written so far (store) or read so far (retrieve)
    fd,         \* the inode a thread has open
    result,     \* outcome of the thread's last finished operation
    offered,    \* history: every data passed to store_shard
    solo,       \* history: the thread's operation met no other writer
    quiet,      \* history: what the disk must hold while nobody writes
    snap        \* history: quiet when the read began, if nobody wrote since

files == <<dirent, content>>
history == <<offered, solo, quiet, snap>>
storeVars == <<dirent, content, pc, data, buf, fd, result, offered, solo, quiet, snap>>

File == {"shard", "meta"}
StorePC  == {"s_open", "s_write", "m_write"}
ReadPC   == {"r_read", "r_meta"}
DeletePC == {"d_shard", "d_rm_shard", "d_meta", "d_rm_meta"}
Writing == StorePC \cup DeletePC
PC == {"idle"} \cup ReadPC \cup Writing

\* Outcomes, and what is known of the disk.
NoResult == [tag |-> "none", val |-> <<>>]
Err      == [tag |-> "err", val |-> <<>>]
Done     == [tag |-> "done", val |-> <<>>]
Ok(v)    == [tag |-> "ok", val |-> v]
Unknown  == [tag |-> "unknown", val |-> <<>>]
Deleted  == [tag |-> "deleted", val |-> <<>>]
Holds(d) == [tag |-> "holds", val |-> d]

StoreInit ==
    /\ dirent = [f \in File |-> NoInode]
    /\ content = [f \in File |-> [i \in Inode |-> <<>>]]
    /\ pc = [p \in Proc |-> "idle"]
    /\ data = [p \in Proc |-> <<>>]
    /\ buf = [p \in Proc |-> <<>>]
    /\ fd = [p \in Proc |-> NoInode]
    /\ result = [p \in Proc |-> NoResult]
    /\ offered = {}
    /\ solo = [p \in Proc |-> FALSE]
    /\ quiet = Unknown
    /\ snap = [p \in Proc |-> Unknown]

-----------------------------------------------------------------------------
(* The file system, as std::fs uses it *)

\* Inodes of file f that some thread has open.
Open(f) ==
    {fd[q] : q \in {r \in Proc : pc[r] \in IF f = "shard" THEN {"s_write", "r_read"}
                                                         ELSE {"m_write"}}}

\* File::create: truncate the named inode, or give the name a free one.
OpenTruncate(p, f) ==
    \/ /\ dirent[f] # NoInode
       /\ content' = [content EXCEPT ![f][dirent[f]] = <<>>]
       /\ fd' = [fd EXCEPT ![p] = dirent[f]]
       /\ UNCHANGED dirent
    \/ /\ dirent[f] = NoInode
       /\ \E i \in Inode \ Open(f) :
            /\ dirent' = [dirent EXCEPT ![f] = i]
            /\ content' = [content EXCEPT ![f][i] = <<>>]
            /\ fd' = [fd EXCEPT ![p] = i]

\* write(2) of block b at block offset k: a gap before it reads as holes.
Overwrite(s, k, b) ==
    [j \in 1..(IF Len(s) >= k THEN Len(s) ELSE k) |->
        IF j = k THEN b ELSE IF j <= Len(s) THEN s[j] ELSE Hole]

Unlink(f) == dirent' = [dirent EXCEPT ![f] = NoInode]

-----------------------------------------------------------------------------
(* Bookkeeping of the history variables *)

Idle(p) == pc[p] = "idle"

\* A thread enters an operation that writes: it is alone only if no other
\* thread is writing, and those it meets are not alone any more.
BeginWriting(p) ==
    LET others == {q \in Proc \ {p} : pc[q] \in Writing} IN
    /\ solo' = [q \in Proc |-> IF q = p THEN others = {} ELSE FALSE]
    /\ quiet' = Unknown
    /\ snap' = [q \in Proc |-> Unknown]

\* A thread returns from its operation.
Finish(p, outcome) ==
    /\ pc' = [pc EXCEPT ![p] = "idle"]
    /\ fd' = [fd EXCEPT ![p] = NoInode]
    /\ data' = [data EXCEPT ![p] = <<>>]
    /\ buf' = [buf EXCEPT ![p] = <<>>]
    /\ result' = [result EXCEPT ![p] = outcome]

\* A write operation succeeded: if it met no other, the disk is known.
Settle(p, disk) ==
    /\ quiet' = IF solo[p] THEN disk ELSE quiet
    /\ UNCHANGED <<offered, solo, snap>>

-----------------------------------------------------------------------------
(* store_shard *)

store_shard(p, d) ==
    /\ Idle(p)
    /\ pc' = [pc EXCEPT ![p] = "s_open"]
    /\ data' = [data EXCEPT ![p] = d]
    /\ result' = [result EXCEPT ![p] = NoResult]
    /\ offered' = offered \cup {d}
    /\ BeginWriting(p)
    /\ UNCHANGED <<dirent, content, buf, fd>>

s_open(p) ==
    /\ pc[p] = "s_open"
    /\ OpenTruncate(p, "shard")
    /\ pc' = [pc EXCEPT ![p] = "s_write"]
    /\ UNCHANGED <<data, buf, result, history>>

s_write(p) ==
    /\ pc[p] = "s_write"
    /\ Len(buf[p]) < Len(data[p])
    /\ LET k == Len(buf[p]) + 1  b == data[p][k] IN
       /\ content' = [content EXCEPT !["shard"][fd[p]] = Overwrite(@, k, b)]
       /\ buf' = [buf EXCEPT ![p] = Append(@, b)]
    /\ UNCHANGED <<dirent, pc, data, fd, result, history>>

\* save_meta, its first system call; the shard file is closed by then.
save_meta_open(p) ==
    /\ pc[p] = "s_write"
    /\ Len(buf[p]) = Len(data[p])
    /\ OpenTruncate(p, "meta")
    /\ pc' = [pc EXCEPT ![p] = "m_write"]
    /\ UNCHANGED <<data, buf, result, history>>

\* The JSON document is one write(2).  Over another thread's longer document
\* (timestamps and sizes vary in length) it leaves a tail that does not parse.
save_meta_write(p) ==
    /\ pc[p] = "m_write"
    /\ \E doc \in {<<data[p]>>, <<data[p], Junk>>} :
         /\ doc # <<data[p]>> => content["meta"][fd[p]] # <<>>
         /\ content' = [content EXCEPT !["meta"][fd[p]] = doc]
    /\ Finish(p, Done)
    /\ Settle(p, Holds(data[p]))
    /\ UNCHANGED dirent

-----------------------------------------------------------------------------
(* retrieve_shard *)

retrieve_shard(p) ==
    /\ Idle(p)
    /\ dirent["shard"] # NoInode
    /\ pc' = [pc EXCEPT ![p] = "r_read"]
    /\ fd' = [fd EXCEPT ![p] = dirent["shard"]]
    /\ result' = [result EXCEPT ![p] = NoResult]
    /\ snap' = [snap EXCEPT ![p] = quiet]
    /\ UNCHANGED <<files, data, buf, offered, solo, quiet>>

retrieve_missing(p) ==
    /\ Idle(p)
    /\ dirent["shard"] = NoInode
    /\ Finish(p, Err)
    /\ snap' = [snap EXCEPT ![p] = quiet]
    /\ UNCHANGED <<files, offered, solo, quiet>>

\* Mistake: one read(2) is taken to return the whole file.
r_read_short(p) ==
    /\ pc[p] = "r_read"
    /\ LET s == content["shard"][fd[p]] IN
       buf' = [buf EXCEPT ![p] = IF s = <<>> THEN <<>> ELSE <<s[1]>>]
    /\ pc' = [pc EXCEPT ![p] = "r_meta"]
    /\ UNCHANGED <<files, data, fd, result, history>>

r_read(p) ==
    /\ pc[p] = "r_read"
    /\ LET s == content["shard"][fd[p]]  k == Len(buf[p]) + 1 IN
       \/ /\ k <= Len(s)
          /\ buf' = [buf EXCEPT ![p] = Append(@, s[k])]
          /\ UNCHANGED <<pc, fd>>
       \/ /\ k > Len(s)                                       \* end of file
          /\ pc' = [pc EXCEPT ![p] = "r_meta"]
          /\ fd' = [fd EXCEPT ![p] = NoInode]
          /\ UNCHANGED buf
    /\ UNCHANGED <<files, data, result, history>>

\* load_meta succeeds when the file is there and is one whole document.
Parses(doc) == Len(doc) = 1

\* Mistake: the hash is not compared.
load_meta_and_verify_nothing(p) ==
    /\ pc[p] = "r_meta"
    /\ LET m == dirent["meta"] IN
       Finish(p, IF m # NoInode /\ Parses(content["meta"][m])
                 THEN Ok(buf[p]) ELSE Err)
    /\ UNCHANGED <<files, history>>

load_meta_and_verify(p) ==
    /\ pc[p] = "r_meta"
    /\ LET m == dirent["meta"] IN
       Finish(p, IF /\ m # NoInode
                    /\ Parses(content["meta"][m])
                    /\ content["meta"][m][1] = buf[p]
                 THEN Ok(buf[p]) ELSE Err)
    /\ UNCHANGED <<files, history>>

-----------------------------------------------------------------------------
(* delete_shard *)

delete_shard(p) ==
    /\ Idle(p)
    /\ pc' = [pc EXCEPT ![p] = "d_shard"]
    /\ result' = [result EXCEPT ![p] = NoResult]
    /\ BeginWriting(p)
    /\ UNCHANGED <<files, data, buf, fd, offered>>

\* shard_path.exists()
d_shard(p) ==
    /\ pc[p] = "d_shard"
    /\ pc' = [pc EXCEPT ![p] = IF dirent["shard"] # NoInode
                               THEN "d_rm_shard" ELSE "d_meta"]
    /\ UNCHANGED <<files, data, buf, fd, result, history>>

\* remove_file(&shard_path): an error when another thread removed it first.
d_rm_shard(p) ==
    /\ pc[p] = "d_rm_shard"
    /\ \/ /\ dirent["shard"] # NoInode
          /\ Unlink("shard")
          /\ pc' = [pc EXCEPT ![p] = "d_meta"]
          /\ UNCHANGED <<content, data, buf, fd, result, history>>
       \/ /\ dirent["shard"] = NoInode
          /\ Finish(p, Err)
          /\ UNCHANGED <<files, history>>

\* Mistake: the metadata file is left behind.
d_meta_forgotten(p) ==
    /\ pc[p] = "d_meta"
    /\ Finish(p, Done)
    /\ Settle(p, Deleted)
    /\ UNCHANGED files

\* meta_path.exists()
d_meta(p) ==
    /\ pc[p] = "d_meta"
    /\ \/ /\ dirent["meta"] # NoInode
          /\ pc' = [pc EXCEPT ![p] = "d_rm_meta"]
          /\ UNCHANGED <<files, data, buf, fd, result, history>>
       \/ /\ dirent["meta"] = NoInode
          /\ Finish(p, Done)
          /\ Settle(p, Deleted)
          /\ UNCHANGED files

d_rm_meta(p) ==
    /\ pc[p] = "d_rm_meta"
    /\ \/ /\ dirent["meta"] # NoInode
          /\ Unlink("meta")
          /\ Finish(p, Done)
          /\ Settle(p, Deleted)
          /\ UNCHANGED content
       \/ /\ dirent["meta"] = NoInode
          /\ Finish(p, Err)
          /\ UNCHANGED <<files, history>>

-----------------------------------------------------------------------------
\* An I/O error or a kill ends the operation where it is; the disk stays.
Abandon(p) ==
    /\ ~Idle(p)
    /\ Finish(p, NoResult)
    /\ UNCHANGED <<files, history>>

Step(p) ==
    \/ \E d \in Data : store_shard(p, d)
    \/ s_open(p) \/ s_write(p) \/ save_meta_open(p) \/ save_meta_write(p)
    \/ retrieve_shard(p) \/ retrieve_missing(p) \/ r_read(p)
    \/ load_meta_and_verify(p)
    \/ delete_shard(p) \/ d_shard(p) \/ d_rm_shard(p) \/ d_meta(p)
    \/ d_rm_meta(p)
    \/ Abandon(p)

StoreNext == \E p \in Proc : Step(p)

StoreSpec == StoreInit /\ [][StoreNext]_storeVars

-----------------------------------------------------------------------------
(* Properties *)

Outcome == [tag : {"none", "err", "done", "ok"}, val : Seq(Block \cup {Hole})]
Disk == [tag : {"unknown", "deleted", "holds"}, val : Data \cup {<<>>}]

\* The type invariant: a name refers to an inode, metadata is made of hashes
\* of data that some caller stored, and a thread that writes or reads a file
\* has it open.
TypeOK ==
    /\ dirent \in [File -> Inode \cup {NoInode}]
    /\ DOMAIN content = File
    /\ content["shard"] \in [Inode -> Seq(Block \cup {Hole})]
    /\ content["meta"] \in [Inode -> Seq(offered \cup {Junk})]
    /\ pc \in [Proc -> PC]
    /\ data \in [Proc -> offered \cup {<<>>}]
    /\ buf \in [Proc -> Seq(Block \cup {Hole})]
    /\ fd \in [Proc -> Inode \cup {NoInode}]
    /\ offered \subseteq Data
    /\ solo \in [Proc -> BOOLEAN]
    /\ result \in [Proc -> Outcome]
    /\ quiet \in Disk
    /\ snap \in [Proc -> Disk]
    /\ \A p \in Proc :
         /\ pc[p] \in StorePC => data[p] \in offered
         /\ pc[p] \in {"s_write", "m_write", "r_read"} => fd[p] \in Inode

\* Integrity: whatever stores, deletes and crashes it runs against, a
\* retrieve_shard that succeeds returns data that some caller stored, never a
\* torn file, a mix of two stores or the zeros of a hole.
RetrieveSound ==
    \A p \in Proc : pc[p] = "idle" /\ result[p].tag = "ok" =>
        result[p].val \in offered

\* Durability: once a store_shard or delete_shard that met no other writer has
\* returned, and until the next one starts, the directory holds exactly that
\* shard with its metadata, or neither file, whatever was left by operations
\* that were cut off before.
QuietDisk ==
    LET s == dirent["shard"]  m == dirent["meta"] IN
    /\ quiet.tag = "holds" =>
         /\ s # NoInode /\ content["shard"][s] = quiet.val
         /\ m # NoInode /\ content["meta"][m] = <<quiet.val>>
    /\ quiet.tag = "deleted" => s = NoInode /\ m = NoInode

\* Reads do not fail by themselves: a retrieve_shard during which nobody wrote
\* returns exactly what the last undisturbed store wrote, and fails after an
\* undisturbed delete.
QuietReadCorrect ==
    \A p \in Proc : pc[p] = "idle" /\ result[p] # NoResult =>
        /\ snap[p].tag = "holds" => result[p] = Ok(snap[p].val)
        /\ snap[p].tag = "deleted" => result[p] = Err

=============================================================================
