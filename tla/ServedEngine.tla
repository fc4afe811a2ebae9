---------------------------- MODULE ServedEngine ----------------------------
(***************************************************************************)
(* Engine fed with the trace of a server: a system of two parts, the       *)
(* server, whose directories the exchanges of the trace change, and the    *)
(* replay, which learns of them from the trace alone.                      *)
(*                                                                         *)
(* The trace starts when the export is empty, so that every file is seen   *)
(* being created.                                                          *)
(***************************************************************************)
EXTENDS Engine

CONSTANT root   \* of the export

ASSUME RootAssumption == root \in Handle

VARIABLES
  kind, entry, length,  \* the server
  unsure                \* files whose length the tree does not know

Server == INSTANCE NfsServer

server == <<kind, entry, length>>
served == <<node, disk, err, server, unsure>>

\* The tree has the entry.
Knows(h, x) ==
  \E p \in DOMAIN node : node[p].fh = h /\ node[p].kids[x] # NoNode

\* The old and the new name of a RENAME are links to one file.
Twins(f) ==
  /\ f.res.op = "RENAME" /\ Server!Taken(f.req.fh2, f.req.name2)
  /\ entry[<<f.req.fh, f.req.name>>] = entry[<<f.req.fh2, f.req.name2>>]

Cold(f) == f.res.op = "RENAME" /\ ~Knows(f.req.fh, f.req.name)

\* The node of a new name does not know the length of the file, nor does that of a
\* file that a CREATE has left as it was.
Unsure(f) ==
  IF f.res.op = "LINK" THEN {f.req.fh}
  ELSE IF Server!Reopens(f) /\ f.res.size > 0 THEN {f.res.fh} ELSE {}

\* A frame of the trace is replayed; the calls of io fail.
Replayed(f, io) == Process(f, io) /\ unsure' = unsure \cup Unsure(f)

\* A frame of the trace is served, and replayed.
Frame == \E f \in Exchange, io \in Faults :
           ~Cold(f) /\ Server!Serve(f) /\ ~Twins(f) /\ Replayed(f, io)

\* So is a RENAME between two names of one file, which leaves both on the server.
\* renameFile treats them as two files.
TwinRename == \E f \in Exchange, io \in Faults :
                ~Cold(f) /\ Server!Serve(f) /\ Twins(f) /\ Replayed(f, io)

\* So is a RENAME of an entry the tree does not have.  renameFile ignores it.
ColdRename == \E f \in Exchange, io \in Faults :
                Cold(f) /\ Server!Serve(f) /\ Replayed(f, io)

\* A frame is served, but the capture has lost it.
LostFrame == \E f \in Exchange :
               /\ Server!Serve(f) /\ server' # server
               /\ UNCHANGED <<node, disk, err, unsure>>

Collection == \E time \in GcTimes : Collect(time) /\ UNCHANGED <<server, unsure>>

ServedInit == Init /\ Server!Init /\ unsure = {}

\* A complete trace in which the replay can follow every RENAME.
FollowedNext == err = NoError /\ (Frame \/ Collection)
FollowedSpec == ServedInit /\ [][FollowedNext]_served

\* A complete trace in which the replay knows what is renamed.
ServedNext == err = NoError /\ (Frame \/ TwinRename \/ Collection)
ServedSpec == ServedInit /\ [][ServedNext]_served

\* A complete trace.
CompleteNext == err = NoError /\ (Frame \/ TwinRename \/ ColdRename \/ Collection)
CompleteSpec == ServedInit /\ [][CompleteNext]_served

\* A trace with losses.
LossyNext == err = NoError /\ (Frame \/ TwinRename \/ ColdRename \/ LostFrame \/ Collection)
LossySpec == ServedInit /\ [][LossyNext]_served

-----------------------------------------------------------------------------
(* Properties.                                                             *)

\* What the tree says of a directory is true of the server: a child of a node
\* is the entry, under its name, of the server's directory with the node's
\* handle.
Mirror ==
  err = NoError =>
    \A n \in DOMAIN node :
      LET p == node[n].parent
      IN  p # NoNode => /\ Server!Taken(node[p].fh, node[n].name)
                        /\ entry[<<node[p].fh, node[n].name>>] = node[n].fh

\* A node is a directory exactly when its file is.
KindsKnown ==
  err = NoError =>
    \A n \in DOMAIN node : /\ node[n].fh \in DOMAIN kind
                           /\ node[n].dir = (kind[node[n].fh] = "DIR")

\* "No duplicate ids allowed" (engine.cpp:102): no two nodes stand for one
\* directory.  getNode finds any node with a handle, so that the entries of a
\* directory with two nodes would be split between them.
DirectoriesUnique ==
  err = NoError =>
    \A m, n \in DOMAIN node : node[m].fh = node[n].fh /\ node[m].dir => m = n

\* A trace that has lost no frame never ends the replay, unless memory runs out.
NoException == err \in {NoError, "Out of memory"}

\* What the tree says is created is on the disk.
CreatedOnDisk ==
  LET w == World({})
  IN  err = NoError => \A n \in DOMAIN node : node[n].created => Exists(disk, PathOf(w, n))

\* The directories above a created element are created: makePath made them, and
\* clearEmptyDir removes them from below.
AncestorsCreated ==
  err = NoError =>
    \A n \in DOMAIN node :
      node[n].created /\ node[n].parent # NoNode => node[node[n].parent].created

\* Nothing is left behind on the disk: what is there belongs to a node.
DiskTracked ==
  LET w == World({})
  IN  err = NoError => \A p \in DOMAIN disk.entry : \E n \in DOMAIN node : PathOf(w, n) = p

\* Along path q the server's entries lead through the files of s, from one whose handle
\* is the first name: that of the root, unless the tree has lost the place of a
\* directory.
Leads(s, q) ==
  /\ handleName[s[1]] = q[1]
  /\ \A i \in 1 .. Len(q) - 1 : /\ Server!Taken(s[i], q[i + 1])
                               /\ s[i + 1] = entry[<<s[i], q[i + 1]>>]

\* What is on the disk is the server's: every path leads to a file of the server, and
\* is a directory exactly when that is one.
DiskServed ==
  err = NoError =>
    \A q \in DOMAIN disk.entry :
      \E s \in [1 .. Len(q) -> Handle] :
        Leads(s, q) /\ (disk.entry[q].kind = "dir" <=> kind[s[Len(q)]] = "DIR")

\* The names of one file are hard links to one inode, those of two files are not.
LinksShared ==
  LET w == World({})
      Ino(n) == disk.entry[PathOf(w, n)].ino
  IN  err = NoError =>
        \A m, n \in {k \in DOMAIN node : node[k].created /\ ~node[k].dir
                                         /\ IsFile(disk, PathOf(w, k))} :
          Ino(m) = Ino(n) <=> node[m].fh = node[n].fh

\* Every regular file of the server that can be reached from the root was
\* recreated, at the path it has on the server.
FilesReplayed ==
  LET w == World({})
  IN  err = NoError =>
        \A k \in DOMAIN entry :
          kind[entry[k]] = "REG" =>
            \E n \in DOMAIN node :
              /\ node[n].created /\ node[n].name = k[2] /\ node[n].parent # NoNode
              /\ node[node[n].parent].fh = k[1] /\ node[n].fh = entry[k]
              /\ IsFile(disk, PathOf(w, n))

\* The files of the disk that stand for a server's file of another length.  A
\* CREATE that truncates takes effect on the disk with the next WRITE only: until
\* then the server's file is empty.
Misfit ==
  LET w == World({})
  IN  {n \in DOMAIN node :
         /\ node[n].created /\ IsFile(disk, PathOf(w, n)) /\ length[node[n].fh] # 0
         /\ SizeOf(disk, PathOf(w, n)) # length[node[n].fh]}

\* A replayed file has the length it has on the server, whatever was written to it,
\* and in whatever order, unless it has had a second name or a CREATE left it as it
\* was.  The tree's size, which no longer is the file's then, decides whether a WRITE
\* truncates (engine.cpp:285).
LengthsReplayed == err = NoError => {node[n].fh : n \in Misfit} \subseteq unsure

\* "replay NFS Traces for file system testing" (README.md:3): every replayed file has
\* the length it has on the server.
EveryLengthReplayed == err = NoError => Misfit = {}
=============================================================================
