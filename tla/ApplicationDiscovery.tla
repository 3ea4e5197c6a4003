-------------------------- MODULE ApplicationDiscovery --------------------------
(***************************************************************************)
(* One refresh of the application catalog, as the index worker runs it:    *)
(* the roots are walked in order of precedence, one directory entry or one *)
(* file per step, and TryExec is then evaluated for one visible entry per  *)
(* step, while other programs install and remove files (ChangeFile).       *)
(*                                                                         *)
(* disk[root][path] is what is there; the root itself is the path <<>>.    *)
(* A directory is "unreadable" when it cannot be listed, "unsearchable"    *)
(* when it can be but its entries cannot be examined.  "other" is a        *)
(* symbolic link to a directory, or a special file.                        *)
(***************************************************************************)
EXTENDS DesktopEntries, Subsequences

CONSTANTS
    PathOrder,        \* all paths but the root's, in byte order
    InitialDisks,     \* the disks and programs a run may start from
    InitialPrograms,
    DiskChanges,      \* <<root, path, node>>: what others may do to the disk
    MaxDiskChanges,   \* bound
    Limits,           \* nodes, directories, candidates, entries and depth
    RejectedLocations \* <<root, path>>: too long as a whole, or with a control character

Paths == ToSet(PathOrder)
Locations == Paths \cup { <<>> }

(* Every path is in the root or in a directory with a path, and there is   *)
(* at least one root.                                                      *)
ASSUME DiscoveryAssumption ==
    /\ PathOrder \in Seq(Seq(Seq(STRING)) \ { <<>> })
    /\ \A p \in Paths : \A n \in 0..Len(p) : SubSeq(p, 1, n) \in Locations
    /\ \A d \in InitialDisks :
           /\ Len(d) \in Nat \ {0}
           /\ d = [root \in 1..Len(d) |-> [p \in Locations |-> d[root][p]]]

VARIABLES disk, programs, diskChanges, scan,
          touched     \* history: what changed since the scan began
diskVars == <<disk, programs, diskChanges>>
discoveryVars == <<disk, programs, diskChanges, scan, touched>>

AbsentNode == [kind |-> "absent", document |-> <<>>]
DirectoryKinds == {"directory", "unreadable", "unsearchable"}
(* What is in a directory that is gone cannot be found.                    *)
Kind(root, path) ==
    IF \A n \in 0..(Len(path) - 1) : disk[root][SubSeq(path, 1, n)].kind \in DirectoryKinds
    THEN disk[root][path].kind ELSE "absent"
Sorted(paths) == Kept(PathOrder, {n \in DOMAIN PathOrder : PathOrder[n] \in paths})
(* The root comes before everything in it.                                 *)
Smallest(directories) == IF <<>> \in directories THEN <<>> ELSE Head(Sorted(directories))

Children(root, directory) ==
    {p \in Paths : Front(p) = directory /\ Kind(root, p) # "absent"}

ScanOf(root) ==
    [phase |-> "startRoot", root |-> root, pending |-> {}, active |-> Absent,
     iterating |-> FALSE, listed |-> {}, unexamined |-> <<>>, candidates |-> {},
     queue |-> <<>>, nodes |-> 0, directories |-> 0, stop |-> FALSE,
     claimed |-> {}, entries |-> <<>>, visible |-> <<>>,
     cursor |-> 1, eligible |-> <<>>, error |-> "none"]

NewScan == ScanOf(1)
NoScan  == [NewScan EXCEPT !.phase = "none"]

(* A refresh goes on with the catalog when the discovery is complete.      *)
Finish(s) == [s EXCEPT !.phase = "catalog"]
MarkTruncated(s) == [s EXCEPT !.stop = TRUE]

AdvanceRoot(s) ==
    IF s.root = Len(disk) THEN Finish(s)
    ELSE [ScanOf(s.root + 1) EXCEPT !.claimed = s.claimed, !.entries = s.entries,
                                    !.visible = s.visible]

(* A root that cannot be read as a whole contributes nothing, and is the   *)
(* last one: what it would have shadowed must not appear.                  *)
DropRoot(s) ==
    [MarkTruncated(s) EXCEPT !.phase = "process", !.pending = {}, !.active = Absent,
        !.iterating = FALSE, !.listed = {}, !.unexamined = <<>>, !.candidates = {}, !.queue = <<>>]

InPhase(phase) == scan.phase = phase
Scanning(active, iterating) ==
    InPhase("scanRoot") /\ (scan.active # Absent) = active /\ scan.iterating = iterating

StartRoot ==
    /\ InPhase("startRoot")
    /\ scan' = CASE Kind(scan.root, <<>>) = "absent" -> AdvanceRoot(scan)
                 [] Kind(scan.root, <<>>) \in DirectoryKinds ->
                        [scan EXCEPT !.phase = "scanRoot", !.pending = { <<>> }, !.directories = 1]
                 [] OTHER -> Finish(MarkTruncated(scan))

EndScan ==
    /\ Scanning(FALSE, FALSE) /\ scan.pending = {}
    /\ scan' = [scan EXCEPT !.phase = "process", !.queue = Sorted(scan.candidates)]

OpenDirectory ==
    /\ Scanning(FALSE, FALSE) /\ scan.pending # {}
    /\ LET next == Smallest(scan.pending)
       IN  scan' = IF Kind(scan.root, next) \in {"directory", "unsearchable"}
                   THEN [scan EXCEPT !.pending = @ \ {next}, !.active = Present(next),
                                     !.iterating = TRUE, !.listed = {}]
                   ELSE DropRoot(scan)

Unlisted == Children(scan.root, scan.active[1]) \ scan.listed

(* The file system enumerates a directory in any order.  One that becomes  *)
(* unreadable once it is open may fail then or be enumerated to its end.   *)
ReadDirectoryEntry ==
    /\ Scanning(TRUE, TRUE) /\ Unlisted # {}
    /\ \/ /\ Kind(scan.root, scan.active[1]) = "unreadable" \/ scan.nodes >= Limits.nodes
          /\ scan' = DropRoot(scan)
       \/ /\ scan.nodes < Limits.nodes
          /\ \E p \in Unlisted : scan' = [scan EXCEPT !.listed = @ \cup {p}, !.nodes = @ + 1]

EndOfDirectory ==
    /\ Scanning(TRUE, TRUE) /\ Unlisted = {}
    /\ scan' = [scan EXCEPT !.iterating = FALSE, !.unexamined = Sorted(scan.listed)]

KeepLexicallySmallest(s, path) ==
    IF Cardinality(s.candidates) < Limits.candidates
    THEN [s EXCEPT !.candidates = @ \cup {path}]
    ELSE [MarkTruncated(s) EXCEPT
             !.candidates = ToSet(SubSeq(Sorted(@ \cup {path}), 1, Limits.candidates))]

(* What cannot be examined is left out.                                    *)
InspectEntry(s, path) ==
    IF Kind(s.root, s.active[1]) = "unsearchable" THEN s
    ELSE IF Kind(s.root, path) \in DirectoryKinds
    THEN IF Len(path) >= Limits.depth \/ s.directories >= Limits.directories THEN MarkTruncated(s)
         ELSE [s EXCEPT !.pending = @ \cup {path}, !.directories = @ + 1]
    ELSE IF Kind(s.root, path) = "file" THEN KeepLexicallySmallest(s, path)
    ELSE s

InspectDirectoryEntry ==
    /\ Scanning(TRUE, FALSE)
    /\ scan' = IF scan.unexamined = <<>> THEN [scan EXCEPT !.active = Absent]
               ELSE [InspectEntry(scan, Head(scan.unexamined)) EXCEPT !.unexamined = Tail(@)]

(* Mutant: a truncated root is followed by the next one.                   *)
EndCandidatesAnyway(s) == AdvanceRoot(s)

EndCandidates(s) == IF s.stop THEN Finish(s) ELSE AdvanceRoot(s)

(* An identifier is claimed before the file is read: one that is broken,   *)
(* hidden or at a rejected location shadows those of the later roots.      *)
ClaimCandidate(s, path) ==
    LET id    == DeriveDesktopFileId(path)
        entry == ParseDesktopEntry(disk[s.root][path].document)
        claim == [s EXCEPT !.claimed = @ \cup {id.value}]
        at    == Len(s.entries) + 1
    IN  IF ~Ok(id) \/ id.value \in s.claimed THEN s
        ELSE IF Kind(s.root, path) # "file" \/ ~Ok(entry) THEN claim
        ELSE IF Len(s.entries) >= Limits.entries THEN Finish(MarkTruncated(claim))
        ELSE IF <<s.root, path>> \in RejectedLocations THEN claim
        ELSE [claim EXCEPT !.entries = Append(@, [id |-> id.value, entry |-> entry.value,
                                                  root |-> s.root, path |-> path]),
                           !.visible = IF IsVisible(entry.value) THEN Append(@, at) ELSE @]

ProcessCandidate ==
    /\ InPhase("process")
    /\ scan' = IF scan.queue = <<>> THEN EndCandidates(scan)
               ELSE ClaimCandidate([scan EXCEPT !.queue = Tail(@)], Head(scan.queue))

(* One TryExec; a look-up that cannot be made ends the whole catalog.      *)
DecideEligibility ==
    /\ InPhase("catalog") /\ scan.cursor <= Len(scan.visible) /\ scan.error = "none"
    /\ LET index    == scan.visible[scan.cursor]
           decision == EvaluateDesktopTryExec(programs, scan.entries[index].entry.tryExec)
       IN  scan' = IF ~Ok(decision) THEN [scan EXCEPT !.error = decision.error]
                   ELSE [scan EXCEPT !.cursor = @ + 1,
                             !.eligible = IF decision.value THEN Append(@, index) ELSE @]

CatalogEnded ==
    InPhase("catalog") /\ (scan.cursor > Len(scan.visible) \/ scan.error # "none")

PullStep ==
    \/ StartRoot \/ EndScan \/ OpenDirectory \/ ReadDirectoryEntry \/ EndOfDirectory
    \/ InspectDirectoryEntry \/ ProcessCandidate \/ DecideEligibility

ChangeFile ==
    /\ diskChanges < MaxDiskChanges
    /\ \E change \in DiskChanges :
           /\ disk[change[1]][change[2]] # change[3]
           /\ disk' = [disk EXCEPT ![change[1]][change[2]] = change[3]]
           /\ touched' = IF InPhase("none") THEN {} ELSE touched \cup {<<change[1], change[2]>>}
    /\ diskChanges' = diskChanges + 1
    /\ UNCHANGED programs

-----------------------------------------------------------------------------
(* A file that is there, and can be reached and examined, all the time.    *)
Steady(root, path) ==
    /\ Kind(root, path) = "file"
    /\ \A n \in 0..(Len(path) - 1) : disk[root][SubSeq(path, 1, n)].kind # "unsearchable"
    /\ \A n \in 0..Len(path) : <<root, SubSeq(path, 1, n)>> \notin touched

(* An application is taken from the first root that has its identifier,    *)
(* and is never shown from a later one because a file of an earlier root   *)
(* is broken or hidden, or the earlier root cannot be read or is too large *)
(* (DesktopEntryDiscovery.cpp:285, 324, 365, 379).                         *)
ShadowingIsRespected ==
    \A i \in DOMAIN scan.entries : \A root \in 1..(scan.entries[i].root - 1) : \A p \in Paths :
        Steady(root, p) /\ Ok(DeriveDesktopFileId(p))
            => DeriveDesktopFileId(p).value # scan.entries[i].id
=============================================================================
