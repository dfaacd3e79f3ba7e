--------------------------- MODULE PackageArchive ---------------------------
(***************************************************************************)
(* The package content archive of package.cpp: detail::Archiver writes    *)
(* one ArchiveHeader and the file's bytes per put() and an all-zero header *)
(* when it is destroyed; detail::Dearchiver::extract reads headers and    *)
(* copies bodies until a header with a version other than 1 or an empty   *)
(* name.  The archive is a sequence of cells.  A header is four cells     *)
(* <<version, reserved1, name, size>>: the name (256 bytes) and the size  *)
(* (an int in 8 bytes) are one cell each, and the other reserved bytes,   *)
(* all zero, are left out.  A content cell is a byte of Bytes.  A read    *)
(* beyond the end of the stream consumes nothing and, for the header,     *)
(* leaves the memset zeros.  The gzip layer is lossless and left out.     *)
(*                                                                         *)
(* std::copy_n over an istreambuf_iterator is build-dependent: the        *)
(* libstdc++ and libc++ algorithms increment the input n - 1 times for    *)
(* n > 0 (the last byte is read but not consumed), a build with a         *)
(* dedicated istreambuf_iterator overload advances n times.  The build is *)
(* chosen in Init.                                                        *)
(***************************************************************************)
EXTENDS Integers, Sequences, SequencesExt

CONSTANTS
    Names,       \* file names (non-empty), as model values
    Bytes,       \* content byte values
    Sizes,       \* file sizes a put may archive
    MaxFiles,    \* bound on the number of files archived
    IntWidth,    \* bit width of int, scaled down from 32
    Builds       \* copy_n behaviours: "n-1" and/or "n"

ASSUME 0 \notin Names /\ 1 \notin Bytes /\ Sizes \subseteq Nat
ASSUME Builds \subseteq {"n-1", "n"} /\ Builds # {}

VARIABLES
    archived,   \* the files put, in order: records [name, content]
    stream,     \* the archive bytes written so far
    phase,      \* "writing", "reading" (extract's loop) or "done"
    pos,        \* cells of the stream extract has consumed
    out,        \* the files extract has written: name -> content
    outcome,    \* "none", "ok" (extract returned true) or "throw"
    build       \* the copy_n behaviour of this build

vars == <<archived, stream, phase, pos, out, outcome, build>>

HeaderLen == 4

\* An int holding x: two's complement wrap to IntWidth bits.
IntOf(x) ==
    LET m == 2^IntWidth
        r == x % m
    IN  IF r >= m \div 2 THEN r - m ELSE r

\* Archiver::put's header: zeroed, version 1, the name, the size as int.
Header(name, size) == <<1, 0, name, IntOf(size)>>

\* ~Archiver's terminating header.
Terminator == <<0, 0, 0, 0>>

\* Reading k cells at offset p: the cells that are there, zeros beyond.
Cells(p, k) == [i \in 1..k |-> IF p + i <= Len(stream) THEN stream[p + i] ELSE 0]

\* Mutant: a read that counts the cells it was asked for, even past the end.
ReadAdvanceUnclamped(p, k) == p + k

\* The stream position after asking to consume k cells at p.
ReadAdvance(p, k) == IF p + k <= Len(stream) THEN p + k ELSE Len(stream)

\* How many cells copy_n(istreambuf_iterator, n, ...) consumes.
CopyAdvance(n) == IF n = 0 THEN 0 ELSE IF build = "n-1" THEN n - 1 ELSE n

\* extract's end of loop test on a header.
EndOfArchive(h) == h[1] # 1 \/ h[3] = 0

\* Mutant: an empty file taken as a bad size.
SizeInvalidZero(n) == n <= 0

\* extract's check of the size it read.
SizeInvalid(n) == n < 0

Contents == UNION {[1..k -> Bytes] : k \in Sizes}

TypeOK ==
    /\ archived \in Seq([name : Names, content : Contents])
    /\ stream \in Seq(Names \cup Bytes \cup Int)
    /\ phase \in {"writing", "reading", "done"}
    /\ pos \in 0..Len(stream)
    /\ outcome \in {"none", "ok", "throw"}
    /\ build \in Builds

Init ==
    /\ archived = <<>>
    /\ stream = <<>>
    /\ phase = "writing"
    /\ pos = 0
    /\ out = <<>>
    /\ outcome = "none"
    /\ build \in Builds

\* Archiver::put(file_name, path) of a file with content c.
Put(name, c) ==
    /\ phase = "writing"
    /\ Len(archived) < MaxFiles
    /\ \A i \in DOMAIN archived : archived[i].name # name
    /\ archived' = Append(archived, [name |-> name, content |-> c])
    /\ stream' = stream \o Header(name, Len(c)) \o c
    /\ UNCHANGED <<phase, pos, out, outcome, build>>

\* ~Archiver: the filtering_ostream is closed by the scope in
\* CreatePackageTask, and the archive is then extracted.
Close ==
    /\ phase = "writing"
    /\ stream' = stream \o Terminator
    /\ phase' = "reading"
    /\ UNCHANGED <<archived, pos, out, outcome, build>>

\* One iteration of Dearchiver::extract's loop: read a header, stop at the
\* end marker, create the file (std::fstream truncates it), throw on a
\* negative size, copy the body and read one more byte.
ExtractIteration ==
    /\ phase = "reading"
    /\ LET h  == Cells(pos, HeaderLen)
           p1 == ReadAdvance(pos, HeaderLen)
       IN  IF EndOfArchive(h)
           THEN /\ phase' = "done"
                /\ outcome' = "ok"
                /\ pos' = p1
                /\ UNCHANGED out
           ELSE IF SizeInvalid(h[4])
           THEN /\ phase' = "done"
                /\ outcome' = "throw"
                /\ pos' = p1
                /\ out' = (h[3] :> <<>>) @@ out
           ELSE /\ out' = (h[3] :> Cells(p1, h[4])) @@ out
                /\ pos' = ReadAdvance(ReadAdvance(p1, CopyAdvance(h[4])), 1)
                /\ UNCHANGED <<phase, outcome>>
    /\ UNCHANGED <<archived, stream, build>>

Next ==
    \/ \E name \in Names, c \in Contents : Put(name, c)
    \/ Close
    \/ ExtractIteration

Spec == Init /\ [][Next]_vars

\* The files archived as extract's output would hold them.
ArchivedAsFiles(k) == [i \in {archived[j].name : j \in 1..k} |->
                          CHOOSE c \in {archived[j].content : j \in 1..k} :
                              \E j \in 1..k : archived[j].name = i /\ archived[j].content = c]

(***************************************************************************)
(* Properties                                                              *)
(***************************************************************************)

\* Whatever the copy_n build and whatever sizes the files have, as long as
\* they fit an int, extract returns normally and the files it wrote are
\* the first files put, each with exactly its content: the archive never
\* yields a corrupted or foreign file, at worst it stops early.
ExtractedIsPrefix ==
    phase = "done" =>
        /\ outcome = "ok"
        /\ \E k \in 0..Len(archived) : out = ArchivedAsFiles(k)

\* Unpacking restores every archived file with its content: extract's
\* extra read ("copy_n does not move source file pointer to next header")
\* keeps the stream aligned on the next header.
RoundTrip ==
    phase = "done" => (outcome = "ok" /\ out = ArchivedAsFiles(Len(archived)))

=============================================================================
