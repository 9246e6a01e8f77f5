------------------------- MODULE MeasurementSource -------------------------
(***************************************************************************)
(* device/measurement_source.c: the fixture file a patched responder takes *)
(* its measurements from, loaded on the first question and never again.    *)
(*                                                                         *)
(* A file is what its bytes say: its size, its header and its descriptors. *)
(* A value is where it lies: which file, which offset, how many bytes.     *)
(***************************************************************************)
EXTENDS Integers, FiniteSets

CONSTANTS
    Files,          \* the contents the file may have
    MaxChanges,     \* bound: changes of the file
    Word,           \* 2^32: offsets and lengths are computed modulo it
    Queries         \* indices and lengths the responder asks for: <<i, n>>

MaxFileBytes == 65536       \* MS_MAX_FILE_BYTES
HeaderBytes == 16           \* MS_HEADER_BYTES
DescriptorBytes == 8        \* MS_DESCRIPTOR_BYTES

Descriptor == [index : 0 .. 255, reserved : Nat, len : Nat, off : Nat]
TableEnd(f) == HeaderBytes + f.count * DescriptorBytes

\* A file that cannot be read has nothing else; one too short for its header or
\* its table has no descriptors to read.
ASSUME FilesAssumption ==
    \A f \in Files :
        /\ f.readable \in BOOLEAN
        /\ f.size \in Nat /\ f.magic \in BOOLEAN /\ f.version \in BOOLEAN
        /\ f.count \in Nat /\ f.count < 65536 /\ f.svn \in Nat
        /\ TableEnd(f) <= f.size => f.desc \in [1 .. f.count -> Descriptor]
        /\ \A i \in DOMAIN f.desc : f.desc[i].off < Word /\ f.desc[i].len < 65536
ASSUME WordAssumption == Word \in Nat /\ Word > MaxFileBytes + 65536
ASSUME BoundAssumption == MaxChanges \in Nat

VARIABLES
    file,           \* what the named file holds now
    named,          \* whether SPDM_MEASUREMENTS_FILE names it
    changes,        \* how often it has changed
    ms,             \* the module's statics
    answers         \* history: what has been asked since the last explicit load

vars == <<file, named, changes, ms, answers>>

\* image is s_image with s_image_len in len; slots are the descriptors present.
NoFile == [readable |-> FALSE, size |-> 0]
Fresh == [attempted |-> FALSE, loaded |-> FALSE, status |-> "MS_NO_SOURCE",
          slots |-> {}, svn |-> 0, blocks |-> 0, image |-> NoFile, len |-> 0]

-----------------------------------------------------------------------------
(* ms_load().                                                              *)

\* [off, off+len) inside [0, total), without a sum that could wrap.
RangeOkWrapping(off, len, total) == (off + len) % Word <= total
RangeOk(off, len, total) == off <= total /\ len <= total - off

\* The check descriptor i fails when those before it have passed.
DescriptorFault(f, i) ==
    LET d == f.desc[i] IN
    IF d.reserved # 0 THEN "MS_ERR_DESC_RESERVED"
    ELSE IF d.index \in {0, 255} THEN "MS_ERR_DESC_INDEX"
    ELSE IF \E j \in 1 .. i - 1 : f.desc[j].index = d.index THEN "MS_ERR_DESC_DUPLICATE"
    ELSE IF ~RangeOk(d.off, d.len, f.size)
      THEN IF d.off > f.size THEN "MS_ERR_DESC_OFFSET" ELSE "MS_ERR_DESC_LENGTH"
    ELSE IF d.len > 0 /\ d.off < TableEnd(f) THEN "MS_ERR_DESC_IN_TABLE"
    ELSE "MS_OK"

\* How many descriptors the loop takes before the first that fails.
Faulty(f) == {i \in 1 .. f.count : DescriptorFault(f, i) # "MS_OK"}
Taken(f) == {i \in 1 .. f.count : \A j \in 1 .. i : DescriptorFault(f, j) = "MS_OK"}
FirstFault(f) == CHOOSE i \in Faulty(f) : \A j \in Faulty(f) : i <= j

HeaderFault(f) ==
    IF ~f.readable THEN "MS_ERR_OPEN"
    ELSE IF f.size > MaxFileBytes THEN "MS_ERR_TOO_LARGE"
    ELSE IF f.size < HeaderBytes THEN "MS_ERR_HEADER_SHORT"
    ELSE IF ~f.magic THEN "MS_ERR_MAGIC"
    ELSE IF ~f.version THEN "MS_ERR_VERSION"
    ELSE IF TableEnd(f) > f.size THEN "MS_ERR_TABLE_SHORT"
    ELSE "MS_OK"

LoadStatus(f) ==
    IF HeaderFault(f) # "MS_OK" THEN HeaderFault(f)
    ELSE IF Faulty(f) # {} THEN DescriptorFault(f, FirstFault(f))
    ELSE "MS_OK"

\* The file read into freshly reset statics.  fail() forgets the count and the
\* length, and with it the image; the slots of the descriptors before the
\* fault stay, and so does the version number.
Read(f) ==
    LET ok == HeaderFault(f) = "MS_OK" /\ Faulty(f) = {} IN
    [attempted |-> FALSE, loaded |-> ok, status |-> LoadStatus(f),
     slots  |-> IF HeaderFault(f) = "MS_OK" THEN {f.desc[i] : i \in Taken(f)} ELSE {},
     svn    |-> IF HeaderFault(f) \in {"MS_OK", "MS_ERR_TABLE_SHORT"} THEN f.svn ELSE 0,
     blocks |-> IF ok THEN f.count ELSE 0,
     image  |-> IF ok THEN f ELSE NoFile,
     len    |-> IF ok THEN f.size ELSE 0]

LoadThenReset(f) == Read(f)
Load(f) == [Read(f) EXCEPT !.attempted = TRUE]

\* ms_load(NULL), or of an empty name.
LoadNothing == [Fresh EXCEPT !.attempted = TRUE]
LoadNamed == IF named THEN Load(file) ELSE LoadNothing

\* ms_ensure(): the load that the first question makes, whatever its outcome.
EnsureRetrying == IF ms.loaded THEN ms ELSE LoadNamed
Ensure == IF ms.attempted THEN ms ELSE LoadNamed

-----------------------------------------------------------------------------
(* The operations.                                                         *)

Init ==
    /\ file \in Files /\ named \in BOOLEAN /\ changes = 0
    /\ ms = Fresh
    /\ answers = {}

\* Someone writes the file, or removes it.
FileChanges ==
    /\ changes < MaxChanges
    /\ changes' = changes + 1
    /\ file' \in Files
    /\ UNCHANGED <<named, ms, answers>>

\* The explicit load and reset, which the emulator calls never.
LoadCalled ==
    /\ ms' = LoadNamed /\ answers' = {}
    /\ UNCHANGED <<file, named, changes>>

Reset ==
    /\ ms' = Fresh /\ answers' = {}
    /\ UNCHANGED <<file, named, changes>>

\* meas.c lets its own value stand when the answer is a refusal.
Refusal == [from |-> NoFile, at |-> <<>>]
SvnQuery == <<"svn">>

\* A value is returned when the file has one of that index and that length.
Answer(m, ask) ==
    IF ~m.loaded THEN Refusal
    ELSE IF ask = SvnQuery THEN [from |-> m.image, at |-> <<m.svn>>]
    ELSE IF \E s \in m.slots : /\ s.index = ask[1] /\ s.len = ask[2]
                               /\ RangeOk(s.off, s.len, m.len)
      THEN LET s == CHOOSE s \in m.slots : s.index = ask[1]
           IN [from |-> m.image, at |-> <<s.off, s.len>>]
    ELSE Refusal

Asked(q) ==
    /\ ms' = Ensure
    /\ answers' = answers \cup {[ask |-> q, got |-> Answer(ms', q)]}
    /\ UNCHANGED <<file, named, changes>>

GetBlock == \E q \in Queries : Asked(q)
GetSvn == Asked(SvnQuery)

\* ms_loaded(): the count of blocks, for diagnostics.
IsLoaded == ms' = Ensure /\ UNCHANGED <<file, named, changes, answers>>

Next == FileChanges \/ LoadCalled \/ Reset \/ GetBlock \/ GetSvn \/ IsLoaded

Spec == Init /\ [][Next]_vars

-----------------------------------------------------------------------------
(* Properties.                                                             *)

Statuses ==
    {"MS_OK", "MS_NO_SOURCE", "MS_ERR_OPEN", "MS_ERR_TOO_LARGE",
     "MS_ERR_HEADER_SHORT", "MS_ERR_MAGIC", "MS_ERR_VERSION", "MS_ERR_TABLE_SHORT",
     "MS_ERR_DESC_RESERVED", "MS_ERR_DESC_INDEX", "MS_ERR_DESC_DUPLICATE",
     "MS_ERR_DESC_OFFSET", "MS_ERR_DESC_LENGTH", "MS_ERR_DESC_IN_TABLE"}

StaticsOK(m) ==
    /\ m.attempted \in BOOLEAN /\ m.loaded \in BOOLEAN
    /\ (m.loaded => m.attempted) /\ m.status \in Statuses
    /\ m.slots \subseteq Descriptor
    /\ m.image \in Files \cup {NoFile}
    /\ m.svn \in Nat /\ m.blocks \in Nat /\ m.len \in Nat

Sound(m) ==
    m.loaded =>
        /\ m.status = "MS_OK" /\ m.image \in Files /\ m.len = m.image.size
        /\ m.blocks = m.image.count /\ TableEnd(m.image) <= m.len
        /\ \A s, t \in m.slots : s.index = t.index => s = t
        /\ \A s \in m.slots :
             /\ s.index \notin {0, 255}
             /\ s.off + s.len <= m.len
             /\ s.len > 0 => s.off >= TableEnd(m.image)

\* The types of the variables; only an attempted load is a load.
TypeOK == file \in Files /\ named \in BOOLEAN /\ changes \in Nat /\ StaticsOK(ms)

\* "This module must never guess": what a loaded file answers from is a file
\* read whole, each index of which has one value, and each value of which lies
\* inside it and past its table, whatever width its offsets have.
LoadedIsSound == Sound(ms)

\* A responder's answers are of one file, as it was at one moment, however often
\* it changes between two questions; and of none, if it could not be read then.
OneSource ==
    \A a, b \in answers :
        /\ a.got # Refusal => ms.loaded /\ a.got.from = ms.image
        /\ a.ask = b.ask => a.got = b.got

\* Why: what has been answered is what would be answered again.
AnswersInv ==
    \A a \in answers : ms.attempted /\ a.got = Answer(ms, a.ask)

\* "The read accessors never change" the status, nor anything else: once a load
\* has been attempted, a question leaves the module as it was.
StatusIsOfTheLoad ==
    [][ms.attempted /\ answers' # {} => ms' = ms]_vars
=============================================================================
