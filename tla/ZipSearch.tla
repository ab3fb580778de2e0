------------------------------ MODULE ZipSearch ------------------------------
(***************************************************************************)
(* The searches for the parts of an archive behind a picture: main of      *)
(* zipjpeg_checker.c looks backward for the end record and for a central   *)
(* header, then forward for local headers; find_eocd of find_signature.c   *)
(* looks backward within the reach of a comment.  A file is its size and   *)
(* the places of its signatures; what is printed of a record is left out.  *)
(* Sizes are scaled down, in the order they have: the structures of the    *)
(* program are longer than the records, since they end in pointers.        *)
(***************************************************************************)
EXTENDS Integers, FiniteSets, FiniteSetsExt

CONSTANTS
  SigSize,                    \* 4 bytes
  EocdSize, EocdStruct,       \* 22 bytes; sizeof(struct EOCD) is 30
  CdfhSize, CdfhStruct,       \* 46 bytes; its struct has 70
  LfhSize,                    \* 30 bytes, of the struct too
  MaxComment,                 \* 65535
  MaxSize, MaxMembers,        \* bounds: a file's size and its archive's members
  WordSize                    \* 2^64: size_t wraps there

VARIABLES
  search,                \* "start", "eocd", "cdfh", "lfh" or "done"
  file_size, eocds, cdfhs, lfhs,   \* the file: its size and its signatures
  at_byte,               \* i, of whichever loop runs
  eocd_at, cdfh_at,      \* where a signature was found, or -1
  found,                 \* the local headers found
  find_eocd_at           \* the answer of find_eocd

Init ==
  /\ search = "start" /\ file_size = 0 /\ eocds = {} /\ cdfhs = {} /\ lfhs = {}
  /\ at_byte = 0 /\ eocd_at = -1 /\ cdfh_at = -1 /\ found = {}
  /\ find_eocd_at = -1

Greater(a, b) == IF a > b THEN a ELSE b

(* find_eocd, one call: the last place within the window, or -1.           *)
find_eocd(size, sigs) ==
  LET window == Greater(0, size - EocdSize - MaxComment) .. size - EocdSize
  IN IF size < EocdSize \/ sigs \cap window = {} THEN -1 ELSE Max(sigs \cap window)

(* An archive: local headers, the central headers, as many, the end record *)
(* and a comment, with a picture before and data and names between them.   *)
Archive(size, e, c, l) ==
  /\ e + EocdSize <= size
  /\ \A d \in c : d + CdfhSize <= e /\ \A d2 \in c : d2 > d => d2 >= d + CdfhSize
  /\ \A h \in l : /\ \A d \in c : h + LfhSize <= d
                  /\ \A h2 \in l : h2 > h => h2 >= h + LfhSize

(* A file has one or none.  In the picture, in the data or in the comment  *)
(* the signature of an end record may occur once more.                     *)
OpenFile ==
  /\ search = "start" /\ file_size' \in 0 .. MaxSize
  /\ \E e \in -1 .. file_size', n \in 0 .. MaxMembers :
       \E c, l \in kSubset(n, 0 .. e) :
         /\ e = -1 \/ Archive(file_size', e, c, l)
         /\ cdfhs' = c /\ lfhs' = l
         /\ \E stray \in {-1} \cup 0 .. file_size' - SigSize : eocds' = {e, stray} \ {-1}
         /\ find_eocd_at' = find_eocd(file_size', eocds')
  /\ search' = "eocd" /\ at_byte' = file_size' - SigSize
  /\ UNCHANGED <<eocd_at, cdfh_at, found>>

(* Mutant: the backward loop never looks at the first byte.                *)
SearchEocd_NotFirst ==
  /\ search = "eocd"
  /\ IF at_byte \in eocds
     THEN eocd_at' = at_byte /\ search' = "cdfh" /\ at_byte' = file_size - EocdStruct
     ELSE /\ UNCHANGED eocd_at /\ at_byte' = at_byte - 1
          /\ search' = IF at_byte <= 1 THEN "done" ELSE search
  /\ UNCHANGED <<file_size, eocds, cdfhs, lfhs, cdfh_at, found, find_eocd_at>>

(* for (i = file_size - 4; i >= 0; i--): what is found last in the file.   *)
SearchEocd ==
  /\ search = "eocd"
  /\ IF at_byte \in eocds
     THEN eocd_at' = at_byte /\ search' = "cdfh" /\ at_byte' = file_size - EocdStruct
     ELSE /\ UNCHANGED eocd_at /\ at_byte' = at_byte - 1
          /\ search' = IF at_byte <= 0 THEN "done" ELSE search
  /\ UNCHANGED <<file_size, eocds, cdfhs, lfhs, cdfh_at, found, find_eocd_at>>

SearchCdfh ==
  /\ search = "cdfh"
  /\ IF at_byte \in cdfhs
     THEN cdfh_at' = at_byte ELSE UNCHANGED cdfh_at
  /\ IF at_byte \in cdfhs \/ at_byte <= 0
     THEN search' = "lfh" /\ at_byte' = 0 ELSE at_byte' = at_byte - 1 /\ UNCHANGED search
  /\ UNCHANGED <<file_size, eocds, cdfhs, lfhs, eocd_at, found, find_eocd_at>>

(* for (i = 0; i <= file_size - sizeof(cdfh); i++), in unsigned numbers.   *)
SearchLfh ==
  /\ search = "lfh"
  /\ IF at_byte <= (file_size - CdfhStruct) % WordSize
     THEN /\ at_byte' = at_byte + 1 /\ UNCHANGED search
          /\ found' = IF at_byte \in lfhs THEN found \cup {at_byte} ELSE found
     ELSE search' = "done" /\ UNCHANGED <<at_byte, found>>
  /\ UNCHANGED <<file_size, eocds, cdfhs, lfhs, eocd_at, cdfh_at, find_eocd_at>>

Next == OpenFile \/ SearchEocd \/ SearchCdfh \/ SearchLfh

(* The end record is found wherever it is, the first byte included, the    *)
(* last one if there are several; find_eocd agrees whenever it lies where  *)
(* an archive can have it.  The central header found is the last one, and  *)
(* the local header of every member is listed.  No loop leaves the file,   *)
(* unless one of less than sizeof(cdfh) bytes has an end record, as an     *)
(* empty archive: file_size - sizeof(cdfh) wraps (line 159).               *)
ArchiveSearched ==
  /\ at_byte <= file_size \/ file_size < CdfhStruct
  /\ search \in {"cdfh", "lfh", "done"} =>
       /\ eocd_at = IF eocds = {} THEN -1 ELSE Max(eocds)
       /\ eocd_at \in file_size - EocdSize - MaxComment .. file_size - EocdSize =>
            find_eocd_at = eocd_at
  /\ search = "done" => found = lfhs /\ (cdfhs = {} \/ cdfh_at = Max(cdfhs))
=============================================================================
