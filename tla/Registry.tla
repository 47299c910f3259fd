------------------------------ MODULE Registry ------------------------------
(***************************************************************************)
(* The event registry on disk (internal/storage/file/json/log.go).  Under  *)
(* the directory of a coin there is one directory per label, and in it one *)
(* file per process that wrote there, named by the second it started in,   *)
(* its hash.  A file is a sequence of records.  A write that stops half    *)
(* way leaves a Partial record without its separator: the record written   *)
(* next runs into it and the two can no longer be decoded.                 *)
(*                                                                         *)
(* files is a function from <<coin, label, hash>> to the records of the    *)
(* file.  Names are walked in lexical order, which for labels and hashes   *)
(* of one length is the order of the numbers they stand for.               *)
(***************************************************************************)
EXTENDS Integers, Sequences, SequencesExt, FiniteSetsExt

CONSTANTS Partial, Garbled

Undecodable == {Partial, Garbled}

NoFiles == [k \in {} |-> <<>>]

\* O_CREATE without O_APPEND: every write starts the file anew.
StoreTruncating(files, k, record) == [f \in DOMAIN files \cup {k} |->
  IF f # k THEN files[f] ELSE <<record>>]

Store(files, k, record) == [f \in DOMAIN files \cup {k} |->
  IF f # k THEN files[f]
  ELSE IF k \notin DOMAIN files THEN <<record>>
  ELSE IF Last(files[k]) = Partial
    THEN Append(Front(files[k]), IF record = Partial THEN Partial ELSE Garbled)
  ELSE Append(files[k], record)]

\* filepath.Walk: what names hold, one after the other in the order of the names.
Walked(holds) ==
  LET names == DOMAIN holds
      read[n \in 0 .. Max(names)] ==
        (IF n = 0 THEN <<>> ELSE read[n - 1]) \o (IF n \in names THEN holds[n] ELSE <<>>)
  IN  IF names = {} THEN <<>> ELSE read[Max(names)]

\* The elements of s in S, in their order.
Only(s, S) == Walked([i \in DOMAIN s |-> IF s[i] \in S THEN <<s[i]>> ELSE <<>>])

Hashes(files, coin, label) ==
  {k[3] : k \in {f \in DOMAIN files : f[1] = coin /\ f[2] = label}}

\* The files of a label, in the order of their hashes.
FilesOf(files, coin, label) ==
  Walked([h \in Hashes(files, coin, label) |-> <<<<coin, label, h>>>>])

Labels(files, coin) == {k[2] : k \in {f \in DOMAIN files : f[1] = coin}}

\* Read the first file of each directory only.
RecordsOfFirst(files, coin, label) == files[FilesOf(files, coin, label)[1]]

Records(files, coin, label) ==
  Walked([h \in Hashes(files, coin, label) |-> files[<<coin, label, h>>]])

\* One record that cannot be decoded fails the whole read.
Decoded(records) == [ok |-> \A i \in DOMAIN records : records[i] \notin Undecodable,
                     values |-> records]

GetAll(files, coin, label) == Decoded(Records(files, coin, label))

\* Of the labels that the caller's filter keeps.
GetFor(files, coin, kept) ==
  Decoded(Walked([label \in Labels(files, coin) \cap kept |-> Records(files, coin, label)]))

Check(files, coin) == [l \in Labels(files, coin) |-> FilesOf(files, coin, l)]
=============================================================================
