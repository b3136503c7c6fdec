---------------------------- MODULE MCDosCalls ----------------------------
(***************************************************************************)
(* Pages of eight bytes in dwords of four bits.  Requests start at page 0  *)
(* (Dos32AllocMem), at a page in the middle of a dword, and at the first   *)
(* page of one.                                                            *)
(***************************************************************************)
EXTENDS DosCalls

MCRequests == {0, 4, 6} \X {0, 1, 2, 3, 5}

\* Every number of pages, in full or not, and the numbers at the end.
MCObjects == {<<32, 24>>, <<32, 33>>, <<32, 0>>, <<48, 9>>, <<48, 40>>}
MCSizes == {0, 1, 16, 17, 40, 249}

MCInfoAsks ==
    [start : {0, 1, 3, 4}, last : {1, 3, 4, 65, 66}, room : {0, 4, 8, 252}]
=============================================================================
