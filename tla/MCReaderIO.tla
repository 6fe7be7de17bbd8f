----------------------------- MODULE MCReaderIO -----------------------------
(* Cards of one and of two pages of two bytes, and page numbers of one     *)
(* bit: the second card has every page that a page number names.           *)
EXTENDS ReaderIO
=============================================================================
