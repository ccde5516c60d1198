------------------------------ MODULE CSTVReaderMC ------------------------------
(* A broadcast of five bytes, with an empty fragment, for CSTVReader.      *)
EXTENDS CSTVReader

OpeningBytes == <<1, 2>>
DeltaBytes == << <<3>>, << >>, <<4, 5>> >>
===============================================================================
