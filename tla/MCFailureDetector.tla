------------------------ MODULE MCFailureDetector ------------------------
(* A small instance of FailureDetector: three subjects, one of which      *)
(* has an address that cannot be parsed.                                  *)
EXTENDS FailureDetector

CONSTANTS s1, s2, s3

MCSubjects == {s1, s2, s3}
MCUnparsable == {s3}
=============================================================================
