---------------------------- MODULE MCSampleCtrl ----------------------------
(* A small instance of SampleCtrl: two handlers, three chains of           *)
(* goroutines, and phases of one or two seconds.                           *)
EXTENDS SampleCtrl

MCReadySecs == {1, 2}
=============================================================================
