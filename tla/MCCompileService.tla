-------------------------- MODULE MCCompileService --------------------------
(* Two clients; two programs and two library files of SDCC, both changed since *)
(* the older bundle; two parts, each of one file, of another toolchain.          *)
EXTENDS CompileService
MCPartOf == [f \in Files |-> IF f = "gcc" THEN "bin" ELSE "lib"]
=============================================================================
