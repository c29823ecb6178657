-------------------------- MODULE MCScriptCompiler --------------------------
(* All scripts up to a length, for TLC; the length is in the .cfg file.     *)
EXTENDS ScriptCompiler
=============================================================================
