----------------------------- MODULE MCKeyboard -----------------------------
(* Two user threads that read, tap and inject, and a buffer of two that    *)
(* three scancodes overflow.                                               *)
EXTENDS Keyboard
=============================================================================
