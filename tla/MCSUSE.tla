------------------------------- MODULE MCSUSE -------------------------------
(* Values for the constants of SUSE that a .cfg cannot write down.          *)
EXTENDS SUSE, TLC

\* Integer stand-in for the double average with ALPHA_SJF = 0.5.
MCRecalcular(e, r) == (e + r) \div 2

\* Every semaphore starts at one unit, its maximum, like the two "1" of
\* SEM_INIT.
MCUno == [s \in Semaforos |-> 1]

\* Semaphores of two units, for what more than a lock shows.
MCDos == [s \in Semaforos |-> 2]

\* ULTs and programs are interchangeable where no constant singles one out.
Simetria == Permutations(Hilos) \cup Permutations(Programas)
SimetriaHilos == Permutations(Hilos)
=============================================================================
