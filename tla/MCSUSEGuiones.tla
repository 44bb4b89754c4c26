--------------------------- MODULE MCSUSEGuiones ----------------------------
(* The scripts of three pairs of test programs, and their semaphores.       *)
EXTENDS SUSEGuiones, MCSUSE

CONSTANTS p1, p2, h1, h2
CONSTANTS solo, afinado
CONSTANTS presion_emitida, presion_recibida, revolucion_emitida, revolucion_recibida

wait(s) == <<"wait", s>>
signal(s) == <<"signal", s>>
yield == <<"yield", Nadie>>
muere == <<"muere", Nadie>>

Veces(n, ops) == [i \in 1..n * Len(ops) |-> ops[((i - 1) % Len(ops)) + 1]]

\* caballeros_de_SisOp_Solo with two of its four guitarists and Notas notes each
\* (105 in the code), and caballeros_de_SisOp_Afinador, that tunes for them all:
\* 420 times there and 4 here, with a SEM_MAX of 10 and of 2.  So it may get
\* ahead of them by more than the maximum.
Notas == 2
Caballeros ==
  LET nota == <<wait(afinado), wait(solo), signal(solo)>>
      afinar == <<yield>> \o Veces(2 * Notas, <<wait(solo), signal(afinado), signal(solo)>>)
  IN (p1 :> (h1 :> Veces(Notas, nota) @@ h2 :> Veces(Notas, nota))) @@ (p2 :> (h1 :> afinar))

\* estres_compartido, whole, and revolucion_compartida until its muse_get beyond
\* the file, where it dies.
Compartido ==
  (p1 :> (h1 :> (Veces(6, <<wait(presion_recibida), signal(presion_emitida)>>)
                 \o Veces(4, <<wait(revolucion_emitida), signal(revolucion_recibida)>>))))
  @@
  (p2 :> (h1 :> (Veces(6, <<wait(presion_emitida), signal(presion_recibida)>>)
                 \o Veces(4, <<wait(revolucion_recibida), signal(revolucion_emitida)>>)
                 \o <<muere>>)))

\* Two programs like audiencia: two ULTs that only yield.
Audiencia == LET g == h1 :> <<yield, yield>> @@ h2 :> <<yield>>
             IN p1 :> g @@ p2 :> g

MCGuiones == {Caballeros, Compartido, Audiencia}

\* The two SEM_INIT of configs/SUSE.config, one in use and one commented out.
MCInicial ==
  solo :> 1 @@ afinado :> 0
  @@ presion_emitida :> 0 @@ presion_recibida :> 1
  @@ revolucion_emitida :> 1 @@ revolucion_recibida :> 0

\* SEM_MAX: 1 for the first four in use; the 10 of the other two is cut with the
\* notes, so that the tuner may still pass it.
MCMaximo == [s \in Semaforos |-> IF s \in {solo, afinado} THEN 2 ELSE 1]
=============================================================================
