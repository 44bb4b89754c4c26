---------------------------- MODULE SUSEGuiones -----------------------------
(***************************************************************************)
(* Programs that follow a script, as those of linuse-tests-programs do:     *)
(* main creates its ULTs, joins them and returns; each ULT runs its waits,  *)
(* signals and yields in order and ends, or dies of a fault on its way.      *)
(***************************************************************************)
EXTENDS SUSE

CONSTANT Guiones     \* a set of [program -> [its ULTs -> sequence of <<operation, semaphore>>]]

VARIABLES
  guion,             \* the programs started together
  hechos,            \* [Pares -> how many operations of its script a ULT has done]
  sobrantes          \* history: [Semaforos -> signals dropped at the maximum]

guionVars == <<vars, guion, hechos, sobrantes>>

GuionInit ==
  /\ Init /\ guion \in Guiones /\ hechos = [x \in Pares |-> 0]
  /\ sobrantes = [s \in Semaforos |-> 0]

\* The next operation of ULT h is o.
Toca(p, h, o) ==
  /\ h \in DOMAIN guion[p]
  /\ hechos[<<p, h>>] < Len(guion[p][h])
  /\ guion[p][h][hechos[<<p, h>>] + 1] = o

Avanza(p, h) == hechos' = [hechos EXCEPT ![<<p, h>>] = @ + 1] /\ UNCHANGED guion

MainCrea(p, h) ==
  /\ Corre(p, Main)
  /\ h \in DOMAIN guion[p]
  /\ Crear(p, h)
  /\ UNCHANGED <<guion, hechos, sobrantes>>

\* Main joins its ULTs one after the other; it comes back from the first join
\* with all of them in EXIT, so the joins that follow change nothing.
MainUne(p, h) ==
  /\ Corre(p, Main) /\ pendiente[p]
  /\ \A g \in DOMAIN guion[p] : estado[<<p, g>>] # "NADA"
  /\ Unir(p, h)
  /\ UNCHANGED <<guion, hechos, sobrantes>>

MainRetorna(p) ==
  /\ \A g \in DOMAIN guion[p] : estado[<<p, g>>] # "NADA"
  /\ RetornarMain(p)
  /\ UNCHANGED <<guion, hechos, sobrantes>>

Opera(p, h) ==
  /\ Corre(p, h)
  /\ \/ /\ \/ \E s \in Semaforos : Toca(p, h, <<"wait", s>>) /\ Esperar(p, s)
           \/ Toca(p, h, <<"yield", Nadie>>) /\ PedirSiguiente(p)
        /\ UNCHANGED sobrantes
     \/ \E s \in Semaforos :
          /\ Toca(p, h, <<"signal", s>>) /\ Senalar(p, s)
          /\ sobrantes' = [sobrantes EXCEPT ![s] = IF Cabe(s) THEN @ ELSE @ + 1]
  /\ Avanza(p, h)

\* A fault ends the process, whatever its other ULTs are at.
Falla(p, h) ==
  /\ Corre(p, h) /\ Toca(p, h, <<"muere", Nadie>>)
  /\ Morir(p)
  /\ UNCHANGED sobrantes
  /\ Avanza(p, h)

Termina(p, h) ==
  /\ h \in DOMAIN guion[p]
  /\ hechos[<<p, h>>] = Len(guion[p][h])
  /\ CerrarHilo(p, h)
  /\ UNCHANGED <<guion, hechos, sobrantes>>

Sigue(p) ==
  /\ \/ Conectar(p)
     \/ cliente[p] = "cede" /\ PedirSiguiente(p)
     \/ Despachar(p)
     \/ Desconectar(p)
  /\ UNCHANGED <<guion, hechos, sobrantes>>

GuionPaso(p) ==
  \/ \E h \in Hilos : MainCrea(p, h) \/ MainUne(p, h) \/ Opera(p, h) \/ Falla(p, h) \/ Termina(p, h)
  \/ MainRetorna(p)
  \/ Sigue(p)

GuionNext == \E p \in Programas : GuionPaso(p)

\* Weak fairness per program: its process and the server thread that attends
\* it are scheduled, and the mutexes and sem_t they wait on are granted.
GuionSpec == GuionInit /\ [][GuionNext]_guionVars /\ \A p \in Programas : WF_guionVars(GuionPaso(p))

\* ULT h of p waits on a semaphore that dropped a unit for each of its waiters.
EsperaSobrante(p, h) ==
  \E s \in Semaforos :
    /\ \E i \in DOMAIN sem_blocked[s] : sem_blocked[s][i] = <<p, h>>
    /\ Len(sem_blocked[s]) <= sobrantes[s]

\* Every program ends, but for ULTs that wait for units that were dropped at the
\* maximum of their semaphore (planificacionSUSE.c:596), and no more of them than
\* those units: nobody else is left for ever in NEW, ready, on a semaphore or in
\* sem_wait.
TerminanSiNoSobra ==
  <>[](\A p \in Programas :
         \/ estProg[p] = "FINALIZADO"
         \/ /\ \E h \in DOMAIN guion[p] : estado[<<p, h>>] = "BLOCKED"
            /\ \A h \in DOMAIN guion[p] :
                 estado[<<p, h>>] = "EXIT" \/ EsperaSobrante(p, h))
=============================================================================
