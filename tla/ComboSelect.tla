------------------------------ MODULE ComboSelect ------------------------------
(***************************************************************************)
(* The drop-down list of the panel (frontend/src/components/ui/Select.tsx):*)
(* a button, a list over it, the option highlighted and the keys.  The     *)
(* value and the options are the caller's, read again at every render, so  *)
(* the options are a parameter of each action and may change while the     *)
(* list is open; onChange writes the value.                                *)
(*                                                                         *)
(* An index counts from 0, as in the code.  Where the list is drawn and    *)
(* what it scrolls to are left out.                                        *)
(***************************************************************************)
EXTENDS Integers, Sequences

VARIABLES
  valor,   \* the value of the caller
  aberta,  \* isOpen
  realce   \* activeIndex

NenhumRealce == -1

Indices(opcoes) == 0..(Len(opcoes) - 1)
Ultima(opcoes)  == Len(opcoes) - 1

\* selectedIndex, and the first option when nothing is selected.
Selecionada(opcoes) ==
  LET iguais == {i \in Indices(opcoes) : opcoes[i + 1] = valor}
  IN IF iguais = {} THEN 0 ELSE CHOOSE i \in iguais : \A j \in iguais : i <= j

Init == aberta = FALSE /\ realce = NenhumRealce

Fecha == aberta' = FALSE /\ UNCHANGED <<valor, realce>>

Abre(opcoes) == realce' = Selecionada(opcoes) /\ aberta' = TRUE /\ UNCHANGED valor

\* An index past the options only closes the list.
Commit(i, opcoes) ==
  /\ IF i \in Indices(opcoes) THEN valor' = opcoes[i + 1] ELSE UNCHANGED valor
  /\ aberta' = FALSE /\ UNCHANGED realce

Realca(i) == aberta /\ realce' = i /\ UNCHANGED <<valor, aberta>>

-----------------------------------------------------------------------------
\* handleKeyDown: a disabled button takes no key.
Enter(opcoes) == IF aberta THEN Commit(realce, opcoes) ELSE Abre(opcoes)

Escape == aberta /\ Fecha

ArrowDown(opcoes) ==
  IF aberta THEN Realca(IF realce + 1 < Ultima(opcoes) THEN realce + 1 ELSE Ultima(opcoes)) ELSE Abre(opcoes)

ArrowUp(opcoes) ==
  IF aberta THEN Realca(IF realce > 0 THEN realce - 1 ELSE 0) ELSE Abre(opcoes)

HomeOuEnd(opcoes) == Realca(0) \/ Realca(Ultima(opcoes))

Tecla(opcoes) ==
  Enter(opcoes) \/ ArrowDown(opcoes) \/ ArrowUp(opcoes) \/ HomeOuEnd(opcoes)

\* The pointer over an option or on it, on the button, and outside; Tab closes too.
Ponteiro(opcoes) ==
  \/ aberta /\ \E i \in Indices(opcoes) : Realca(i) \/ Commit(i, opcoes)
  \/ IF aberta THEN Fecha ELSE Abre(opcoes)

\* The whole control; disabled, only a list already open answers.
Usa(opcoes, travado) ==
  \/ ~travado /\ (Tecla(opcoes) \/ Escape \/ Ponteiro(opcoes))
  \/ aberta /\ (Fecha \/ \E i \in Indices(opcoes) : Realca(i) \/ Commit(i, opcoes))
=============================================================================
