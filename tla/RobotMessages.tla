---------------------------- MODULE RobotMessages ----------------------------
(***************************************************************************)
(* The DPS messages a robot sends, in the form VacuumParser takes them.    *)
(***************************************************************************)
EXTENDS VacuumParser

Blank == [station |-> None, work |-> None, play |-> None, error |-> None,
          battery |-> None, map |-> None]

WorkState(s) ==
  [state |-> s, go_wash |-> None, breakpoint |-> None, cleaning |-> None,
   go_home |-> None, mode |-> None, station |-> None, scene |-> None]

Work(w)     == [Blank EXCEPT !.work = w]
Rooms(R)    == [Blank EXCEPT !.play = [rooms |-> R, zones |-> None]]
Zones(n)    == [Blank EXCEPT !.play = [rooms |-> {}, zones |-> n]]
OnMap(i, R) == [Blank EXCEPT !.map = [id |-> i, rooms |-> R]]

Idle      == WorkState(0)
Docked    == WorkState(3)
Cleaning  == WorkState(5)
Returning == WorkState(7)
Paused    == [Cleaning EXCEPT !.cleaning = 1]

InMode(w, mode) == [w EXCEPT !.mode = mode]
InScene(w, id)  == [w EXCEPT !.mode = 8, !.scene = id]
=============================================================================
