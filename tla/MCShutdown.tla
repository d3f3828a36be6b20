------------------------------ MODULE MCShutdown ------------------------------
\* Instances of CoordinatorShutdown.
EXTENDS CoordinatorShutdown

\* A worker that goes on as a controller, a controller, or a stream that breaks.
AnyRequests == [c \in Conn |-> << {"Hello", "Promote"}, {"Query", "Garbage"} >>]
OneChange == [c \in Conn |-> << {"Change"} >>]
OnePromotion == [c \in Conn |-> << {"Promote"} >>]
=============================================================================
