----------------------------- MODULE LazyModel -----------------------------
(* _ensure_model of ClipEmbeddingClient and of CrossEncoderClient: a model   *)
(* kept in a class attribute and loaded by the first call that needs it.     *)
(* The calls run in the threads of asyncio.to_thread, and a load of hundreds *)
(* of megabytes leaves the others ample time.                                *)
EXTENDS Naturals, FiniteSets

CONSTANTS
    Threads,
    MaxCalls,       \* bound: calls by one thread
    None            \* _model before the first load

ASSUME CallsAssumption == MaxCalls \in Nat

(* A loaded model is named by the call that loaded it.                       *)
Models == Threads \X (1..MaxCalls)

ASSUME NoneAssumption == None \notin Models

VARIABLES
    model,      \* the class attribute _model
    pc,
    call,       \* call[t]: how many calls t has begun
    used,       \* used[t]: the model t's last call encoded with
    loaded,     \* history: models whose construction has ended
    warm        \* history: calls that began with a model installed

vars == <<model, pc, call, used, loaded, warm>>

Name(t) == <<t, call[t]>>

-----------------------------------------------------------------------------
Init ==
    /\ model = None
    /\ pc = [t \in Threads |-> "idle"]
    /\ call = [t \in Threads |-> 0]
    /\ used = [t \in Threads |-> None]
    /\ loaded = {} /\ warm = {}

(* embed_text, embed_image_base64 or rerank is called in a thread.           *)
Call(t) ==
    /\ pc[t] = "idle"
    /\ call[t] < MaxCalls
    /\ call' = [call EXCEPT ![t] = @ + 1]
    /\ pc' = [pc EXCEPT ![t] = "check"]
    /\ warm' = IF model = None THEN warm ELSE warm \cup {Name(t)'}
    /\ UNCHANGED <<model, used, loaded>>

(* Slip: every call builds a model for itself.                               *)
AlwaysLoad == TRUE

MustLoad == model = None

(* if _model is None                                                         *)
Check(t) ==
    /\ pc[t] = "check"
    /\ pc' = [pc EXCEPT ![t] = IF MustLoad THEN "load" ELSE "encode"]
    /\ UNCHANGED <<model, call, used, loaded, warm>>

(* Slip: the model goes to a local variable and not to the attribute.        *)
AfterBuildLocal == "encode"

(* SentenceTransformer(...) or CrossEncoder(...) has been built ...          *)
AfterBuild == "install"

Build(t) ==
    /\ pc[t] = "load"
    /\ loaded' = loaded \cup {Name(t)}
    /\ pc' = [pc EXCEPT ![t] = AfterBuild]
    /\ UNCHANGED <<model, call, used, warm>>

(* ... and is assigned to the class attribute.                               *)
Install(t) ==
    /\ pc[t] = "install"
    /\ model' = Name(t)
    /\ pc' = [pc EXCEPT ![t] = "encode"]
    /\ UNCHANGED <<call, used, loaded, warm>>

(* The download or the construction raises; the request fails.               *)
LoadFails(t) ==
    /\ pc[t] = "load"
    /\ pc' = [pc EXCEPT ![t] = "idle"]
    /\ UNCHANGED <<model, call, used, loaded, warm>>

(* The attribute is read again, for encode or predict.                       *)
Encode(t) ==
    /\ pc[t] = "encode"
    /\ used' = [used EXCEPT ![t] = model]
    /\ pc' = [pc EXCEPT ![t] = "idle"]
    /\ UNCHANGED <<model, call, loaded, warm>>

Next == \E t \in Threads :
    Call(t) \/ Check(t) \/ Build(t) \/ Install(t) \/ LoadFails(t) \/ Encode(t)

Spec == Init /\ [][Next]_vars

-----------------------------------------------------------------------------
(* TypeOK: the attribute holds a model some call built, or none.             *)
TypeOK ==
    /\ model \in Models \cup {None}
    /\ pc \in [Threads -> {"idle", "check", "load", "install", "encode"}]
    /\ call \in [Threads -> 0..MaxCalls]
    /\ used \in [Threads -> Models \cup {None}]
    /\ loaded \subseteq Models
    /\ warm \subseteq Models

(* EncodesWithAModel: a call that comes to the encoding finds a finished     *)
(* model in the attribute it reads again, though other threads assign it     *)
(* meanwhile and loads may fail.                                             *)
EncodesWithAModel ==
    \A t \in Threads : pc[t] = "encode" => model \in loaded

(* WarmCallsReuse: once a model is installed, no later call builds another.  *)
WarmCallsReuse == warm \cap loaded = {}

(* LoadedOnce: the model is loaded only once, as the clients' docstrings     *)
(* ("singleton pattern") have it.                                            *)
LoadedOnce == Cardinality(loaded) <= 1
=============================================================================
