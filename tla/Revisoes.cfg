SPECIFICATION Spec
CONSTANTS
    Datas = {1, 2, 3}
    Sempre = 4
    Documentos <- Docs
    Recebimentos <- Recebe
    Valores = {v1, v2}
    Nada = nada
    MaiorVersao = 2
    MaxIngestoes = 3
    MaxReparos = 1
    MaxCorrecoes = 1
    MaxFalhas = 1
    MaxQuedas = 1
    MaxAtrasos = 1
    MaxAvulsas = 1
    MaxDobras = 1
    MaxEventos = 3
INVARIANT TipoRevisoes
 
INVARIANT SerieFiel
PROPERTY PrefixoPreservado
CHECK_DEADLOCK FALSE
SYMMETRY Trocas
