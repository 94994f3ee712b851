CONSTANTS
    Processos = {w1, w2}
    Conteudos = {a, b}
    MesmoTamanho = FALSE
    MaxPendencias = 1
    MaxCorridas = 2
    MaxVersoes = 4
    MaxDisparos = 1
    MaxDescartes = 1
    MaxCancelamentos = 1
    MaxErros = 1
    MaxQuedas = 1
    Gastos <- Calmo
SPECIFICATION SpecAtualizacoes
INVARIANT ReferenciaIgual
CHECK_DEADLOCK FALSE
